---------------------------- MODULE DzlAnimation ----------------------------
(***************************************************************************)
(* animation/dzl-animation.c: properties of a target go from what they are *)
(* to what they should become, frame by frame.  An animation follows the   *)
(* frame clock of its widget, which tells of each frame twice: before it   *)
(* is painted, and after it, when the animation sets the properties for    *)
(* the frame that is predicted to be next.  Without a widget it follows a  *)
(* source of the main loop.  Setting a property and "tick" run callbacks,  *)
(* in which other animations may be started and stopped; Reentrant and     *)
(* Misused tell what callers do that the code does not expect.             *)
(*                                                                         *)
(* Time is counted in frames since the start of each animation.            *)
(***************************************************************************)
EXTENDS Integers, FiniteSets

CONSTANTS
  Animation,
  mode,           \* of each animation
  Clocked,        \* the animations that have a frame clock
  Duration,       \* of each animation, in frames
  EndValue,       \* of each animation, what its properties should become
  Unsigned,       \* the properties of type guint
  Width,          \* how many values a guint has
  Reentrant,      \* whether callbacks stop the animation that calls them
  Misused,        \* whether animations are stopped before, or started after, they ran
  None

VARIABLES
  life,           \* "none", "made", "running" (tween_handler is set) or "ended"
  stop_called, last_offset,
  elapsed,        \* since begin_time, no more than the duration
  begin,          \* tween->begin
  value,          \* of the properties of the target
  updating,       \* how often the frame clock has been asked to go on
  phase, due,     \* what the clock emits, and whose handlers are to be called
  ticking,        \* dzl_animation_tick: whose, the offset, what is left to set
  wrote,          \* observed: what an animation has set its properties to
  ended           \* observed: "by itself", "by a caller" or "no"

vars == <<life, stop_called, last_offset, elapsed, begin, value, updating, phase, due,
          ticking, wrote, ended>>

Property == UNION {DOMAIN EndValue[a] : a \in Animation}
Of(a, v) == [p \in DOMAIN EndValue[a] |-> v[p]]
Nothing == [p \in Property |-> None]
Zero == [p \in Property |-> 0]
Running == {a \in Animation : life[a] = "running"}
-----------------------------------------------------------------------------
(* dzl_animation_alpha_*: how much of the way is gone after n of d frames, *)
(* as a fraction                                                           *)
Alpha(m, n, d) ==
  CASE d = 0 -> <<1, 1>>
    [] d > 0 /\ m = "linear" -> <<n, d>>
    [] d > 0 /\ m = "ease-in-quad" -> <<n * n, d * d>>
    [] d > 0 /\ m = "ease-out-quad" -> <<n * (2 * d - n), d * d>>
    [] d > 0 /\ m = "ease-in-out-quad" ->
         <<IF 2 * n < d THEN 4 * n * n ELSE d * d - (2 * n - d) * (2 * n - 3 * d), 2 * d * d>>
    [] d > 0 /\ m = "ease-in-cubic" -> <<n * n * n, d * d * d>>
    [] d > 0 /\ m = "ease-out-cubic" ->
         <<(n - d) * (n - d) * (n - d) + d * d * d, d * d * d>>
    [] d > 0 /\ m = "ease-in-out-cubic" ->
         <<IF 2 * n < d THEN 4 * n * n * n
           ELSE 4 * (n - d) * (n - d) * (n - d) + d * d * d, d * d * d>>

Modes == {"linear", "ease-in-quad", "ease-out-quad", "ease-in-out-quad",
          "ease-in-cubic", "ease-out-cubic", "ease-in-out-cubic"}

(* tween_int and tween_uint: between unsigned values the way wraps, and a  *)
(* sum that is no guint becomes what the processor makes of it.            *)
Tween(p, x, y, alpha) ==
  LET way == IF p \in Unsigned THEN (y - x) % Width ELSE y - x
      at == (x * alpha[2] + way * alpha[1]) \div alpha[2]
  IN  IF p \in Unsigned /\ at >= Width THEN {at % Width, Width - 1} ELSE {at}

(* dzl_animation_get_offset, k frames from now                             *)
Offset_NotClamped(a, k) == elapsed[a] + k
Offset(a, k) == IF elapsed[a] + k > Duration[a] THEN Duration[a] ELSE elapsed[a] + k
-----------------------------------------------------------------------------
Init ==
  /\ life = [a \in Animation |-> "none"]
  /\ stop_called = [a \in Animation |-> FALSE]
  /\ last_offset = [a \in Animation |-> -1] /\ elapsed = [a \in Animation |-> 0]
  /\ begin = [a \in Animation |-> Of(a, Zero)] /\ value = Zero
  /\ updating = 0 /\ phase = "idle" /\ due = {} /\ ticking = None
  /\ wrote = [a \in Animation |-> Of(a, Nothing)]
  /\ ended = [a \in Animation |-> "no"]

(* dzl_animation_init with dzl_animation_add_property                      *)
New(a) ==
  /\ life[a] = "none"
  /\ life' = [life EXCEPT ![a] = "made"]
  /\ UNCHANGED <<stop_called, last_offset, elapsed, begin, value, updating, phase, due,
                 ticking, wrote, ended>>

(* Nobody refers to the animation any more.                                *)
Finalize(a) ==
  /\ life[a] \in {"made", "ended"} /\ (ticking # None => ticking.a # a)
  /\ life' = [life EXCEPT ![a] = "none"]
  /\ stop_called' = [stop_called EXCEPT ![a] = FALSE]
  /\ last_offset' = [last_offset EXCEPT ![a] = -1]
  /\ elapsed' = [elapsed EXCEPT ![a] = 0]
  /\ wrote' = [wrote EXCEPT ![a] = Of(a, Nothing)]
  /\ ended' = [ended EXCEPT ![a] = "no"]
  /\ UNCHANGED <<begin, value, updating, phase, due, ticking>>

(* dzl_animation_start, with dzl_animation_load_begin_values.  A handler   *)
(* that is connected in an emission is not called in it.                   *)
Start(a) ==
  /\ life[a] = "made" \/ (Misused /\ life[a] = "ended" /\ (ticking # None => ticking.a # a))
  /\ life' = [life EXCEPT ![a] = "running"]
  /\ elapsed' = [elapsed EXCEPT ![a] = 0]
  /\ begin' = [begin EXCEPT ![a] = Of(a, value)]
  /\ updating' = IF a \in Clocked THEN updating + 1 ELSE updating
  /\ ended' = [ended EXCEPT ![a] = "no"]
  /\ UNCHANGED <<stop_called, last_offset, value, phase, due, ticking, wrote>>

(* dzl_animation_stop, with dzl_animation_unload_begin_values: only the    *)
(* first call ends the animation, whether it was running then or not.      *)
Stopping(a, by) ==
  LET ends == ~stop_called[a] /\ life[a] = "running"
  IN  /\ stop_called' = [stop_called EXCEPT ![a] = TRUE]
      /\ life' = [life EXCEPT ![a] = IF ends THEN "ended" ELSE @]
      /\ updating' = IF ends /\ a \in Clocked THEN updating - 1 ELSE updating
      /\ begin' = [begin EXCEPT ![a] = IF ends THEN Of(a, Zero) ELSE @]
      /\ ended' = [ended EXCEPT ![a] = IF ends THEN by ELSE @]

Stop(a) ==
  /\ life[a] = "running" \/ (Misused /\ life[a] # "none")
  /\ (ticking # None /\ ticking.a = a) => Reentrant
  /\ Stopping(a, "by a caller")
  /\ due' = {b \in due : life'[b] = "running"}
  /\ UNCHANGED <<last_offset, elapsed, value, phase, ticking, wrote>>

(* dzl_animation_tick is called by a handler that stops the animation at   *)
(* its end, or does not; it does nothing if the offset is the last one.    *)
Handle_NotStopped(a, offset, stops) ==
  \/ /\ offset # last_offset[a]
     /\ ticking' = [a |-> a, offset |-> offset, left |-> DOMAIN EndValue[a], stops |-> stops]
     /\ UNCHANGED <<life, stop_called, begin, updating, ended>>
  \/ /\ offset = last_offset[a]
     /\ UNCHANGED <<ticking, life, stop_called, begin, updating, ended>>
Handle(a, offset, stops) ==
  \/ /\ offset # last_offset[a]
     /\ ticking' = [a |-> a, offset |-> offset, left |-> DOMAIN EndValue[a], stops |-> stops]
     /\ UNCHANGED <<life, stop_called, begin, updating, ended>>
  \/ /\ offset = last_offset[a]
     /\ IF stops /\ offset = Duration[a] THEN Stopping(a, "by itself")
        ELSE UNCHANGED <<life, stop_called, begin, updating, ended>>
     /\ UNCHANGED ticking

(* The frame clock (external), while it is asked to go on: some time has   *)
(* passed, and the handlers of "update", then of "after-paint" are called. *)
Frame(k) ==
  /\ phase = "idle" /\ ticking = None /\ updating > 0
  /\ phase' = "update" /\ due' = Running \cap Clocked
  /\ elapsed' = [a \in Animation |->
                  IF a \in Running \cap Clocked THEN Offset(a, k) ELSE elapsed[a]]
  /\ UNCHANGED <<life, stop_called, last_offset, begin, value, updating, ticking, wrote,
                 ended>>
NextPhase ==
  /\ phase # "idle" /\ due = {} /\ ticking = None
  /\ phase' = IF phase = "update" THEN "after-paint" ELSE "idle"
  /\ due' = IF phase = "update" THEN Running \cap Clocked ELSE {}
  /\ UNCHANGED <<life, stop_called, last_offset, elapsed, begin, value, updating, ticking,
                 wrote, ended>>

(* dzl_animation_widget_tick_cb                                            *)
WidgetTick(a) ==
  /\ phase = "update" /\ a \in due /\ ticking = None
  /\ due' = due \ {a}
  /\ Handle(a, Offset(a, 0), TRUE)
  /\ UNCHANGED <<last_offset, elapsed, value, phase, wrote>>

(* dzl_animation_widget_after_paint_cb: the next frame is presented in k   *)
(* frames, or the clock cannot tell.                                       *)
WidgetAfterPaint(a, k) ==
  /\ phase = "after-paint" /\ a \in due /\ ticking = None
  /\ due' = due \ {a}
  /\ Handle(a, Offset(a, k), FALSE)
  /\ UNCHANGED <<last_offset, elapsed, value, phase, wrote>>

(* dzl_animation_timeout_cb, after k frames                                *)
Timeout(a, k) ==
  /\ phase = "idle" /\ ticking = None
  /\ a \in Running \ Clocked
  /\ elapsed' = [elapsed EXCEPT ![a] = Offset(a, k)]
  /\ Handle(a, Offset(a, k), TRUE)
  /\ UNCHANGED <<last_offset, value, phase, due, wrote>>

(* The rest of dzl_animation_tick: the properties, "tick", and what the    *)
(* handler does after it                                                   *)
SetProperty(p) ==
  /\ ticking # None /\ p \in ticking.left
  /\ LET a == ticking.a
     IN  \E new \in Tween(p, begin[a][p], EndValue[a][p],
                          Alpha(mode[a], ticking.offset, Duration[a])) :
           /\ value' = [value EXCEPT ![p] = new]
           /\ wrote' = [wrote EXCEPT ![a][p] = new]
  /\ ticking' = [ticking EXCEPT !.left = @ \ {p}]
  /\ UNCHANGED <<life, stop_called, last_offset, elapsed, begin, updating, phase, due,
                 ended>>
TickEnds ==
  /\ ticking # None /\ ticking.left = {}
  /\ ticking' = None
  /\ last_offset' = [last_offset EXCEPT ![ticking.a] = ticking.offset]
  /\ IF ticking.stops /\ ticking.offset = Duration[ticking.a]
     THEN Stopping(ticking.a, "by itself")
     ELSE UNCHANGED <<life, stop_called, begin, updating, ended>>
  /\ UNCHANGED <<elapsed, value, phase, due, wrote>>

Tick == (\E p \in Property : SetProperty(p)) \/ TickEnds
Next ==
  \/ \E a \in Animation : New(a) \/ Finalize(a) \/ Start(a) \/ Stop(a)
  \/ \E k \in 1..2 : Frame(k)
  \/ NextPhase
  \/ \E a \in Animation :
       \/ WidgetTick(a)
       \/ \E k \in 1..2 : Timeout(a, k)
       \/ \E k \in 0..2 : WidgetAfterPaint(a, k)
  \/ Tick

(* Callbacks return and emissions go on, and the main loop gets to every   *)
(* source that is ready.                                                   *)
Emission ==
  \/ Tick \/ NextPhase
  \/ \E a \in Animation : WidgetTick(a) \/ \E k \in 0..2 : WidgetAfterPaint(a, k)
Fairness ==
  /\ WF_vars(Emission)
  /\ SF_vars(\E k \in 1..2 : Frame(k))
  /\ \A a \in Animation \ Clocked : SF_vars(\E k \in 1..2 : Timeout(a, k))

Spec == Init /\ [][Next]_vars /\ Fairness
-----------------------------------------------------------------------------
TypeOK ==
  /\ life \in [Animation -> {"none", "made", "running", "ended"}]
  /\ stop_called \in [Animation -> BOOLEAN]
  /\ last_offset \in [Animation -> Int] /\ elapsed \in [Animation -> Nat]
  /\ \A a \in Animation : last_offset[a] \in -1..Duration[a] /\ elapsed[a] \in 0..Duration[a]
  /\ due \subseteq Running \cap Clocked /\ (phase = "idle" => due = {})
  /\ ticking # None => ticking.left \subseteq DOMAIN EndValue[ticking.a]

(* "They will be animated from their current value to the target value     *)
(* over the time period": an animation that comes to its end by itself has *)
(* left its properties at their target values, and what it sets before is  *)
(* between the two, although frames are late and predictions wrong.        *)
Arrives ==
  \A a \in Animation : \A p \in DOMAIN EndValue[a] :
    /\ ended[a] = "by itself" => wrote[a][p] = EndValue[a][p]
    /\ life[a] = "running" /\ wrote[a][p] # None =>
         \/ wrote[a][p] \in begin[a][p]..EndValue[a][p]
         \/ wrote[a][p] \in EndValue[a][p]..begin[a][p]

(* Each way to ease goes from the beginning to the end and never back.     *)
Eases ==
  \A m \in Modes, d \in 1..4 :
    /\ Alpha(m, 0, d)[1] = 0 /\ Alpha(m, d, d)[1] = Alpha(m, d, d)[2]
    /\ \A n \in 0..(d - 1) : Alpha(m, n, d)[1] <= Alpha(m, n + 1, d)[1]

(* The frame clock goes on as long as an animation needs it, and no longer.*)
ClockRuns == updating = Cardinality(Running \cap Clocked)

(* An animation that is started comes to its end.                          *)
Ends == \A a \in Animation : life[a] = "running" ~> life[a] # "running"
=============================================================================

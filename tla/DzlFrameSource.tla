--------------------------- MODULE DzlFrameSource ---------------------------
(***************************************************************************)
(* animation/dzl-frame-source.c: a source of the main loop that calls back *)
(* Fps times a second, for what has no frame clock.  The loop asks it when *)
(* it is ready, polls until then or until something else happens, and      *)
(* dispatches it.                                                          *)
(*                                                                         *)
(* A second has Second ms and a guint Width values (1000 and 2^32).        *)
(***************************************************************************)
EXTENDS Integers

CONSTANTS Fps, Second, Width, MaxElapsed, MaxDelay

VARIABLES
  at,           \* what the main loop does: "prepare", "poll", "dispatch" or "gone"
  elapsed,      \* the ms since start_time
  frame_count,
  timeout,      \* how long the loop polls, below 0 for ever
  burst         \* observed: how often it was dispatched within one ms

vars == <<at, elapsed, frame_count, timeout, burst>>

ConstantsType ==
  /\ Fps \in Nat \ {0} /\ Second \in Nat \ {0} /\ Width \in Nat \ {0}
  /\ MaxElapsed \in Nat /\ MaxDelay \in Nat

(* The frame time rounded up to the nearest ms                             *)
FrameTime == (Second + Fps - 1) \div Fps
(* A guint as a gint                                                       *)
Signed(n) == IF n < Width \div 2 THEN n ELSE n - Width

Init ==
  /\ at = "prepare" /\ elapsed = 0 /\ frame_count = 0 /\ timeout = 0 /\ burst = 0

(* dzl_frame_source_prepare, which is dzl_frame_source_check after a poll  *)
Prepare ==
  /\ at = "prepare"
  /\ LET new_frame_num == ((elapsed * Fps) % Width) \div Second
         behind == \/ new_frame_num < frame_count
                   \/ new_frame_num - frame_count > 2
     IN  \/ /\ behind
            /\ elapsed' = FrameTime /\ frame_count' = 0
            /\ at' = "dispatch" /\ UNCHANGED timeout
         \/ /\ ~behind /\ new_frame_num > frame_count
            /\ at' = "dispatch" /\ UNCHANGED <<elapsed, frame_count, timeout>>
         \/ /\ new_frame_num = frame_count
            /\ timeout' = Signed(((((frame_count + 1) * Second) % Width) \div Fps - elapsed) % Width)
            /\ at' = "poll" /\ UNCHANGED <<elapsed, frame_count>>
  /\ UNCHANGED burst

(* The main loop polls: it is woken by the timeout or by something else,   *)
(* and comes back up to MaxDelay ms later.                                 *)
Poll(d) ==
  /\ at = "poll" /\ (timeout >= 0 => d <= timeout + MaxDelay)
  /\ elapsed + d <= MaxElapsed
  /\ elapsed' = elapsed + d
  /\ burst' = IF d > 0 THEN 0 ELSE burst
  /\ at' = "prepare"
  /\ UNCHANGED <<frame_count, timeout>>

(* dzl_frame_source_dispatch: the callback takes d ms, and goes on or not. *)
Dispatch(d) ==
  /\ at = "dispatch"
  /\ elapsed + d <= MaxElapsed
  /\ elapsed' = elapsed + d
  /\ burst' = IF d > 0 THEN 0 ELSE burst + 1
  /\ \/ at' = "prepare" /\ frame_count' = frame_count + 1
     \/ at' = "gone" /\ UNCHANGED frame_count
  /\ UNCHANGED timeout

Next == Prepare \/ \E d \in 0..MaxElapsed : Poll(d) \/ Dispatch(d)
Spec == Init /\ [][Next]_vars
-----------------------------------------------------------------------------
TypeOK ==
  /\ at \in {"prepare", "poll", "dispatch", "gone"}
  /\ elapsed \in 0..MaxElapsed /\ frame_count \in Nat /\ timeout \in Int /\ burst \in Nat

(* "This can be used as a suitable fallback that approximates a            *)
(* frame-rate": the loop never sleeps past the next frame, a source that   *)
(* is late catches up with at most two frames at once, and it is not       *)
(* faster than it should be.                                               *)
KeepsRate ==
  /\ at = "poll" => timeout \in 0..FrameTime
  /\ burst <= 2
  /\ at # "dispatch" => frame_count * Second <= elapsed * Fps
=============================================================================

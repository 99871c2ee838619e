------------------------------ MODULE MCSteps ------------------------------
(* Five components that go on step by step until they are done, side by    *)
(* side: the loops of the heap, animations, the frame source, the          *)
(* recursive file monitor with its listings, and the task cache with its   *)
(* fetches.  They share nothing, so a behaviour is one of one of them,     *)
(* `which', and the others rest.                                           *)
EXTENDS DzlHeap

CONSTANTS
  hi, mid, lo,
  None, Monitor, MaxChanges,
  Key, Task, Cancellable, NoCancellable

VARIABLES
  which,
  stage, stop_called, last_offset, elapsed, begin, property, updating, frame, due, ticking, wrote,
  ended,
  at, since_start, frame_count, timeout, burst,
  exists, changes, untold, watch, events,
  monitors_by_file, files_by_monitor, disposed, start, job, emitted,
  cache, evict_heap, ready_time, queued, has_queue, in_flight, abandoned, answering, answer,
  status, key, told, cancellable, connected, given_up, idle, removing, now, failed

(* An element may be held more than once, and then compares equal.         *)
MCElem == {hi, mid, lo}
MCPrio == [e \in MCElem |-> IF e = hi THEN 3 ELSE IF e = mid THEN 2 ELSE 1]

(* An animation of a widget, and one of another object; they share x.      *)
EndValues == [a1 |-> [x |-> 3, u |-> 4], a2 |-> [x |-> 1]]
Anim == INSTANCE DzlAnimation
  WITH Animation <- {"a1", "a2"}, Clocked <- {"a1"}, Duration <- [a1 |-> 2, a2 |-> 2],
       EndValue <- EndValues, Unsigned <- {"u"}, Width <- 8,
       mode <- [a1 |-> "ease-in-out-cubic", a2 |-> "ease-out-quad"],
       Reentrant <- FALSE, Misused <- FALSE, life <- stage, value <- property, phase <- frame

(* Three frames in ten ms, until the numbers of a guint are nearly used up *)
Frames == INSTANCE DzlFrameSource
  WITH Fps <- 3, Second <- 10, Width <- 64, MaxElapsed <- 19, MaxDelay <- 12,
       elapsed <- since_start

(* A directory with two directories below it, one of them ignored          *)
RM == INSTANCE DzlRecursiveFileMonitor
  WITH Dir <- {"root", "a", "ab", "ai"}, Root <- "root", Ignored <- {"ai"},
       Parent <- [a |-> "root", ab |-> "a", ai |-> "a"],
       cancelled <- disposed

(* One key, and cancellables that may be cancelled already                 *)
Cache == INSTANCE DzlTaskCache
  WITH TimeToLive <- 1, MaxTime <- 1, CancelledUpFront <- FALSE,
       cancelled <- given_up, result <- told

ASSUME MCStepsAssumption == Frames!ConstantsType /\ RM!ConstantsType

animations == <<stage, stop_called, last_offset, elapsed, begin, property, updating, frame, due,
                ticking, wrote, ended>>
frames == <<at, since_start, frame_count, timeout, burst>>
rm == <<exists, changes, untold, watch, events,
        monitors_by_file, files_by_monitor, disposed, start, job, emitted>>
fetches == <<cache, evict_heap, ready_time, queued, has_queue, in_flight, abandoned, answering,
             answer, status, key, told, cancellable, connected, given_up, idle, removing, now,
             failed>>

StepsInit ==
  /\ which \in {"heap", "animation", "frames", "monitor", "cache"}
  /\ Init /\ Anim!Init /\ Frames!Init /\ Cache!Init
  /\ RM!Init /\ (which = "monitor" \/ exists = {"root"})

StepsNext ==
  \/ /\ which = "heap" /\ Next
     /\ UNCHANGED <<which, animations, frames, rm, fetches>>
  \/ /\ which = "animation" /\ Anim!Next
     /\ UNCHANGED <<which, vars, frames, rm, fetches>>
  \/ /\ which = "frames" /\ Frames!Next
     /\ UNCHANGED <<which, vars, animations, rm, fetches>>
  \/ /\ which = "monitor" /\ RM!Next
     /\ UNCHANGED <<which, vars, animations, frames, fetches>>
  \/ /\ which = "cache" /\ Cache!Next
     /\ UNCHANGED <<which, vars, animations, frames, rm>>

(* A call on the heap goes on, and the others have the fairness of their   *)
(* modules.                                                                *)
StepsSpec ==
  /\ StepsInit /\ [][StepsNext]_<<which, vars, animations, frames, rm, fetches>>
  /\ WF_vars(InsertStep \/ InsertEnd \/ DownStep \/ DownEnd \/ UpStep \/ UpEnd)
  /\ Anim!Fairness /\ RM!Fairness
  /\ Cache!CodeFairness /\ Cache!LoopFairness
-----------------------------------------------------------------------------
(* The variables of each keep their types.                                 *)
StepsTypeOK == TypeOK /\ Anim!TypeOK /\ Frames!TypeOK /\ RM!TypeOK

(* Animations leave what they animate where they should, and on the way    *)
(* there in between; the frame clock and the frame source go on as long as *)
(* they are needed and no faster than they should.                         *)
AnimationsArrive == Anim!Arrives /\ Anim!ClockRuns /\ Anim!Eases /\ Frames!KeepsRate

(* Animations come to their end.                                           *)
AnimationsEnd == Anim!Ends

(* When all events are handled, each directory that is not ignored is      *)
(* watched, but those made below one that was listed and not yet watched,  *)
(* those made again before all is told of the old one, those removed on    *)
(* the way from listing to watching, and what is below them.  A monitor    *)
(* that is found by its directory is found the other way too.              *)
EveryDirectoryWatched == RM!EveryDirectoryWatched /\ RM!TablesAgree

(* "This works by creating a #GFileMonitor for each directory underneath a *)
(* root directory (and recursively beyond that)"                           *)
(* (dzl-recursive-file-monitor.c:36), without the exceptions.              *)
MonitorForEachDirectory == RM!MonitorForEachDirectory

(* Nothing is watched or signalled after a cancellation.                   *)
CancelIsFinal == RM!CancelIsFinal

(* A start is answered, cancelled or not.                                  *)
StartIsAnswered == RM!StartIsAnswered

(* Every request is answered, if populate callbacks return; a cancelled    *)
(* one even if its fetch never does.  Items leave after their time to      *)
(* live, with no further call to the cache.                                *)
CacheIsLive == Cache!AnsweredEventually /\ Cache!CancelIsPrompt /\ Cache!ExpiredLeave
=============================================================================

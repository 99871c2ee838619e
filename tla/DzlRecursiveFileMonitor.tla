---------------------- MODULE DzlRecursiveFileMonitor ----------------------
(***************************************************************************)
(* files/dzl-recursive-file-monitor.c: one GFileMonitor for every directory*)
(* below a root.  A worker thread lists the directories there are at first;*)
(* events about directories made or removed later keep the set up to date. *)
(*                                                                         *)
(* The file system changes on its own, between any two system calls of the *)
(* worker or of the main thread; each monitor queues what happens in its   *)
(* directory, and the main loop delivers the queues in any order.          *)
(*                                                                         *)
(* Only directories are modelled, under fixed names: the events of other   *)
(* files are passed on and change nothing.  Renames are left out.          *)
(***************************************************************************)
EXTENDS Integers, Sequences, SequencesExt

CONSTANTS
  Dir,         \* names of directories
  Root,        \* self->root
  Parent,      \* the directory each of the others is in
  Ignored,     \* where ignore_func returns TRUE
  Monitor,     \* GFileMonitors that can exist at once
  None,
  MaxChanges   \* bound on the directories made and removed

ConstantsType ==
  /\ Root \in Dir /\ Parent \in [Dir \ {Root} -> Dir]
  /\ Ignored \subseteq Dir \ {Root} /\ None \notin Dir \cup Monitor
  /\ MaxChanges \in Nat /\ IsFiniteSet(Dir)
  /\ \A S \in (SUBSET Dir) \ {{}} : \E d \in S : d = Root \/ Parent[d] \notin S

VARIABLES
  exists,            \* the directories there are
  changes,           \* how many were made or removed
  untold,            \* observed: names whose last change the code may miss,
                     \* or tell too late
  watch,             \* the directory each monitor gets events from
  events,            \* what each monitor has not delivered yet
  monitors_by_file,
  files_by_monitor,
  cancelled,         \* self->cancellable, cancelled by dispose
  start,             \* the task of start_async: not made, running or answered
  job,               \* the listing of directories that runs, and what follows it
  emitted            \* the last "changed" signal

fs     == <<exists, changes, untold>>
gio    == <<watch, events>>
tables == <<monitors_by_file, files_by_monitor>>
vars   == <<fs, gio, tables, cancelled, start, job, emitted>>

(* A job lists directories for start_async or for a directory that was     *)
(* created, then attaches a monitor to each of those it found.             *)
NoJob == [by |-> "nobody", step |-> "done", about |-> None, todo |-> <<>>, dirs |-> <<>>]

Children(d) == {c \in exists \ {Root} : Parent[c] = d}

Ancestors[d \in Dir] == IF d = Root THEN {} ELSE {Parent[d]} \cup Ancestors[Parent[d]]

(* The main thread is inside start_cb or changed. *)
Busy == job.by = "changed" \/ job.step = "attach"

-----------------------------------------------------------------------------
Init ==
  /\ exists \in {{Root}, Dir}
  /\ changes = 0
  /\ untold = {}
  /\ watch = [m \in Monitor |-> None]
  /\ events = [m \in Monitor |-> <<>>]
  /\ monitors_by_file = [d \in Dir |-> None]
  /\ files_by_monitor = [m \in Monitor |-> None]
  /\ cancelled = FALSE
  /\ start = "none"
  /\ job = NoJob
  /\ emitted = None

(* The file system (external) changes at any time.  A removed directory    *)
(* tells its own monitor too, which gets nothing more.                     *)
MayChange ==
  /\ changes < MaxChanges
  /\ changes' = changes + 1

Reported(d, event, ms) ==
  events' = [m \in Monitor |-> IF m \in ms
                               THEN Append(events[m], [event |-> event, file |-> d])
                               ELSE events[m]]

(* A directory is made too early when the one it is in was listed and is   *)
(* not watched yet, or when its name is in use: in the tables, about to be *)
(* watched, or in a report that is still to be delivered.                  *)
InUse(d) ==
  \/ monitors_by_file[d] # None \/ d \in ToSet(job.dirs)
  \/ \E m \in Monitor : \E e \in ToSet(events[m]) : e.file = d

Mkdir(d) ==
  /\ MayChange
  /\ d \in Dir \ exists /\ Parent[d] \in exists
  /\ exists' = exists \cup {d}
  /\ untold' = IF InUse(d) \/ Parent[d] \in ToSet(job.dirs) THEN untold \cup {d} ELSE untold \ {d}
  /\ Reported(d, "CREATED", {m \in Monitor : watch[m] = Parent[d]})
  /\ UNCHANGED <<watch, tables, cancelled, start, job, emitted>>

(* One that is about to be watched goes unseen.                            *)
Rmdir(d) ==
  /\ MayChange
  /\ d \in exists \ {Root} /\ Children(d) = {}
  /\ exists' = exists \ {d}
  /\ untold' = IF d \in ToSet(job.dirs) THEN untold \cup {d} ELSE untold
  /\ Reported(d, "DELETED", {m \in Monitor : watch[m] \in {Parent[d], d}})
  /\ watch' = [m \in Monitor |-> IF watch[m] = d THEN None ELSE watch[m]]
  /\ UNCHANGED <<tables, cancelled, start, job, emitted>>

-----------------------------------------------------------------------------
(* dzl_recursive_file_monitor_collect_recursive: the entries of a directory *)
(* are read when it is found, and each is gone into before the next.        *)
Entered_Flat(by, about, d, found, rest) ==
  {[by |-> by, step |-> "list", about |-> about, dirs |-> Append(found, d),
    todo |-> (IF d = about THEN order ELSE <<>>) \o rest] : order \in SetToSeqs(Children(d))}
Entered(by, about, d, found, rest) ==
  {[by |-> by, step |-> "list", about |-> about, dirs |-> Append(found, d),
    todo |-> order \o rest] : order \in SetToSeqs(Children(d))}

(* dzl_recursive_file_monitor_start_async *)
StartAsync ==
  /\ start = "none"
  /\ start' = "running"
  /\ job' \in Entered("start", Root, Root, <<>>, <<>>)
  /\ UNCHANGED <<fs, gio, tables, cancelled, emitted>>

(* A directory that has gone meanwhile is not found. *)
Collect ==
  /\ job.step = "list" /\ job.todo # <<>>
  /\ IF Head(job.todo) \in exists
     THEN job' \in Entered(job.by, job.about, Head(job.todo), job.dirs, Tail(job.todo))
     ELSE job' = [job EXCEPT !.todo = Tail(@)]
  /\ UNCHANGED <<fs, gio, tables, cancelled, start, emitted>>

(* dzl_recursive_file_monitor_start_cb, up to its loop. *)
StartCb_CancelMissed ==
  /\ job.by = "start" /\ job.step = "list" /\ job.todo = <<>>
  /\ job' = [job EXCEPT !.step = "attach"]
  /\ UNCHANGED <<fs, gio, tables, cancelled, start, emitted>>
StartCb_Unanswered ==
  /\ job.by = "start" /\ job.step = "list" /\ job.todo = <<>>
  /\ job' = IF cancelled THEN NoJob ELSE [job EXCEPT !.step = "attach"]
  /\ UNCHANGED <<fs, gio, tables, cancelled, start, emitted>>
StartCb ==
  /\ job.by = "start" /\ job.step = "list" /\ job.todo = <<>>
  /\ IF cancelled
     THEN start' = "answered" /\ job' = NoJob
     ELSE job' = [job EXCEPT !.step = "attach"] /\ UNCHANGED start
  /\ UNCHANGED <<fs, gio, tables, cancelled, emitted>>

(* The created directory and those below it have been listed. *)
CreatedListed ==
  /\ job.by = "changed" /\ job.step = "list" /\ job.todo = <<>>
  /\ job' = [job EXCEPT !.step = "attach"]
  /\ UNCHANGED <<fs, gio, tables, cancelled, start, emitted>>

(* g_file_monitor_directory() and dzl_recursive_file_monitor_track: when   *)
(* the name is in the tables, one drops its old entry and one keeps it.    *)
FreeMonitor == CHOOSE m \in Monitor : files_by_monitor[m] = None

Track(d) ==
  /\ \E m \in Monitor : files_by_monitor[m] = None
  /\ monitors_by_file' = [monitors_by_file EXCEPT ![d] = FreeMonitor]
  /\ files_by_monitor' = [files_by_monitor EXCEPT ![FreeMonitor] = d]
  /\ watch' = [watch EXCEPT ![FreeMonitor] = IF d \in exists THEN d ELSE None]
  /\ UNCHANGED events

(* One directory of the loop of start_cb or changed: start_cb passes over  *)
(* an ignored one and those below it, which follow it.                     *)
Skipped(d) ==
  job.by = "start" /\ (d \in Ignored \/ Ancestors[d] \cap Ignored # {})

AttachNext ==
  /\ job.step = "attach" /\ job.dirs # <<>>
  /\ IF Skipped(Head(job.dirs)) THEN UNCHANGED <<tables, gio>> ELSE Track(Head(job.dirs))
  /\ job' = [job EXCEPT !.dirs = Tail(@)]
  /\ UNCHANGED <<fs, cancelled, start, emitted>>

(* ... and what follows the loops: the answer, or the signal. *)
Attached ==
  /\ job.step = "attach" /\ job.dirs = <<>>
  /\ job' = NoJob
  /\ IF job.by = "start"
     THEN start' = "answered" /\ UNCHANGED emitted
     ELSE emitted' = [event |-> "CREATED", file |-> job.about] /\ UNCHANGED start
  /\ UNCHANGED <<fs, gio, tables, cancelled>>

-----------------------------------------------------------------------------
(* dzl_recursive_file_monitor_changed.  A monitor delivers as long as one  *)
(* of the tables keeps it, and nothing of its queue once it is cancelled.  *)
Deliver(m) ==
  /\ ~Busy
  /\ files_by_monitor[m] # None /\ events[m] # <<>>

(* ... for a directory that was removed: dzl_recursive_file_monitor_unwatch *)
(* cancels the monitor its name leads to, and the signal is passed on.     *)
DeletedReported(m) ==
  /\ Deliver(m)
  /\ Head(events[m]).event = "DELETED" /\ Head(events[m]).file \notin Ignored
  /\ emitted' = Head(events[m])
  /\ UNCHANGED <<fs, cancelled, start, job>>

DropQueues(gone, m) ==
  /\ watch' = [i \in Monitor |-> IF i \in gone THEN None ELSE watch[i]]
  /\ events' = [i \in Monitor |-> IF i \in gone THEN <<>>
                                  ELSE IF i = m THEN Tail(events[i]) ELSE events[i]]

ChangedDeleted(m) ==
  LET gone == {monitors_by_file[Head(events[m]).file]} \ {None}
  IN  /\ DeletedReported(m)
      /\ monitors_by_file' = [monitors_by_file EXCEPT ![Head(events[m]).file] = None]
      /\ files_by_monitor' = [i \in Monitor |-> IF i \in gone THEN None ELSE files_by_monitor[i]]
      /\ DropQueues(gone, m)

(* ... for one that was made, and is there; it is passed on when not. *)
ChangedCreated(m) ==
  LET e == Head(events[m]) IN
  /\ Deliver(m)
  /\ e.event = "CREATED" /\ e.file \notin Ignored
  /\ events' = [events EXCEPT ![m] = Tail(@)]
  /\ IF e.file \in exists
     THEN job' \in Entered("changed", e.file, e.file, <<>>, <<>>) /\ UNCHANGED emitted
     ELSE emitted' = e /\ UNCHANGED job
  /\ UNCHANGED <<fs, watch, tables, cancelled, start>>

ChangedIgnored(m) ==
  /\ Deliver(m)
  /\ Head(events[m]).file \in Ignored
  /\ events' = [events EXCEPT ![m] = Tail(@)]
  /\ UNCHANGED <<fs, watch, tables, cancelled, start, job, emitted>>

(* dzl_recursive_file_monitor_cancel and _dispose: the tables held the     *)
(* monitors.                                                               *)
Cancel ==
  /\ ~Busy
  /\ cancelled' = TRUE
  /\ monitors_by_file' = [d \in Dir |-> None]
  /\ files_by_monitor' = [m \in Monitor |-> None]
  /\ watch' = [m \in Monitor |-> None]
  /\ events' = [m \in Monitor |-> <<>>]
  /\ UNCHANGED <<fs, start, job, emitted>>

Next ==
  \/ \E d \in Dir : Mkdir(d) \/ Rmdir(d)
  \/ StartAsync \/ Collect \/ StartCb \/ CreatedListed \/ AttachNext \/ Attached
  \/ \E m \in Monitor : ChangedDeleted(m) \/ ChangedCreated(m) \/ ChangedIgnored(m)
  \/ Cancel

Spec == Init /\ [][Next]_vars

(* The worker thread and the loops of the main thread run to their end,    *)
(* and the main loop delivers what is queued.                              *)
Fairness == WF_vars(Collect \/ StartCb \/ CreatedListed \/ AttachNext \/ Attached)
FairSpec == Spec /\ Fairness

-----------------------------------------------------------------------------
(* Properties *)

TypeOK ==
  /\ Root \in exists /\ exists \subseteq Dir /\ untold \subseteq Dir
  /\ changes \in 0..MaxChanges
  /\ watch \in [Monitor -> Dir \cup {None}]
  /\ events \in [Monitor -> Seq([event : {"CREATED", "DELETED"}, file : Dir])]
  /\ monitors_by_file \in [Dir -> Monitor \cup {None}]
  /\ files_by_monitor \in [Monitor -> Dir \cup {None}]
  /\ cancelled \in BOOLEAN
  /\ start \in {"none", "running", "answered"}
  /\ job \in {NoJob} \cup [by : {"start", "changed"}, step : {"list", "attach"},
                           about : Dir, todo : Seq(Dir), dirs : Seq(Dir)]

(* Every monitor that can be looked up by its directory can be looked up   *)
(* in the other table too, under that directory: what unwatch removes from *)
(* one it finds in the other, whatever came in between.                    *)
TablesAgree ==
  \A d \in Dir : monitors_by_file[d] # None => files_by_monitor[monitors_by_file[d]] = d

(* Cancelling is final: a start that was still listing directories does    *)
(* not bring monitors back, and nothing is signalled any more.             *)
CancelIsFinal ==
  /\ [](cancelled => \A m \in Monitor : files_by_monitor[m] = None)
  /\ [][cancelled => UNCHANGED emitted]_vars

(* dzl_recursive_file_monitor_start_async() is answered, also when the     *)
(* monitor is cancelled meanwhile.                                         *)
StartIsAnswered == start = "running" ~> start = "answered"

Quiet ==
  /\ start = "answered" /\ ~cancelled /\ job = NoJob
  /\ \A m \in Monitor : files_by_monitor[m] # None => events[m] = <<>>

(* The directories that are not ignored are watched by the monitors their  *)
(* names lead to, and what was removed is forgotten.                       *)
Watched(names) ==
  \A d \in names :
    LET m == monitors_by_file[d] IN
    IF d \in exists THEN m # None /\ watch[m] = d ELSE m = None

Without(those) == {d \in Dir : ({d} \cup Ancestors[d]) \cap those = {}}

(* "This works by creating a #GFileMonitor for each directory underneath a *)
(* root directory (and recursively beyond that)": once everything queued   *)
(* has been handled there is one.                                          *)
MonitorForEachDirectory == Quiet => Watched(Without(Ignored))

(* There is one for each directory that is neither untold itself nor in    *)
(* one that is: that was, when it was last made, not made too early, and   *)
(* has not been removed between its listing and its watching since.        *)
EveryDirectoryWatched == Quiet => Watched(Without(Ignored \cup untold))
=============================================================================

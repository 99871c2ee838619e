------------------------- MODULE DzlDirectoryModel -------------------------
(***************************************************************************)
(* files/dzl-directory-model.c: the files of a directory as a sorted list  *)
(* model.  A listing arrives in chunks that a thread reads; a GFileMonitor *)
(* tells of files made and deleted meanwhile.  A new file has everything   *)
(* listed again, a deleted one is taken out.                               *)
(*                                                                         *)
(* Files are numbers in the order of compare_directories_first.  Two       *)
(* listings may be under way, the older of them cancelled.                 *)
(***************************************************************************)
EXTENDS ListChanges, FiniteSets, SequencesExt

CONSTANTS
  Directory, File, None,
  MaxChunk,     \* NEXT_FILES_CHUNK_SIZE
  MaxChanges,   \* bound on the changes of files and of what is shown
  Weather,      \* which of "calm" and "rough" the file system may be
  Reentrant     \* whether listeners of items-changed call the setters

VARIABLES
  weather,      \* "calm": no file changes while the directory is listed
  exists,       \* the files of each directory
  changes,
  directory,    \* self->directory, which self->monitor is about, or None
  visible,      \* the files visible_func accepts
  listings,     \* the tasks of reload that have not ended
  events,       \* what self->monitor has not delivered yet
  items,        \* self->items
  seen          \* observed: what a listener made of the items-changed it got

fs   == <<weather, exists>>
vars == <<fs, changes, directory, visible, listings, events, items, seen>>

(* The names a listing has still to look at, and the files it has found.   *)
Listing == [of : Directory, step : {"open", "asked", "answered", "taking"},
            left : SUBSET File, chunk : SUBSET File, cancelled : BOOLEAN]
Opened(d) == [of |-> d, step |-> "open", left |-> {}, chunk |-> {}, cancelled |-> FALSE]

Replace(l, new) == (listings \ {l}) \cup new

(* The main loop is in the loop of next_files_cb. *)
Busy == \E l \in listings : l.step = "taking"

Init ==
  /\ weather \in Weather
  /\ exists \in [Directory -> {{}, File}]
  /\ changes = 0
  /\ directory = None /\ visible = File
  /\ listings = {} /\ events = <<>> /\ items = <<>> /\ seen = <<>>

Change == changes < MaxChanges /\ changes' = changes + 1

-----------------------------------------------------------------------------
(* The file system (external).                                             *)
FileChanges(d, files, event, f) ==
  /\ Change
  /\ weather = "calm" => \A l \in listings : l.cancelled
  /\ exists' = [exists EXCEPT ![d] = files]
  /\ events' = IF d = directory THEN Append(events, [event |-> event, file |-> f]) ELSE events
  /\ UNCHANGED <<weather, directory, visible, listings, items, seen>>

Created(d, f) == f \notin exists[d] /\ FileChanges(d, exists[d] \cup {f}, "CREATED", f)
Deleted(d, f) == f \in exists[d] /\ FileChanges(d, exists[d] \ {f}, "DELETED", f)

-----------------------------------------------------------------------------
(* dzl_directory_model_reload, with _remove_all: the old monitor and the   *)
(* old listing are cancelled.                                              *)
Reload_NotCancelled ==
  /\ listings' = listings \cup (IF directory' = None THEN {} ELSE {Opened(directory')})
  /\ events' = <<>>
  /\ items' = <<>>
  /\ seen' = Told(seen, items', 0, Len(items), 0)
Reload ==
  /\ listings' = {[l EXCEPT !.cancelled = TRUE] : l \in listings} \cup
                 (IF directory' = None THEN {} ELSE {Opened(directory')})
  /\ events' = <<>>
  /\ items' = <<>>
  /\ seen' = Told(seen, items', 0, Len(items), 0)

Callable == Busy => Reentrant

SetDirectory(d) ==
  /\ Change /\ Callable
  /\ d # directory
  /\ directory' = d
  /\ Reload
  /\ UNCHANGED <<fs, visible>>

SetVisibleFunc(files) ==
  /\ Change /\ Callable
  /\ visible' = files
  /\ directory' = directory
  /\ Reload
  /\ UNCHANGED fs

-----------------------------------------------------------------------------
(* dzl_directory_model_enumerate_children_cb: the names are read after it. *)
EnumerateChildrenCb(l) ==
  /\ ~Busy
  /\ l.step = "open"
  /\ listings' = Replace(l, IF l.cancelled THEN {}
                            ELSE {[l EXCEPT !.step = "asked", !.left = exists[l.of]]})
  /\ UNCHANGED <<fs, changes, directory, visible, events, items, seen>>

(* The thread of g_file_enumerator_next_files_async(): it passes names     *)
(* until it has a chunk of files that are there, or no more names.         *)
NextFiles(l) ==
  /\ l.step = "asked"
  /\ \E passed \in SUBSET l.left :
       LET found == passed \cap exists[l.of]
       IN  /\ Cardinality(found) <= MaxChunk
           /\ Cardinality(found) = MaxChunk \/ passed = l.left
           /\ listings' = Replace(l, {[l EXCEPT !.step = "answered", !.left = @ \ passed,
                                                !.chunk = found]})
  /\ UNCHANGED <<fs, changes, directory, visible, events, items, seen>>

(* dzl_directory_model_next_files_cb: a cancelled listing fails, also when *)
(* the files had been read, and one without files has ended.               *)
NextFilesCb(l) ==
  /\ ~Busy
  /\ l.step = "answered"
  /\ listings' = Replace(l, IF l.cancelled \/ l.chunk = {} THEN {}
                            ELSE {[l EXCEPT !.step = "taking"]})
  /\ UNCHANGED <<fs, changes, directory, visible, events, items, seen>>

(* dzl_directory_model_take_item, and the end of the loop around it.       *)
Rank(f) == Cardinality({i \in DOMAIN items : items[i] <= f})

TakeItem(l, f) ==
  /\ l.step = "taking" /\ f \in l.chunk
  /\ listings' = Replace(l, {[l EXCEPT !.chunk = @ \ {f},
                                       !.step = IF l.chunk = {f} THEN "asked" ELSE @]})
  /\ IF f \in visible
     THEN /\ items' = With(items, Rank(f), <<f>>)
          /\ seen' = Told(seen, items', Rank(f), 0, 1)
     ELSE UNCHANGED <<items, seen>>
  /\ UNCHANGED <<fs, changes, directory, visible, events>>

-----------------------------------------------------------------------------
(* dzl_directory_model_directory_changed                                   *)
ChangedCreated ==
  /\ ~Busy
  /\ events # <<>> /\ Head(events).event = "CREATED"
  /\ directory' = directory
  /\ Reload
  /\ UNCHANGED <<fs, changes, visible>>

(* ... and dzl_directory_model_remove_file: the first of that name.        *)
ChangedDeleted ==
  /\ ~Busy
  /\ events # <<>> /\ Head(events).event = "DELETED"
  /\ events' = Tail(events)
  /\ LET f == Head(events).file IN
     IF f \in ToSet(items)
     THEN LET at == SelectInSeq(items, LAMBDA i : i = f) - 1
          IN  /\ items' = Without(items, at, 1)
              /\ seen' = Told(seen, items', at, 1, 0)
     ELSE UNCHANGED <<items, seen>>
  /\ UNCHANGED <<fs, changes, directory, visible, listings>>

Next ==
  \/ \E d \in Directory, f \in File : Created(d, f) \/ Deleted(d, f)
  \/ \E d \in Directory \cup {None} : SetDirectory(d)
  \/ \E files \in SUBSET File : SetVisibleFunc(files)
  \/ \E l \in listings :
       \/ EnumerateChildrenCb(l) \/ NextFiles(l) \/ NextFilesCb(l)
       \/ \E f \in l.chunk : TakeItem(l, f)
  \/ ChangedCreated \/ ChangedDeleted

Spec == Init /\ [][Next]_vars
-----------------------------------------------------------------------------
TypeOK ==
  /\ weather \in Weather
  /\ exists \in [Directory -> SUBSET File]
  /\ changes \in 0..MaxChanges
  /\ directory \in Directory \cup {None} /\ visible \subseteq File
  /\ listings \subseteq Listing
  /\ events \in Seq([event : {"CREATED", "DELETED"}, file : File])
  /\ items \in Seq(File) /\ seen \in Seq(File)

(* At any time the rows are in order, none is there twice, and whoever     *)
(* follows items-changed has the same rows.  When all that was asked for   *)
(* has arrived and all events are handled, each visible file of the        *)
(* directory has a row, whatever happened meanwhile, and in calm weather   *)
(* nothing else has: a deletion told between the reading of a chunk and    *)
(* its arrival finds no row, and the chunk then brings one that stays.     *)
Shown == IF directory = None THEN {} ELSE exists[directory] \cap visible

ShowsDirectory ==
  /\ seen = items
  /\ \A i, j \in DOMAIN items : i < j => items[i] < items[j]
  /\ listings = {} /\ events = <<>> =>
       /\ Shown \subseteq ToSet(items)
       /\ weather = "calm" => ToSet(items) = Shown
=============================================================================

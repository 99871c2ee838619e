-------------------------- MODULE DzlFileTransfer --------------------------
(***************************************************************************)
(* src/files/dzl-file-transfer.c and the part of dzl-directory-reaper.c it *)
(* uses.  A worker thread walks the source of every pair and copies (or    *)
(* moves) what it finds; a move ends with a DzlDirectoryReaper that        *)
(* deletes the sources.  The main thread may cancel at any time, and is    *)
(* then answered at once, while the worker goes on until it notices.       *)
(*                                                                         *)
(* A walk is the set of entries its open directory listings still have to  *)
(* return: parents before children, siblings in any order.  Contents of a  *)
(* file are named by the path it had at first.  Sizes, progress, ages (the *)
(* transfer asks for 0) and the "remove-file" signal are left out.         *)
(***************************************************************************)
EXTENDS Naturals, Sequences

CONSTANTS
  Path,               \* the names a file may have
  Below(_, _),        \* Below(d, p): p is d, or somewhere inside d
  Counterpart(_, _),  \* where below the destination of a pair a path below its source goes
  Pair,               \* the pairs [src, dst] the caller may add
  MaxPairs,           \* bound: how many it adds
  Start,              \* what is at each path at first
  NoFile, Directory, NULL,
  Faults              \* what may fail: "copy", "list", "delete"

VARIABLES
  fs,         \* what is at each path: NoFile, Directory, or the contents of a file
  opers,      \* priv->opers: the pairs to transfer, NULL once stolen
  flags,      \* priv->flags: whether to MOVE
  executed,   \* priv->executed
  task,       \* the pairs the worker works on
  phase,      \* what the worker does: "none", "copy", "removal", "reap", "return" or "done"
  cur,        \* the pair whose source is walked
  pending,    \* the entries the walk still has to return
  error,      \* whether oper->error is set, for the pair that is walked
  pattern,    \* the reaper's pattern of the moment
  skipped,    \* what the reaper gave up, of the directory it empties
  cancelled,  \* the cancellable
  returned,   \* what the worker told the GTask, or NULL
  answer,     \* what the caller was told, or NULL
  unlisted    \* observed: a part of a source could not be listed, and the walk went on

priv == <<opers, flags, executed>>
walk == <<task, cur, pending, error>>
reaper == <<pattern, skipped>>
outcome == <<returned, answer>>
vars == <<fs, priv, walk, phase, reaper, cancelled, outcome, unlisted>>

IsFile(content) == content \notin {NoFile, Directory}
Inside(d, p) == Below(d, p) /\ p # d
Children(d) == {p \in Path : /\ Inside(d, p) /\ fs[p] # NoFile
                             /\ \A q \in Path : Inside(d, q) => ~Inside(q, p)}
IsEmpty(p) == \A q \in Path : Inside(p, q) => fs[q] = NoFile
HasParent(p) == \A q \in Path : Inside(q, p) => fs[q] = Directory

(* What every use of the module has to provide.                            *)
WellFormed ==
  /\ \A p \in Path : Below(p, p)
  /\ \A p, q, r \in Path : Below(p, q) /\ Below(q, r) => Below(p, r)
  /\ \A p, q \in Path : Below(p, q) /\ Below(q, p) => p = q
  /\ \A p, q, r \in Path : Below(p, r) /\ Below(q, r) => Below(p, q) \/ Below(q, p)
  /\ \A d, p \in Path : Inside(d, p) =>
       \E c \in Path : Inside(d, c) /\ Below(c, p) /\ \A q \in Path : Inside(d, q) => ~Inside(q, c)
  /\ \A o \in Pair : /\ o.src \in Path /\ o.dst \in Path
                     /\ \A p \in Path : Below(o.src, p) => /\ Counterpart(o, p) \in Path
                                                           /\ Below(o.dst, Counterpart(o, p))
  /\ NoFile # Directory /\ {NoFile, Directory} \cap Path = {} /\ NULL \notin Seq(Pair) /\ NULL # "true"
  /\ \A p \in Path : Start[p] \in {NoFile, Directory, p}
  /\ \A p, q \in Path : Inside(p, q) /\ Start[q] # NoFile => Start[p] = Directory
  /\ Start \in [Path -> {NoFile, Directory} \cup Path]

Init ==
  /\ fs = Start
  /\ opers = <<>> /\ flags = FALSE /\ executed = FALSE
  /\ task = <<>> /\ cur = 0 /\ pending = {} /\ error = FALSE
  /\ phase = "none" /\ pattern = [oper |-> 1, type |-> "glob"] /\ skipped = {}
  /\ cancelled = FALSE /\ returned = NULL /\ answer = NULL /\ unlisted = FALSE

(* dzl_file_transfer_add; a pair that ends in itself is refused.  After a  *)
(* synchronous execution there is no array, and g_assert (opers) fails:    *)
(* callers are expected not to try.                                        *)
Add(o) ==
  /\ ~executed /\ opers # NULL /\ Len(opers) < MaxPairs
  /\ ~Below(o.src, o.dst)
  /\ opers' = Append(opers, o)
  /\ UNCHANGED <<fs, flags, executed, walk, phase, reaper, cancelled, outcome, unlisted>>

SetFlags ==
  /\ ~executed /\ opers # NULL
  /\ flags' = ~flags
  /\ UNCHANGED <<fs, opers, executed, walk, phase, reaper, cancelled, outcome, unlisted>>

(* Both executions hand the array to a worker.  Only the asynchronous one  *)
(* sets "executed", and it does so even if there is nothing to do.  If it  *)
(* is cancelled already, GTask answers but starts the worker all the same. *)
Execute(async) ==
  /\ ~executed /\ opers # NULL /\ (async \/ opers # <<>>)
  /\ executed' = async
  /\ IF opers = <<>>
     THEN answer' = "error" /\ UNCHANGED <<opers, task, cur, phase>>
     ELSE /\ opers' = NULL /\ task' = opers /\ cur' = 0 /\ phase' = "copy"
          /\ answer' = IF cancelled THEN "cancelled" ELSE answer
  /\ UNCHANGED <<fs, flags, pending, error, reaper, cancelled, returned, unlisted>>

(* g_task_set_return_on_cancel: the caller is answered before the worker   *)
(* ends, whose result is then dropped.                                     *)
Cancel ==
  /\ ~cancelled /\ cancelled' = TRUE
  /\ answer' = IF phase \in {"none", "done"} THEN answer ELSE "cancelled"
  /\ UNCHANGED <<fs, priv, walk, phase, reaper, returned, unlisted>>
----------------------------------------------------------------------------
(* The worker: handle_copy                                                 *)

(* The next pair, or the end of handle_copy: after the last one, after an  *)
(* error, or when cancelled.  A source that cannot be queried is passed    *)
(* over in silence.                                                        *)
NextOper ==
  /\ phase = "copy" /\ pending = {}
  /\ IF error \/ cur = Len(task)
     THEN phase' = "removal" /\ UNCHANGED <<cur, pending, unlisted>>
     ELSE /\ cur' = cur + 1 /\ UNCHANGED phase
          /\ \/ /\ pending' = {p \in {task[cur + 1].src} : fs[p] # NoFile /\ ~cancelled}
                /\ UNCHANGED unlisted
             \/ "list" \in Faults /\ unlisted' = TRUE /\ UNCHANGED pending
  /\ UNCHANGED <<fs, priv, task, error, reaper, cancelled, outcome>>

(* file_walk_full asks before every entry, and handle_copy_cb as well.     *)
Walking == phase = "copy" /\ ~cancelled /\ ~error

WalkEnds ==
  /\ phase = "copy" /\ pending # {} /\ (cancelled \/ error)
  /\ pending' = {}
  /\ UNCHANGED <<fs, priv, task, cur, error, phase, reaper, cancelled, outcome, unlisted>>

(* A file: g_file_copy or g_file_move.  Neither overwrites.  A move to     *)
(* another file system is a copy and a removal, which may fail.            *)
CopyFile(p) ==
  LET dst == Counterpart(task[cur], p)
      possible == fs[dst] = NoFile /\ HasParent(dst) IN
  /\ Walking /\ p \in pending /\ IsFile(fs[p])
  /\ pending' = pending \ {p}
  /\ \/ /\ possible /\ error' = FALSE
        /\ fs' = [fs EXCEPT ![dst] = fs[p], ![p] = IF flags THEN NoFile ELSE @]
     \/ /\ ~possible \/ "copy" \in Faults
        /\ error' = TRUE /\ UNCHANGED fs
     \/ /\ possible /\ flags /\ "copy" \in Faults
        /\ error' = TRUE /\ fs' = [fs EXCEPT ![dst] = fs[p]]
  /\ UNCHANGED <<priv, task, cur, phase, reaper, cancelled, outcome, unlisted>>

(* A directory: g_file_make_directory_with_parents, then its listing.  An  *)
(* enumerator that cannot be had is not an error.                          *)
CopyDirectory(p) ==
  LET dst == Counterpart(task[cur], p)
      possible == fs[dst] = NoFile /\ \A q \in Path : Below(q, dst) => ~IsFile(fs[q]) IN
  /\ Walking /\ p \in pending /\ fs[p] = Directory
  /\ \/ /\ possible /\ error' = FALSE
        /\ fs' = [q \in Path |-> IF Below(q, dst) /\ fs[q] = NoFile THEN Directory ELSE fs[q]]
     \/ /\ ~possible \/ "copy" \in Faults
        /\ error' = TRUE /\ UNCHANGED fs
  /\ \/ pending' = (pending \ {p}) \cup Children(p) /\ UNCHANGED unlisted
     \/ "list" \in Faults /\ pending' = pending \ {p} /\ unlisted' = TRUE
  /\ UNCHANGED <<priv, task, cur, phase, reaper, cancelled, outcome>>
----------------------------------------------------------------------------
(* handle_removal and the reaper                                           *)

(* Two patterns for each pair: what is in its source, if that is a         *)
(* directory, and the source itself.                                       *)
Source == task[pattern.oper].src
PatternAfter == IF pattern.type = "glob" THEN [pattern EXCEPT !.type = "file"]
                ELSE [oper |-> pattern.oper + 1, type |-> "glob"]
Reaping == phase = "reap" /\ pattern.oper <= Len(task)

HandleRemoval_Anyway ==
  /\ phase = "removal"
  /\ IF flags /\ ~cancelled THEN phase' = "reap" ELSE phase' = "return"
  /\ UNCHANGED <<fs, priv, walk, reaper, cancelled, outcome, unlisted>>

(* "Don't delete anything if there was a failure"                          *)
HandleRemoval ==
  /\ phase = "removal"
  /\ IF flags /\ ~cancelled /\ ~error
     THEN phase' = "reap"
     ELSE phase' = "return"
  /\ UNCHANGED <<fs, priv, walk, reaper, cancelled, outcome, unlisted>>

(* dzl_directory_reaper_execute_worker empties a directory, each entry     *)
(* after what is in it ...                                                 *)
Victims == {p \in Path : /\ Reaping /\ ~cancelled
                         /\ IF pattern.type = "glob" THEN Inside(Source, p) ELSE p = Source
                         /\ fs[p] # NoFile /\ IsEmpty(p) /\ p \notin skipped}

FileDelete(p) ==
  /\ p \in Victims
  /\ fs' = [fs EXCEPT ![p] = NoFile]
  /\ UNCHANGED <<priv, walk, phase, reaper, cancelled, outcome, unlisted>>

(* ... and gives up the rest of an entry if something in it cannot be      *)
(* deleted.                                                                *)
DeleteFails(p) ==
  /\ "delete" \in Faults /\ p \in Victims
  /\ skipped' = skipped \cup {q \in Path : \E c \in Children(Source) : Below(c, p) /\ Below(c, q)}
                        \cup {p}
  /\ UNCHANGED <<fs, priv, walk, phase, pattern, cancelled, outcome, unlisted>>

PatternDone ==
  /\ Reaping /\ Victims = {}
  /\ pattern' = PatternAfter /\ skipped' = {}
  /\ UNCHANGED <<fs, priv, walk, phase, cancelled, outcome, unlisted>>

ReaperDone ==
  /\ phase = "reap" /\ ~Reaping
  /\ phase' = "return"
  /\ UNCHANGED <<fs, priv, walk, reaper, cancelled, outcome, unlisted>>

WorkerReturns_Always ==
  /\ phase = "return"
  /\ phase' = "done" /\ returned' = "true"
  /\ UNCHANGED <<fs, priv, walk, reaper, cancelled, answer, unlisted>>

(* The end of dzl_file_transfer_worker.                                    *)
WorkerReturns ==
  /\ phase = "return"
  /\ phase' = "done" /\ returned' = IF error THEN "error" ELSE "true"
  /\ UNCHANGED <<fs, priv, walk, reaper, cancelled, answer, unlisted>>

(* dzl_file_transfer_execute_finish: g_task_set_check_cancellable makes an *)
(* error of whatever was returned if the cancellable is cancelled by now.  *)
Finish ==
  /\ phase = "done" /\ answer = NULL
  /\ answer' = IF cancelled THEN "cancelled" ELSE returned
  /\ UNCHANGED <<fs, priv, walk, phase, reaper, cancelled, returned, unlisted>>

Next ==
  \/ \E o \in Pair : Add(o)
  \/ SetFlags \/ Cancel
  \/ \E async \in BOOLEAN : Execute(async)
  \/ NextOper \/ WalkEnds
  \/ \E p \in Path : CopyFile(p) \/ CopyDirectory(p) \/ FileDelete(p) \/ DeleteFails(p)
  \/ HandleRemoval \/ PatternDone \/ ReaperDone \/ WorkerReturns \/ Finish

Spec == Init /\ [][Next]_vars
----------------------------------------------------------------------------
TypeOK ==
  /\ fs \in [Path -> {NoFile, Directory} \cup Path]
  /\ opers \in Seq(Pair) \cup {NULL} /\ task \in Seq(Pair)
  /\ flags \in BOOLEAN /\ executed \in BOOLEAN /\ error \in BOOLEAN
  /\ cancelled \in BOOLEAN /\ unlisted \in BOOLEAN
  /\ phase \in {"none", "copy", "removal", "reap", "return", "done"}
  /\ cur \in 0..Len(task) /\ pending \subseteq Path /\ skipped \subseteq Path
  /\ pattern \in [oper : 1..Len(task) + 1, type : {"glob", "file"}]
  /\ returned \in {NULL, "true", "error"} /\ answer \in {NULL, "true", "error", "cancelled"}

(* No pair's destination lies in a source, or the other way round.         *)
(* dzl_file_transfer_add asks this of each pair, not of two.               *)
Disjoint == \A i, j \in DOMAIN task :
  ~Below(task[i].src, task[j].dst) /\ ~Below(task[j].dst, task[i].src)

(* Whatever fails and whenever the transfer is cancelled, the contents of  *)
(* every file are somewhere: a source is deleted only when all that was in *)
(* it is at its destination.  This needs pairs that do not meet and        *)
(* listings that succeed: the walk does not tell an empty directory from   *)
(* one it could not list.                                                  *)
NothingLost == Disjoint /\ ~unlisted =>
  \A p \in Path : IsFile(Start[p]) => \E q \in Path : fs[q] = Start[p]

(* If no directory failed to be listed, and no pair ends where another     *)
(* begins, a caller that is told TRUE finds every file of every source at  *)
(* a destination.  The worker returns TRUE also when it noticed that it    *)
(* was cancelled, but GTask has answered by then.  Of a listing that       *)
(* failed the walk tells nobody (:311-313): the worker returns TRUE (:656) *)
(* with files missing.                                                     *)
SuccessIsComplete == answer = "true" /\ Disjoint /\ ~unlisted =>
  \A i \in DOMAIN task, p \in Path : Below(task[i].src, p) /\ IsFile(Start[p]) =>
    \E j \in DOMAIN task : Below(task[j].src, p) /\ fs[Counterpart(task[j], p)] = Start[p]

(* "Don't delete anything if there was a failure", the comment in          *)
(* handle_removal: nothing is reaped when a source could not be read.      *)
NothingDeletedAfterFailure ==
  [][phase = "reap" /\ fs' # fs => ~unlisted /\ ~error]_vars
============================================================================

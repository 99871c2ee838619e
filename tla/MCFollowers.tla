---------------------------- MODULE MCFollowers ----------------------------
(* Beside the data structures, nine components that keep up with what they *)
(* do not own: signal group, binding group, state machine, filter, joined  *)
(* menu, directory model, merged menus, tree and dock.  No two of them     *)
(* share an object here, so a behaviour is one of one of them, `which',    *)
(* and the others rest in their initial states.                            *)
EXTENDS MCStructures, DzlSignalGroup, TLC

CONSTANTS
  Source, Target, Slot,
  State, MaxEntries,
  Item, NoChange, MaxAdded,
  Menu, MenuItem, MaxItems,
  MaxMerges, TreeRoot, Dummy, Center

VARIABLES
  source, lazy_bindings, lazy_target, binding, bound, watched, dying, connecting, refuted,
  state, entries, sourced, valued, shown, late, overtaken, transitions,
  child, child_seq, filter_seq, visible, change, seen,
  items, menus, read,
  sky, files, edits, directory, listed, listings, reports, rows, told,
  after, before, models, last_merge_id, merges,
  always_expand, top, builders, nodes, wanted,
  realized, edges, page, panels, queued_focus, queued_handler, pause_count, grab, own

BG == INSTANCE DzlBindingGroup
  WITH target <- lazy_target, calls <- connecting, failed <- refuted, Reentrant <- {}
SM == INSTANCE DzlStateMachine WITH calls <- transitions, value <- valued, MaxDepth <- 2
LF == INSTANCE DzlListModelFilter WITH Idle <- NoChange
JM == INSTANCE DzlJoinedMenu WITH seen <- read, Item <- MenuItem

(* Two directories of two files, read one by one                           *)
DM == INSTANCE DzlDirectoryModel
  WITH Directory <- {"here", "there"}, File <- {1, 2}, MaxChunk <- 1, MaxChanges <- 3,
       Weather <- {"calm", "rough"}, Reentrant <- FALSE,
       weather <- sky, exists <- files, changes <- edits, events <- reports,
       visible <- listed, items <- rows, seen <- told

(* Two plugins, each with items for two menus, two of them in both         *)
MM == INSTANCE DzlMenuManager
  WITH Menu <- {"app", "gear"}, Item <- {"a", "b", "c", "d"},
       File <- {[app |-> <<"a", "b", "d">>, gear |-> <<"b">>],
                [app |-> <<"c", "a">>, gear |-> <<"d", "a">>]}

(* One builder makes a folder below the root and a file in it, the other   *)
(* makes a link in the folder; the application adds a row of its own.      *)
TreeNodes == {"folder", "file", "link", "own"}
Makes == [project |-> [n \in TreeNodes \cup {TreeRoot} |->
                        CASE n = TreeRoot -> <<"folder">>
                          [] n = "folder" -> <<"file">>
                          [] OTHER -> <<>>],
          plugin  |-> [n \in TreeNodes \cup {TreeRoot} |->
                        IF n = "folder" THEN <<"link">> ELSE <<>>]]
TR == INSTANCE DzlTree
  WITH Root <- TreeRoot, Node <- TreeNodes, Spare <- {"own"}, Possible <- {"folder", "file", "own"},
       MaxRows <- 3, Resetting <- {"folder", "file"}, Builder <- {"project", "plugin"},
       root <- top, tree <- nodes

(* Two edges, with two panels in one of them and one in the other          *)
Dock == INSTANCE DzlDock
  WITH Edge <- {"left", "bottom"}, Panel <- {"files", "symbols", "log"},
       EdgeOf <- [files |-> "left", symbols |-> "left", log |-> "bottom"]

ASSUME MCFollowersAssumption ==
  ConstantsType /\ BG!ConstantsType /\ SM!ConstantsType /\ LF!ConstantsType
    /\ Dock!ConstantsType

(* The variables of each component besides the signal group *)
bg == <<source, lazy_bindings, lazy_target, binding, bound, watched, dying, connecting, refuted>>
sm == <<state, entries, sourced, valued, shown, late, overtaken, transitions>>
lf == <<child, child_seq, filter_seq, visible, change, seen>>
jm == <<items, menus, read>>
dm == <<sky, files, edits, directory, listed, listings, reports, rows, told>>
mm == <<after, before, models, last_merge_id, merges>>
tr == <<always_expand, top, builders, nodes, wanted>>
dock == <<realized, edges, page, panels, queued_focus, queued_handler, pause_count, grab, own>>

FollowersInit ==
  /\ which \in Structure \cup {"signals", "bindings", "states", "filter", "menu", "model"}
              \cup {"merges", "tree", "dock"}
  /\ MM!Init /\ (which = "merges" \/ after = before)
  /\ TR!Init /\ (which = "tree" \/ ~always_expand)
  /\ Dock!Init /\ (which = "dock" \/ realized)
  /\ DM!Init /\ (which = "model" \/ (sky = "calm" /\ files = [dir \in {"here", "there"} |-> {}]))
  /\ EachInit /\ Init /\ BG!Init /\ SM!Init /\ LF!Init /\ JM!Init

FollowersNext ==
  \/ /\ (StructuresNext \/ (which \in Structure /\ UNCHANGED <<which, structures>>))
     /\ UNCHANGED <<vars, bg, sm, lf, jm, dm, mm, tr, dock>>
  \/ /\ which = "signals" /\ Next
     /\ UNCHANGED <<which, structures, bg, sm, lf, jm, dm, mm, tr, dock>>
  \/ /\ which = "bindings" /\ BG!Next
     /\ UNCHANGED <<which, structures, vars, sm, lf, jm, dm, mm, tr, dock>>
  \/ /\ which = "states" /\ SM!Next
     /\ UNCHANGED <<which, structures, vars, bg, lf, jm, dm, mm, tr, dock>>
  \/ /\ which = "filter" /\ LF!Next
     /\ UNCHANGED <<which, structures, vars, bg, sm, jm, dm, mm, tr, dock>>
  \/ /\ which = "menu" /\ JM!Next
     /\ UNCHANGED <<which, structures, vars, bg, sm, lf, dm, mm, tr, dock>>
  \/ /\ which = "model" /\ (DM!Next \/ (edits = 3 /\ UNCHANGED dm))
     /\ UNCHANGED <<which, structures, vars, bg, sm, lf, jm, mm, tr, dock>>
  \/ /\ which = "merges" /\ MM!Next
     /\ UNCHANGED <<which, structures, vars, bg, sm, lf, jm, dm, tr, dock>>
  \/ /\ which = "tree" /\ TR!Next
     /\ UNCHANGED <<which, structures, vars, bg, sm, lf, jm, dm, mm, dock>>
  \/ /\ which = "dock" /\ Dock!Next
     /\ UNCHANGED <<which, structures, vars, bg, sm, lf, jm, dm, mm, tr>>

FollowersSpec ==
  FollowersInit /\ [][FollowersNext]_<<which, structures, vars, bg, sm, lf, jm, dm, mm, tr, dock>>
----------------------------------------------------------------------------
(* The properties of a component are asked when it is the one that moves.  *)
(* The variables of every component keep their types.                      *)
FollowersTypeOK ==
  CASE which = "signals" -> TypeOK
    [] which = "bindings" -> BG!TypeOK
    [] which = "states" -> SM!TypeOK
    [] which = "filter" -> LF!TypeOK
    [] which = "menu" -> JM!TypeOK
    [] which = "model" -> DM!TypeOK
    [] which = "merges" -> MM!TypeOK
    [] which = "tree" -> TR!TypeOK
    [] which = "dock" -> Dock!TypeOK
    [] OTHER -> TRUE

(* Between calls each bound property of a binding group has one binding,   *)
(* from the source; the group is notified of the deaths of exactly its     *)
(* source and targets; its assertions hold (dzl-binding-group.c:115, 117). *)
BindingsFollow == which = "bindings" => BG!BindingsFollow

(* What the current state asks for is in force whenever the state machine  *)
(* is not in a transition, and nothing else but what states left behind    *)
(* whose own transition has left them.                                     *)
InForce == which = "states" => SM!InForce

(* "Connects to the @detailed_signal of @source only when the current      *)
(* state of the state machine is @state" (dzl-state-machine.c:715).        *)
OnlyWhenCurrent == which = "states" => SM!OnlyWhenCurrent

(* A filter shows the items its function accepts, in the child's order;    *)
(* its items-changed describe its items at each emission, and those of a   *)
(* joined menu describe the joined menus one by one.  A directory model    *)
(* shows the directory once everything has arrived.                        *)
ListsTellTheTruth ==
  /\ which = "filter" => LF!ShowsTheVisible /\ LF!ToldTheTruth
  /\ which = "menu" => JM!ToldInPlace
  /\ which = "model" => DM!ShowsDirectory

(* Merged menus have the items of the merges in force, and no others, and  *)
(* each is where it asks to be.                                            *)
ShowsTheMerged == which = "merges" => MM!ShowsTheMerged /\ MM!InPlace

(* A row that is built has the children its builders made, each once; the  *)
(* user never sees a dummy child, and a row whose children are yet to be   *)
(* built has one, so that it can be expanded.                              *)
ShowsWhatWasBuilt ==
  which = "tree" => TR!ShowsWhatWasBuilt /\ TR!NoDummyShown /\ TR!CanBeExpanded

(* An edge of the dock that does not move is as it was last asked to be.   *)
Settled == which = "dock" => Dock!Settled

(* What a grab opened is closed when the focus goes, and nothing else is.  *)
FollowsFocus == Dock!FollowsFocus
============================================================================

----------------------------- MODULE MCRequests -----------------------------
(* Three components that do what they are asked to, side by side: keyboard *)
(* shortcuts, the task cache and file transfers.  They share nothing, so a *)
(* behaviour is one of one of them, `which', and the others rest.          *)
EXTENDS DzlTaskCache, SequencesExt

CONSTANTS
  Component,     \* which of them may move
  None, NoMatch, Partial, Eaten,
  NoFile, Directory, NULL, Faults

VARIABLES
  which,
  attached, alive, unusable, focus, commands, context_name, root, descendants, current_chord,
  contexts, chord_of, chain_phase, theme, disabled, ran,
  fs, opers, flags, executed, transfer, phase, cur, pending, error, pattern, skipped, stopped,
  returned, response, unlisted

(* A window with a pane and an entry in the pane; commands for each phase, *)
(* one bound in a key theme, an action overridden in a theme.              *)
Commands == {"search", "save", "close", "menu"}
SC == INSTANCE DzlShortcutManager
  WITH Widget <- {"window", "pane", "entry"}, Window <- "window",
       Parent <- [pane |-> "window", entry |-> "pane"],
       Type <- [w \in {"window", "pane", "entry"} |-> w],    \* a class for each
       Key <- {"x", "y"}, MaxChord <- 4,
       Command <- Commands, Action <- {"menu"},
       Accel <- [search |-> <<"x">>, save |-> <<"y", "x">>, close |-> <<"y", "y">>, menu |-> <<>>],
       Phase <- [search |-> {"global"}, save |-> {"capture", "global"}, close |-> {"bubble"},
                 menu |-> {}],
       Registers <- {<<"entry", "search">>, <<"entry", "close">>, <<"pane", "save">>},
       Theme <- {"default", "emacs", "internal"}, Internal <- "internal",
       ParentName <- [default |-> "internal", emacs |-> "default"],
       KeyTheme <- {[theme |-> "default", name |-> "vim", phase |-> {"capture"},
                     chord |-> <<"x">>, command |-> "save"]},
       Overrides <- {<<"default", "menu", {"bubble", "global"}>>}, Chord <- {<<"y", "y">>},
       Removes <- {<<"entry", "search">>}, Named <- {<<"entry", "vim">>},
       Hideable <- {"pane"}, Failing <- {"save"}

(* A directory with a file and a directory with a file, and two files; a   *)
(* path is the sequence of its names.  The last of the pairs ends where    *)
(* the second begins.                                                      *)
Tree(top) == {<<top>>, <<top, "f">>, <<top, "d">>, <<top, "d", "g">>}
Paths == Tree("a") \cup Tree("x") \cup {<<"b">>, <<"c">>, <<"y">>}
IsBelow(dir, p) == IsPrefix(dir, p)
Moved(o, p) == o.dst \o SubSeq(p, Len(o.src) + 1, Len(p))
FT == INSTANCE DzlFileTransfer
  WITH Path <- Paths, Below <- IsBelow, Counterpart <- Moved, MaxPairs <- 2,
       Pair <- {[src |-> <<"a">>, dst |-> <<"x">>], [src |-> <<"b">>, dst |-> <<"y">>],
                [src |-> <<"c">>, dst |-> <<"b">>]},
       Start <- [p \in Paths |-> CASE p \in {<<"a">>, <<"a", "d">>} -> Directory
                                  [] p \in {<<"a", "f">>, <<"a", "d", "g">>, <<"b">>, <<"c">>} -> p
                                  [] OTHER -> NoFile],
       task <- transfer, cancelled <- stopped, answer <- response

ASSUME MCRequestsAssumption == SC!ConstantsType /\ FT!WellFormed

(* Keys, tasks and cancellables are interchangeable.                       *)
Symmetry == Permutations(Key) \cup Permutations(Task) \cup Permutations(Cancellable)

(* The variables of each component besides the cache *)
sc == <<attached, alive, unusable, focus, commands, context_name, root, descendants,
        current_chord, contexts, chord_of, chain_phase, theme, disabled, ran>>
ft == <<fs, opers, flags, executed, transfer, phase, cur, pending, error, pattern, skipped,
        stopped, returned, response, unlisted>>

RequestsInit ==
  /\ which \in Component
  /\ SC!Init /\ (which = "shortcuts" \/ theme = "default")
  /\ Init /\ (which = "cache" \/ \A t, u \in Task : key[t] = key[u])
  /\ FT!Init

RequestsNext ==
  \/ /\ which = "shortcuts" /\ SC!Next
     /\ UNCHANGED <<which, vars, ft>>
  \/ /\ which = "cache" /\ Next
     /\ UNCHANGED <<which, sc, ft>>
  \/ /\ which = "transfer" /\ FT!Next
     /\ UNCHANGED <<which, sc, vars>>

RequestsSpec == RequestsInit /\ [][RequestsNext]_<<which, sc, vars, ft>>
-----------------------------------------------------------------------------
(* The variables of the component that moves keep their types.             *)
RequestsTypeOK ==
  CASE which = "shortcuts" -> SC!TypeOK
    [] which = "cache" -> TypeOK
    [] which = "transfer" -> FT!TypeOK

(* The controllers of a window's widgets are those its root refers to.     *)
DescendantsAgree == which = "shortcuts" => SC!DescendantsAgree

(* A key press that completes an unambiguous chord runs the first of the   *)
(* commands bound to it, in the documented order of phases and widgets.    *)
FirstInOrderRuns == SC!FirstInOrderRuns

(* Whatever fails but a listing, and whenever a transfer is cancelled, the *)
(* contents of every file are somewhere, if no pair ends where another     *)
(* begins.                                                                 *)
NothingLost == FT!NothingLost

(* A caller that is told TRUE finds every file of every source at a        *)
(* destination, under the same two conditions: no listing failed, and no   *)
(* pair ends where another begins.                                         *)
SuccessIsComplete == FT!SuccessIsComplete

(* "Don't delete anything if there was a failure"                          *)
(* (dzl-file-transfer.c:578): nothing is reaped when a source could not be *)
(* read.                                                                   *)
NothingDeletedAfterFailure == FT!NothingDeletedAfterFailure
=============================================================================

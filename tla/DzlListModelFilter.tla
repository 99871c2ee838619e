------------------------ MODULE DzlListModelFilter ------------------------
(***************************************************************************)
(* util/dzl-list-model-filter.c: the visible items of a child list model,  *)
(* as a list model.  Two sequences whose elements refer to one another     *)
(* mirror the child and its visible items; here an element is its item, as *)
(* no item is in the child twice.                                          *)
(*                                                                         *)
(* The child reports a change when it has happened.  The handler removes   *)
(* first and tells its own listeners, then adds and tells them again:      *)
(* `change' is what it has still to do.                                    *)
(***************************************************************************)
EXTENDS ListChanges, SequencesExt

CONSTANTS
  Item,
  MaxAdded,   \* bound on the items added by one change
  Idle        \* no change of the child is being handled

VARIABLES
  child,       \* the items of priv->child_model
  child_seq,   \* priv->child_seq
  filter_seq,  \* priv->filter_seq
  visible,     \* the items priv->filter_func accepts
  change,      \* the items-changed of the child that is being handled, or Idle
  seen         \* observed: what a listener made of the items-changed it got

vars == <<child, child_seq, filter_seq, visible, change, seen>>

Changes == [position : Nat, removed : Nat, added : Nat]
ConstantsType == Idle \notin Changes

Init ==
  /\ child = <<>> /\ child_seq = <<>> /\ filter_seq = <<>> /\ seen = <<>>
  /\ visible = Item
  /\ change = Idle

In(items, S) == FlattenSeq([i \in DOMAIN items |-> IF items[i] \in S THEN <<items[i]>> ELSE <<>>])
Position(s, i) == CHOOSE p \in 0..(Len(s) - 1) : s[p + 1] = i

(* Items of the child are replaced by others that were not in it.          *)
Splice(position, removed, added) ==
  /\ change = Idle
  /\ position + removed <= Len(child) /\ (removed > 0 \/ added # <<>>)
  /\ ToSet(added) \cap ToSet(child) = {}
  /\ child' = With(Without(child, position, removed), position, added)
  /\ change' = [position |-> position, removed |-> removed, added |-> Len(added)]
  /\ UNCHANGED <<child_seq, filter_seq, visible, seen>>

(* dzl_list_model_filter_child_model_items_changed: each removed element   *)
(* removes itself from filter_seq.  The first position is that of the      *)
(* first visible one.                                                      *)
ItemsRemoved ==
  /\ change # Idle /\ change.removed > 0
  /\ LET gone == SubSeq(child_seq, change.position + 1, change.position + change.removed)
         told == In(gone, ToSet(filter_seq))
     IN  /\ child_seq' = Without(child_seq, change.position, change.removed)
         /\ filter_seq' = In(filter_seq, Item \ ToSet(gone))
         /\ seen' = IF told = <<>> THEN seen
                    ELSE Told(seen, filter_seq', Position(filter_seq, Head(told)), Len(told), 0)
  /\ change' = [change EXCEPT !.removed = 0]
  /\ UNCHANGED <<child, visible>>

(* find_next_visible_filter_iter, as a position in filter_seq: that of the *)
(* first visible element from a position of child_seq on, or the end.      *)
NextVisible(position) ==
  LET next == In(SubSeq(child_seq, position + 1, Len(child_seq)), ToSet(filter_seq))
  IN  IF next = <<>> THEN Len(filter_seq) ELSE Position(filter_seq, Head(next))

ItemsAdded ==
  /\ change # Idle /\ change.removed = 0
  /\ LET new == SubSeq(child, change.position + 1, change.position + change.added)
         shown == In(new, visible)
         at == NextVisible(change.position)
     IN  /\ child_seq' = With(child_seq, change.position, new)
         /\ filter_seq' = With(filter_seq, at, shown)
         /\ seen' = Told(seen, filter_seq', at, 0, Len(shown))
  /\ change' = Idle
  /\ UNCHANGED <<child, visible>>

(* dzl_list_model_filter_set_filter_func, with _invalidate: everything is  *)
(* rebuilt, and told as one change.                                        *)
SetFilterFunc(accepted) ==
  /\ change = Idle
  /\ visible' = accepted
  /\ child_seq' = child
  /\ filter_seq' = In(child, accepted)
  /\ seen' = Told(seen, filter_seq', 0, Len(filter_seq), Len(filter_seq'))
  /\ UNCHANGED <<child, change>>

Lists == {s \in UNION {[1..n -> Item] : n \in 0..MaxAdded} : IsInjective(s)}

Next ==
  \/ \E position \in 0..Len(child), removed \in 0..Len(child), added \in Lists :
       Splice(position, removed, added)
  \/ ItemsRemoved \/ ItemsAdded
  \/ \E accepted \in SUBSET Item : SetFilterFunc(accepted)

Spec == Init /\ [][Next]_vars
-----------------------------------------------------------------------------
TypeOK ==
  /\ child \in Seq(Item) /\ child_seq \in Seq(Item)
  /\ filter_seq \in Seq(Item) /\ seen \in Seq(Item)
  /\ visible \subseteq Item
  /\ change \in Changes \cup {Idle}

(* When a change of the child has been handled, the filter has the items   *)
(* of the child the function accepts, in the child's order.                *)
ShowsTheVisible == change = Idle => child_seq = child /\ filter_seq = In(child, visible)

(* Whoever keeps a copy by items-changed alone has the filter's items at   *)
(* each emission, also half way through a change of the child.             *)
ToldTheTruth == seen = filter_seq
=============================================================================

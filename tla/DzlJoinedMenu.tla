--------------------------- MODULE DzlJoinedMenu ---------------------------
(* menus/dzl-joined-menu.c: several menus, one after the other, as one.    *)
(* No menu is joined twice: only its first place would be found.           *)
EXTENDS ListChanges, SequencesExt

CONSTANTS
  Menu,
  Item,
  MaxItems   \* bound on the items of a menu

VARIABLES
  items,  \* the items of each menu
  menus,  \* self->menus
  seen    \* observed: what a listener made of the items-changed it got

vars == <<items, menus, seen>>

Init ==
  /\ items = [m \in Menu |-> <<>>]
  /\ menus = <<>> /\ seen = <<>>

Joined(all, of) == FlattenSeq([i \in DOMAIN all |-> of[all[i]]])

(* dzl_joined_menu_get_offset_at_index, and _at_model for what is joined   *)
OffsetAt(index) == Len(Joined(SubSeq(menus, 1, index), items))
IndexOf(m) == CHOOSE i \in 0..(Len(menus) - 1) : menus[i + 1] = m

(* dzl_joined_menu_insert, by append_menu or prepend_menu                  *)
Insert(m, index) ==
  /\ index \in {0, Len(menus)} /\ m \notin ToSet(menus)
  /\ menus' = With(menus, index, <<m>>)
  /\ seen' = Told(seen, Joined(menus', items), OffsetAt(index), 0, Len(items[m]))
  /\ UNCHANGED items

(* dzl_joined_menu_remove_index, and _remove_menu                          *)
RemoveIndex(index) ==
  /\ index < Len(menus)
  /\ menus' = Without(menus, index, 1)
  /\ seen' = Told(seen, <<>>, OffsetAt(index), Len(items[menus[index + 1]]), 0)
  /\ UNCHANGED items

(* A menu changes, and dzl_joined_menu_on_items_changed passes it on: the  *)
(* handler is connected while the menu is joined.                          *)
ItemsChanged(m, position, removed, added) ==
  /\ position + removed <= Len(items[m]) /\ (removed > 0 \/ added # <<>>)
  /\ Len(items[m]) - removed + Len(added) <= MaxItems
  /\ items' = [items EXCEPT ![m] = With(Without(@, position, removed), position, added)]
  /\ seen' = IF m \notin ToSet(menus) THEN seen
             ELSE Told(seen, Joined(menus, items'), OffsetAt(IndexOf(m)) + position, removed, Len(added))
  /\ UNCHANGED menus

Next ==
  \/ \E m \in Menu, index \in 0..Len(menus) : Insert(m, index)
  \/ \E index \in 0..(Len(menus) - 1) : RemoveIndex(index)
  \/ \E m \in Menu, position \in 0..MaxItems, removed \in 0..MaxItems,
       added \in UNION {[1..n -> Item] : n \in 0..MaxItems} :
       ItemsChanged(m, position, removed, added)

Spec == Init /\ [][Next]_vars
-----------------------------------------------------------------------------
TypeOK ==
  /\ items \in [Menu -> Seq(Item)]
  /\ menus \in Seq(Menu)
  /\ seen \in Seq(Item)

(* Whoever keeps a copy by items-changed alone has the items of the joined *)
(* menus, in their order, whichever of them changes, comes or goes.        *)
ToldInPlace == seen = Joined(menus, items)
=============================================================================

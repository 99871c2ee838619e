--------------------------- MODULE DzlMenuManager ---------------------------
(***************************************************************************)
(* menus/dzl-menu-manager.c: menus that plugins add items to and take      *)
(* their items from again.  An item is known by its label, or by the menu  *)
(* it links to, and says by "after" or "before" where it wants to be; a    *)
(* row of a menu is an item with the merge it came by.                     *)
(*                                                                         *)
(* An item asks for one place, and no items ask in a circle: two passes do *)
(* not always find room for an item between two others, and items that     *)
(* want to be after each other are moved for ever.                         *)
(***************************************************************************)
EXTENDS ListChanges, SequencesExt

CONSTANTS
  Menu,      \* the identifiers
  Item,
  None,
  File,      \* what may be merged: an item sequence for each menu
  MaxMerges  \* bound on last_merge_id

VARIABLES
  after, before,  \* the attributes of each item
  models,         \* self->models, a menu that is not there yet being empty
  last_merge_id,
  merges          \* observed: what each merge asked for, and whether it was removed

vars == <<after, before, models, last_merge_id, merges>>

(* The pairs of items of which the first is to come first                  *)
Wanted ==
  {<<after[i], i>> : i \in {i \in Item : after[i] # None}} \cup
  {<<i, before[i]>> : i \in {i \in Item : before[i] # None}}
Satisfiable ==
  {S \in SUBSET Item : \A i \in S : \E h \in S : <<h, i>> \in Wanted} = {{}}

Init ==
  /\ after \in [Item -> Item \cup {None}]
  /\ \E places \in [{i \in Item : after[i] = None} -> Item \cup {None}] :
       before = [i \in Item |-> IF after[i] = None THEN places[i] ELSE None]
  /\ Satisfiable
  /\ models = [m \in Menu |-> <<>>]
  /\ last_merge_id = 0
  /\ merges = <<>>

(* menu_move_item_to *)
MoveItemTo(menu, i, j) == InsertAt(RemoveAt(menu, i), j, menu[i])

(* The two loops of dzl_menu_manager_resolve_constraints                   *)
RECURSIVE AfterFrom(_, _), BeforeFrom(_, _)
AfterFrom(menu, i) ==
  LET J == {j \in i + 1 .. Len(menu) : menu[j].item = after[menu[i].item]}
  IN  IF i > Len(menu) THEN menu
      ELSE IF J = {} THEN AfterFrom(menu, i + 1)
      ELSE AfterFrom(MoveItemTo(menu, i, Max(J)), i)
BeforeFrom(menu, i) ==
  LET J == {j \in 1 .. i - 1 : menu[j].item = before[menu[i].item]}
  IN  IF i = 0 THEN menu
      ELSE IF J = {} THEN BeforeFrom(menu, i - 1)
      ELSE BeforeFrom(MoveItemTo(menu, i, Min(J)), i)
ResolveConstraints(menu) == BeforeFrom(AfterFrom(menu, 1), Len(menu))

(* dzl_menu_manager_add_to_menu *)
AddToMenu(menu, row) == ResolveConstraints(ResolveConstraints(Append(menu, row)))

(* dzl_menu_manager_merge_model *)
MenuContains(menu, item) == \E i \in DOMAIN menu : menu[i].item = item
MergeModel(menu, model, merge_id) ==
  FoldLeft(LAMBDA s, item : IF MenuContains(s, item) THEN s
                            ELSE AddToMenu(s, [item |-> item, merge_id |-> merge_id]),
           menu, model)

(* dzl_menu_manager_merge, and _add_filename and _add_resource             *)
Merge(file) ==
  /\ last_merge_id < MaxMerges
  /\ last_merge_id' = last_merge_id + 1
  /\ models' = [m \in Menu |-> MergeModel(models[m], file[m], last_merge_id')]
  /\ merges' = Append(merges, [file |-> file, removed |-> FALSE])
  /\ UNCHANGED <<after, before>>

(* dzl_menu_manager_remove *)
RemoveMerge_Forwards(merge_id) ==
  LET Stays(menu) == {i \in DOMAIN menu : \/ menu[i].merge_id # merge_id
                                          \/ i > 1 /\ menu[i - 1].merge_id = merge_id}
      Kept(menu) == FoldLeftDomain(LAMBDA s, i : IF i \in Stays(menu) THEN Append(s, menu[i]) ELSE s,
                                   <<>>, menu)
  IN  /\ models' = [m \in Menu |-> Kept(models[m])]
      /\ merges' = [merges EXCEPT ![merge_id].removed = TRUE]
      /\ UNCHANGED <<after, before, last_merge_id>>
RemoveMerge(merge_id) ==
  /\ models' = [m \in Menu |-> SelectSeq(models[m], LAMBDA row : row.merge_id # merge_id)]
  /\ merges' = [merges EXCEPT ![merge_id].removed = TRUE]
  /\ UNCHANGED <<after, before, last_merge_id>>

Next ==
  \/ \E file \in File : Merge(file)
  \/ \E merge_id \in 1..last_merge_id : RemoveMerge(merge_id)

Spec == Init /\ [][Next]_vars
-----------------------------------------------------------------------------
TypeOK ==
  /\ after \in [Item -> Item \cup {None}] /\ before \in [Item -> Item \cup {None}]
  /\ models \in [Menu -> Seq([item : Item, merge_id : 1..last_merge_id])]
  /\ last_merge_id = Len(merges)

(* Every item is where it asks to be, whatever was merged and removed in   *)
(* what order: two passes after each append are enough.                    *)
InPlace ==
  \A m \in Menu : \A i, j \in DOMAIN models[m] :
    <<models[m][i].item, models[m][j].item>> \in Wanted => i < j

(* A menu has each item once, by a merge that asked for it and has not     *)
(* been removed.  What a merge asked for is missing only if an earlier one *)
(* that asked for it too has been removed.                                 *)
Asks(merge_id, m) == ToSet(merges[merge_id].file[m])
ShowsTheMerged ==
  \A m \in Menu :
    /\ \A i \in DOMAIN models[m] :
         LET row == models[m][i]
         IN  /\ row.item \in Asks(row.merge_id, m) /\ ~merges[row.merge_id].removed
             /\ \A j \in DOMAIN models[m] : models[m][j].item = row.item => i = j
    /\ \A merge_id \in DOMAIN merges : \A item \in Asks(merge_id, m) :
         \/ merges[merge_id].removed \/ MenuContains(models[m], item)
         \/ \E earlier \in 1 .. merge_id - 1 : merges[earlier].removed /\ item \in Asks(earlier, m)
=============================================================================

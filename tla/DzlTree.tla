------------------------------ MODULE DzlTree ------------------------------
(***************************************************************************)
(* tree/: rows that are made by builders when they are first shown.  A     *)
(* node whose children are yet to be built has a dummy child if it may     *)
(* have any, so that the view lets the user expand it.                     *)
(*                                                                         *)
(* A builder's "build-children" appends the nodes of Makes, "build-node"   *)
(* leaves them as they are.  A node that is built again is a new one by    *)
(* the same name.  Builders come before the root, as in the tests: a later *)
(* one is only told of the first row and what is below.                    *)
(*                                                                         *)
(* Left to the caller, who must not: invalidate the root, which keeps its  *)
(* rows and appends them again; insert() into the root, which does         *)
(* nothing; add to a node that is not built, which loses what is added;    *)
(* rebuild() a node that was built without children, which gives it a      *)
(* dummy that stays.                                                       *)
(***************************************************************************)
EXTENDS ListChanges, SequencesExt

CONSTANTS
  Node,          \* all but the root
  Root,
  None,
  Dummy,
  Builder,
  Makes,         \* what each builder appends to each node
  Spare,         \* the nodes the application adds, not made by a builder
  Possible,      \* the nodes whose maker sets children-possible
  Resetting,     \* the nodes whose maker sets reset-on-collapse
  MaxRows        \* bound on the rows, dummies too, below a node that is given one more

VARIABLES
  always_expand, \* set when the tree is made
  root,      \* priv->root
  builders,  \* priv->builders
  tree,      \* the store, and what of its nodes and view goes with it
  wanted     \* observed: what was built and added under each node, less what was removed

vars == <<always_expand, root, builders, tree, wanted>>

Nodes == Node \cup {Root}
NoTree ==
  [rows     |-> [n \in Nodes |-> <<>>],  \* the children of each node in priv->store
   unbuilt  |-> Nodes,                   \* needs_build_children
   possible |-> Possible,                \* children_possible
   expanded |-> {}]                      \* the rows GtkTreeView shows the children of

Init ==
  /\ always_expand \in BOOLEAN
  /\ root = None
  /\ builders = <<>>
  /\ tree = NoTree
  /\ wanted = [n \in Nodes |-> <<>>]

RECURSIVE Subtree(_, _)
Subtree(t, n) == {n} \cup UNION {Subtree(t, c) : c \in ToSet(t.rows[n]) \ {Dummy}}
InTree == IF root = None THEN {} ELSE Subtree(tree, Root)
ParentOf(t, n) == CHOOSE p \in Nodes : n \in ToSet(t.rows[p])
Built == InTree \ tree.unbuilt

(* gtk_tree_store_remove() of all children.  A row without children is not *)
(* expanded any more; the nodes below are gone.                            *)
RemoveChildren(t, n) ==
  LET gone == Subtree(t, n) \ {n}
  IN  [rows     |-> [m \in Nodes |-> IF m \in gone \cup {n} THEN <<>> ELSE t.rows[m]],
       unbuilt  |-> t.unbuilt \cup gone,
       possible |-> (t.possible \ gone) \cup (Possible \cap gone),
       expanded |-> t.expanded \ (gone \cup {n})]

(* gtk_tree_view_expand_row(): of a visible row with children.             *)
Visible(t, n) ==
  \A m \in Node : m # n /\ n \in Subtree(t, m) => m \in t.expanded
ExpandRow(t, n) ==
  IF t.rows[n] # <<>> /\ Visible(t, n) THEN [t EXCEPT !.expanded = @ \cup {n}] ELSE t
(* gtk_tree_view_expand_to_path()                                          *)
ExpandToPath(t, n) ==
  [t EXCEPT !.expanded = @ \cup {m \in Node : t.rows[m] # <<>> /\ n \in Subtree(t, m)}]

(* _dzl_tree_node_add_dummy_child, and _remove_dummy_child, which takes    *)
(* all children                                                            *)
AddDummy(t, n) == [t EXCEPT !.rows[n] = Append(@, Dummy)]
RemoveDummy(t, n) == IF n = Root THEN t ELSE RemoveChildren(t, n)

(* _dzl_tree_build_node; n_children is 0 of a node that is not built.      *)
BuildNode(t, n) ==
  IF ~always_expand /\ n \in t.possible /\ (n \in t.unbuilt \/ t.rows[n] = <<>>)
  THEN AddDummy(t, n) ELSE t

WithDummy(t, n) == IF n \in t.possible THEN AddDummy(t, n) ELSE t

(* What the builders append to a node, in their order                      *)
Appended(n) == FlattenSeq([i \in DOMAIN builders |-> Makes[builders[i]][n]])

(* dzl_tree_add, and _dzl_tree_build_children which calls it for what the  *)
(* builders append: at is the position of the new row.                     *)
RECURSIVE Add(_, _, _, _), BuildChildren(_, _)
Add(t, n, c, at) ==
  LET put == [t EXCEPT !.rows[n] = With(@, at, <<c>>), !.rows[c] = <<>>]
      noded == WithDummy(BuildNode(put, c), c)
  IN  IF always_expand
      THEN LET built == BuildChildren(noded, c) IN ExpandToPath(ExpandRow(built, c), c)
      ELSE IF n = Root THEN BuildChildren(noded, c) ELSE noded
BuildChildren(t, n) ==
  FoldLeft(LAMBDA u, c : Add(u, n, c, Len(u.rows[n])),
           RemoveDummy([t EXCEPT !.unbuilt = @ \ {n}], n), Appended(n))

(* What is wanted of the tree t, some nodes of which have been built now   *)
Wants(t, built) ==
  LET there == Subtree(t, Root) \ t.unbuilt
  IN  wanted' = [n \in Nodes |-> CASE n \notin there -> <<>>
                                   [] n \in there \cap built -> Appended(n)
                                   [] OTHER -> wanted[n]]
-----------------------------------------------------------------------------
(* dzl_tree_add_builder *)
AddBuilder(b) ==
  /\ root = None /\ b \notin ToSet(builders)
  /\ builders' = Append(builders, b)
  /\ UNCHANGED <<always_expand, root, tree, wanted>>

(* dzl_tree_remove_builder *)
RemoveBuilder(b) ==
  /\ b \in ToSet(builders)
  /\ builders' = SelectSeq(builders, LAMBDA c : c # b)
  /\ UNCHANGED <<always_expand, root, tree, wanted>>

(* dzl_tree_set_root *)
SetRoot(r) ==
  /\ root # r
  /\ root' = r
  /\ tree' = IF r = None THEN NoTree ELSE BuildChildren(NoTree, r)
  /\ Wants(tree', Nodes)
  /\ UNCHANGED <<always_expand, builders>>

(* dzl_tree_rebuild *)
Rebuild_NotCleared ==
  /\ root # None
  /\ tree' = BuildChildren(tree, Root)
  /\ Wants(tree', Nodes)
  /\ UNCHANGED <<always_expand, root, builders>>
Rebuild ==
  /\ root # None
  /\ tree' = BuildChildren(RemoveChildren(tree, Root), Root)
  /\ Wants(tree', Nodes)
  /\ UNCHANGED <<always_expand, root, builders>>

(* dzl_tree_row_expanded, which expands what it has built once more        *)
RowExpanded(t, n) == IF n \in t.unbuilt THEN ExpandRow(BuildChildren(t, n), n) ELSE t

Expand(n) ==
  /\ n \notin tree.expanded
  /\ n \in ExpandRow(tree, n).expanded
  /\ tree' = RowExpanded(ExpandRow(tree, n), n)
  /\ Wants(tree', IF n \in tree.unbuilt THEN Subtree(tree', n) ELSE {})
  /\ UNCHANGED <<always_expand, root, builders>>

(* dzl_tree_row_collapsed *)
Collapse(n) ==
  /\ n \in tree.expanded /\ Visible(tree, n)
  /\ LET t == [tree EXCEPT !.expanded = @ \ Subtree(tree, n)]
     IN  tree' = IF n \notin Resetting THEN t
                 ELSE [AddDummy(RemoveChildren(t, n), n) EXCEPT !.unbuilt = @ \cup {n}]
  /\ Wants(tree', {})
  /\ UNCHANGED <<always_expand, root, builders>>

(* _dzl_tree_invalidate *)
Invalidate(n) ==
  /\ LET p == ParentOf(tree, n)
         t == BuildNode([RemoveChildren(tree, n) EXCEPT !.unbuilt = @ \cup {n}], n)
     IN  tree' = IF p = Root \/ p \in tree.expanded THEN BuildChildren(t, n) ELSE t
  /\ Wants(tree', Subtree(tree', n))
  /\ UNCHANGED <<always_expand, root, builders>>

(* dzl_tree_node_rebuild *)
NodeRebuild(n) ==
  /\ n \in tree.unbuilt \/ tree.rows[n] # <<>> \/ n \notin tree.possible
  /\ Len(tree.rows[n]) < MaxRows
  /\ tree' = BuildNode(tree, n)
  /\ UNCHANGED <<always_expand, root, builders, wanted>>

(* dzl_tree_find_child_node builds what it looks through.                  *)
FindChildNode(n) ==
  /\ n \in tree.unbuilt
  /\ tree' = BuildChildren(tree, n)
  /\ Wants(tree', Subtree(tree', n))
  /\ UNCHANGED <<always_expand, root, builders>>

(* dzl_tree_node_set_children_possible *)
SetChildrenPossible(n, possible) ==
  /\ (n \in tree.possible) # possible
  /\ LET t == [tree EXCEPT !.possible = IF possible THEN @ \cup {n} ELSE @ \ {n}]
     IN  tree' = CASE n \notin tree.unbuilt -> t
                   [] n \in tree.unbuilt /\ possible -> AddDummy(t, n)
                   [] n \in tree.unbuilt /\ ~possible -> RemoveDummy(t, n)
  /\ UNCHANGED <<always_expand, root, builders, wanted>>

Puts(n, c, at) ==
  wanted' = [m \in Nodes |-> CASE m = n -> With(wanted[n], at, <<c>>)
                               [] m \in Subtree(tree', c) \ tree'.unbuilt -> Appended(m)
                               [] OTHER -> wanted[m]]

(* dzl_tree_node_prepend and dzl_tree_node_append *)
AddNode(n, c, at) ==
  /\ at \in {0, Len(tree.rows[n])}
  /\ tree' = Add(tree, n, c, at)
  /\ Puts(n, c, at)
  /\ UNCHANGED <<always_expand, root, builders>>

(* dzl_tree_node_insert; always-expand expands what is inserted.           *)
Insert(n, c, at) ==
  /\ n # Root /\ at <= Len(tree.rows[n])
  /\ tree' = Add(tree, n, c, at)
  /\ Puts(n, c, at)
  /\ UNCHANGED <<always_expand, root, builders>>

(* dzl_tree_node_insert_sorted, in whatever place the order says: adds one *)
(* dummy at most, and builds no children of a row of the root.             *)
InsertSorted(n, c, at) ==
  /\ at <= Len(tree.rows[n])
  /\ LET t == BuildNode([tree EXCEPT !.rows[n] = With(@, at, <<c>>)], c)
     IN  tree' = IF always_expand THEN BuildChildren(t, c) ELSE t
  /\ Puts(n, c, at)
  /\ UNCHANGED <<always_expand, root, builders>>

(* dzl_tree_node_remove *)
NodeRemove(n) ==
  /\ LET p == ParentOf(tree, n)
         t == RemoveChildren(tree, n)
         rows == SelectSeq(t.rows[p], LAMBDA c : c # n)
     IN  /\ tree' = [rows     |-> [t.rows EXCEPT ![p] = rows],
                     unbuilt  |-> t.unbuilt \cup {n},
                     possible |-> (t.possible \ {n}) \cup (Possible \cap {n}),
                     expanded |-> t.expanded \ (IF rows = <<>> THEN {p} ELSE {})]
         /\ wanted' = [m \in Nodes |-> CASE m \in Subtree(tree, n) -> <<>>
                                         [] m = p -> SelectSeq(wanted[p], LAMBDA c : c # n)
                                         [] OTHER -> wanted[m]]
  /\ UNCHANGED <<always_expand, root, builders>>

Next ==
  \/ \E b \in Builder : AddBuilder(b) \/ RemoveBuilder(b)
  \/ SetRoot(Root) \/ SetRoot(None) \/ Rebuild
  \/ \E n \in InTree \ {Root} :
       \/ Expand(n) \/ Collapse(n) \/ Invalidate(n) \/ NodeRebuild(n) \/ NodeRemove(n)
       \/ FindChildNode(n)
       \/ \E possible \in BOOLEAN : SetChildrenPossible(n, possible)
  \/ \E n \in Built, c \in Spare \ InTree, at \in 0..MaxRows :
       AddNode(n, c, at) \/ Insert(n, c, at) \/ InsertSorted(n, c, at)

Spec == Init /\ [][Next]_vars
-----------------------------------------------------------------------------
TypeOK ==
  /\ always_expand \in BOOLEAN
  /\ root \in {Root, None}
  /\ builders \in Seq(Builder) /\ IsInjective(builders)
  /\ tree.rows \in [Nodes -> Seq(Node \cup {Dummy})]
  /\ tree.unbuilt \subseteq Nodes /\ tree.possible \subseteq Node /\ tree.expanded \subseteq Node
  /\ wanted \in [Nodes -> Seq(Node)]

(* The user never sees a dummy: what is expanded has been built.           *)
NoDummyShown ==
  \A n \in tree.expanded \cup {Root} : Dummy \notin ToSet(tree.rows[n])

(* Whatever may have children that are yet to be built can be expanded.    *)
CanBeExpanded ==
  ~always_expand =>
    \A n \in (InTree \ {Root}) \cap tree.unbuilt \cap tree.possible : tree.rows[n] # <<>>

(* A built node has the children that its builders made when it was built, *)
(* and what was added since, each once and in its place, and no other.     *)
ShowsWhatWasBuilt == \A n \in Built : tree.rows[n] = wanted[n]
=============================================================================

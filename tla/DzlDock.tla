------------------------------ MODULE DzlDock ------------------------------
(***************************************************************************)
(* panel/: a dock whose edges slide in and out, with a stack of panels in  *)
(* each, and the dock manager, which brings what has the focus into view   *)
(* by a "transient grab" and undoes that when the focus leaves.            *)
(*                                                                         *)
(* Of the items in a grab only the panel and the edge above it matter: the *)
(* others always count as visible, or ignore being shown and hidden.       *)
(***************************************************************************)
EXTENDS Naturals

CONSTANTS
  Edge, Panel, Center, None,
  EdgeOf        \* the edge a panel belongs to

ConstantsType == EdgeOf \in [Panel -> Edge]

VARIABLES
  realized,     \* whether the dock is on the screen: if not, nothing slides
  edges,        \* the DzlDockRevealer of each edge
  page,         \* the visible child of the stack in each edge, or None
  panels,       \* the panels that are in the dock
  queued_focus, \* queued_focus_by_toplevel, for the one window there is
  queued_handler,
  pause_count,
  grab,         \* the current grab, or None
  own           \* observed: edges that have been open without a grab for them

vars == <<realized, edges, page, panels, queued_focus, queued_handler, pause_count, grab, own>>

(* Half way out is 1.  The animation goes to its end, 0 or 2.              *)
Revealer == [reveal : BOOLEAN, child_revealed : BOOLEAN, child_visible : BOOLEAN,
             value : 0..2, animation : {"none", "in", "out"}]
End(to) == IF to THEN 2 ELSE 0
Rest(to) == [reveal |-> to, child_revealed |-> to, child_visible |-> to,
             value |-> End(to), animation |-> "none"]

(* The first item of a grab is the panel, None once that has gone, or the  *)
(* dock itself when something outside of the edges has the focus.          *)
Grab == [of : Panel \cup {Center, None}, edge : Edge \cup {None}, hidden : SUBSET Edge]

Init ==
  /\ realized \in BOOLEAN
  /\ edges = [e \in Edge |-> Rest(FALSE)]
  /\ page = [e \in Edge |-> None]
  /\ panels = {}
  /\ queued_focus = None /\ queued_handler = FALSE
  /\ pause_count = 0 /\ grab = None
  /\ own = {}

-----------------------------------------------------------------------------
(* dzl_dock_revealer_animation_done: called when the animation ends and    *)
(* when it is stopped.                                                     *)
AnimationDone(r) ==
  [r EXCEPT !.child_revealed = r.value = 2, !.child_visible = r.value # 0, !.animation = "none"]

(* dzl_dock_revealer_set_reveal_child                                      *)
SetRevealChild_NotStopped(r, to) ==
  IF r.reveal = to THEN r
  ELSE IF ~realized THEN Rest(to)
  ELSE LET stopped == IF r.animation = "none" THEN r ELSE AnimationDone(r)
       IN  [stopped EXCEPT !.reveal = to, !.child_visible = TRUE,
                           !.animation = IF r.animation # "none" THEN r.animation
                                         ELSE IF to THEN "in" ELSE "out"]
SetRevealChild(r, to) ==
  IF r.reveal = to THEN r
  ELSE IF ~realized THEN Rest(to)
  ELSE LET stopped == IF r.animation = "none" THEN r ELSE AnimationDone(r)
       IN  [stopped EXCEPT !.reveal = to, !.child_visible = TRUE,
                           !.animation = IF to THEN "in" ELSE "out"]

(* A frame: dzl_animation_widget_tick_cb or _after_paint_cb.  The latter   *)
(* may set the last value; only the former stops the animation.            *)
Towards(r) == IF r.animation = "in" THEN r.value..2 ELSE 0..r.value

Tick(e) ==
  /\ edges[e].animation # "none"
  /\ \/ \E v \in Towards(edges[e]) : edges' = [edges EXCEPT ![e].value = v]
     \/ LET last == End(edges[e].animation = "in")
        IN  edges' = [edges EXCEPT ![e] = AnimationDone([@ EXCEPT !.value = last])]
  /\ UNCHANGED <<realized, page, panels, queued_focus, queued_handler, pause_count, grab>>

-----------------------------------------------------------------------------
(* The application and the user: toggling an edge, and panels that come    *)
(* and go, with dzl_dock_bin_edge_update_visibility at the end of each.    *)
SetVisible(e, visible) ==
  /\ edges' = [edges EXCEPT ![e] = SetRevealChild(@, visible)]
  /\ UNCHANGED <<realized, page, panels, queued_focus, queued_handler, pause_count, grab>>

UpdateVisibility(e) ==
  edges' = [edges EXCEPT ![e] = SetRevealChild(@, \E p \in panels' : EdgeOf[p] = e)]

Add(p) ==
  /\ p \notin panels
  /\ panels' = panels \cup {p}
  /\ page' = [page EXCEPT ![EdgeOf[p]] = IF @ = None THEN p ELSE @]
  /\ UpdateVisibility(EdgeOf[p])
  /\ UNCHANGED <<realized, queued_focus, queued_handler, pause_count, grab>>

Destroy(p) ==
  /\ p \in panels
  /\ panels' = panels \ {p}
  /\ LET left == {q \in panels' : EdgeOf[q] = EdgeOf[p]} IN
     IF page[EdgeOf[p]] # p THEN page' = page
     ELSE \E q \in IF left = {} THEN {None} ELSE left : page' = [page EXCEPT ![EdgeOf[p]] = q]
  /\ UpdateVisibility(EdgeOf[p])
  /\ queued_focus' = IF queued_focus = p THEN None ELSE queued_focus
  /\ grab' = IF grab # None /\ grab.of = p THEN [grab EXCEPT !.of = None] ELSE grab
  /\ UNCHANGED <<realized, queued_handler, pause_count>>

(* dzl_dock_item_present: the stack selects the panel; the dock looks for  *)
(* an edge that the edge it is given is inside of, and finds none.  Then   *)
(* dzl_dock_manager_release_transient_grab.                                *)
Presented(p) ==
  /\ p \in panels
  /\ page' = [page EXCEPT ![EdgeOf[p]] = p]
  /\ grab' = None
  /\ UNCHANGED <<realized, edges, panels, pause_count>>

Present(p) ==
  /\ Presented(p)
  /\ queued_handler' = FALSE
  /\ UNCHANGED queued_focus

(* dzl_dock_widget_grab_focus: what is not shown cannot take the focus.    *)
GrabFocus(p) ==
  /\ Presented(p)
  /\ queued_handler' = edges[EdgeOf[p]].child_visible
  /\ queued_focus' = IF edges[EdgeOf[p]].child_visible THEN p ELSE queued_focus

PauseGrabs ==
  /\ pause_count' \in {pause_count + 1, pause_count - 1} \cap 0..1
  /\ UNCHANGED <<realized, edges, page, panels, queued_focus, queued_handler, grab>>

-----------------------------------------------------------------------------
(* dzl_dock_manager_set_focus, by the window                               *)
SetFocus(f) ==
  /\ f \in panels \cup {Center, None}
  /\ queued_focus' = f
  /\ queued_handler' = (queued_handler \/ f # None)
  /\ UNCHANGED <<realized, edges, page, panels, pause_count, grab>>

(* dzl_dock_manager_do_set_focus.  The new grab takes over the edge they   *)
(* have in common, the old one is released, and the new one acquired; the  *)
(* stack shows the panel of a grab that is released, too.                  *)
NewGrab(f) == [of |-> f, edge |-> IF f = Center THEN None ELSE EdgeOf[f], hidden |-> {}]

StealCommonAncestors_None(new) == IF grab = None THEN {} ELSE grab.hidden
StealCommonAncestors(new) == IF grab = None THEN {} ELSE grab.hidden \ {new.edge}

Release(hidden) == [e \in Edge |-> IF e \in hidden THEN SetRevealChild(edges[e], FALSE) ELSE edges[e]]

Selected(pages, p) == IF p \in panels THEN [pages EXCEPT ![EdgeOf[p]] = p] ELSE pages

DoSetFocus(f) ==
  LET new      == NewGrab(f)
      released == Release(StealCommonAncestors(new))
      shut     == {e \in {new.edge} \ {None} : ~released[e].child_revealed}
  IN  /\ edges' = [e \in Edge |-> IF e \in shut THEN SetRevealChild(released[e], TRUE)
                                  ELSE released[e]]
      /\ page' = Selected(IF grab = None THEN page ELSE Selected(page, grab.of), f)
      /\ grab' = [new EXCEPT !.hidden = shut]

(* do_delayed_focus_update                                                 *)
Grabs == /\ queued_handler /\ pause_count = 0 /\ queued_focus # None
         /\ (grab # None => grab.of # queued_focus)

DelayedFocusUpdate ==
  /\ queued_handler
  /\ queued_handler' = FALSE /\ queued_focus' = None
  /\ IF Grabs THEN DoSetFocus(queued_focus) ELSE UNCHANGED <<edges, page, grab>>
  /\ UNCHANGED <<realized, panels, pause_count>>

-----------------------------------------------------------------------------
Step ==
  \/ \E e \in Edge : Tick(e) \/ \E visible \in BOOLEAN : SetVisible(e, visible)
  \/ \E p \in Panel : Add(p) \/ Destroy(p) \/ Present(p) \/ GrabFocus(p)
  \/ PauseGrabs
  \/ \E f \in Panel \cup {Center, None} : SetFocus(f)
  \/ DelayedFocusUpdate

Next ==
  /\ Step
  /\ own' = {e \in Edge : /\ edges'[e].reveal
                          /\ e \in own \/ (edges'[e].child_revealed /\ (grab' # None => grab'.edge # e))}

Spec == Init /\ [][Next]_vars
-----------------------------------------------------------------------------
TypeOK ==
  /\ realized \in BOOLEAN
  /\ edges \in [Edge -> Revealer]
  /\ page \in [Edge -> Panel \cup {None}] /\ panels \subseteq Panel
  /\ queued_focus \in Panel \cup {Center, None} /\ queued_handler \in BOOLEAN
  /\ pause_count \in 0..1 /\ grab \in Grab \cup {None}
  /\ own \subseteq Edge

(* When no animation is left, an edge is where it was last asked to be,    *)
(* however often it was turned back half way.                              *)
Settled == \A e \in Edge : edges[e].animation = "none" => edges[e] = Rest(edges[e].reveal)

(* A grab shows the panel that has the focus, unless its edge was on the   *)
(* move; and the end of a grab leaves open what was open without it.       *)
Shows(p) == page'[EdgeOf[p]] = p
            /\ (edges[EdgeOf[p]].animation = "none" => edges'[EdgeOf[p]].reveal)

FollowsFocus ==
  [][Grabs /\ DelayedFocusUpdate =>
       /\ queued_focus \in Panel => Shows(queued_focus)
       /\ \A e \in own : edges'[e].reveal]_vars
=============================================================================

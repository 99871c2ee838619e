---------------------------- MODULE MotionProofs ----------------------------
(***************************************************************************)
(* Proofs about what moves on the screen, for every value of the           *)
(* constants: DzlDock, whose names are used as they are; DzlAnimation,     *)
(* whose names have Anim! before them; and DzlFrameSource, with Frames!.   *)
(***************************************************************************)
EXTENDS DzlDock, FiniteSetTheorems, TLAPS

(* Animations: their constants and variables, as DzlAnimation names them.  *)
CONSTANTS Animation, mode, Clocked, Duration, EndValue, Unsigned, Width, Reentrant, Misused
VARIABLES life, stop_called, last_offset, elapsed, begin, value, updating, phase, due,
          ticking, wrote, ended

Anim == INSTANCE DzlAnimation

(* The frame source, which has a Width too; since_start is its elapsed.    *)
CONSTANTS Fps, Second, MaxElapsed, MaxDelay
VARIABLES at, since_start, frame_count, timeout, burst

Frames == INSTANCE DzlFrameSource WITH elapsed <- since_start

-----------------------------------------------------------------------------
(* The dock, for any edges and panels: an edge that has come to rest is    *)
(* where it was last asked to be, however often it was turned back half    *)
(* way, and the grab of the focus shows the panel that has it and leaves   *)
(* open what was open without a grab.                                      *)
Documented == ConstantsType /\ None \notin Edge \cup Panel /\ Center # None /\ Center \notin Panel

-----------------------------------------------------------------------------
(* One revealer.  What is on the move goes where it was last asked to go.  *)
Sound(r) ==
  /\ r \in Revealer
  /\ IF r.animation = "none" THEN r = Rest(r.reveal) ELSE r.reveal <=> r.animation = "in"

(* What a step does to an edge, at most.                                   *)
Moved(r, after) ==
  \/ after = r
  \/ \E to \in BOOLEAN : after = SetRevealChild(r, to)
  \/ /\ r.animation # "none"
     /\ \/ \E v \in Towards(r) : after = [r EXCEPT !.value = v]
        \/ after = AnimationDone([r EXCEPT !.value = End(r.animation = "in")])

LEMMA RestIsSound ==
  ASSUME NEW to \in BOOLEAN
  PROVE  Sound(Rest(to)) /\ Rest(to).reveal = to /\ Rest(to).child_revealed = to
<1>1. CASE to = TRUE
  BY <1>1 DEF Sound, Rest, Revealer, End
<1>2. CASE to = FALSE
  BY <1>2 DEF Sound, Rest, Revealer, End
<1>3. QED BY <1>1, <1>2

(* dzl_dock_revealer_set_reveal_child, also half way through an animation. *)
LEMMA SetRevealChildSound ==
  ASSUME NEW r, Sound(r), NEW to \in BOOLEAN
  PROVE  Sound(SetRevealChild(r, to)) /\ SetRevealChild(r, to).reveal = to
<1>1. CASE r.reveal = to
  BY <1>1 DEF SetRevealChild
<1>2. CASE r.reveal # to /\ ~realized
  BY <1>2, RestIsSound DEF SetRevealChild
<1>3. CASE r.reveal # to /\ realized
  <2> DEFINE stopped == IF r.animation = "none" THEN r ELSE AnimationDone(r)
             going == IF to THEN "in" ELSE "out"
  <2>1. SetRevealChild(r, to) =
          [stopped EXCEPT !.reveal = to, !.child_visible = TRUE, !.animation = going]
    BY <1>3 DEF SetRevealChild
  <2>2. stopped \in Revealer
    BY DEF Sound, Revealer, AnimationDone
  <2>3. going \in {"in", "out"} /\ (to <=> going = "in")
    OBVIOUS
  <2> HIDE DEF stopped, going
  <2>4. QED BY <2>1, <2>2, <2>3 DEF Sound, Revealer
<1>4. QED BY <1>1, <1>2, <1>3

LEMMA SameRevealer ==
  ASSUME NEW r \in Revealer, NEW q \in Revealer,
         r.reveal = q.reveal, r.child_revealed = q.child_revealed,
         r.child_visible = q.child_visible, r.value = q.value, r.animation = q.animation
  PROVE  r = q
  BY DEF Revealer

LEMMA AnimationDoneFields ==
  ASSUME NEW r \in Revealer
  PROVE  /\ AnimationDone(r) \in Revealer
         /\ AnimationDone(r).reveal = r.reveal
         /\ AnimationDone(r).child_revealed <=> r.value = 2
         /\ AnimationDone(r).child_visible <=> r.value # 0
         /\ AnimationDone(r).value = r.value
         /\ AnimationDone(r).animation = "none"
  BY DEF AnimationDone, Revealer

(* The last frame of an animation. *)
LEMMA AnimationDoneSound ==
  ASSUME NEW r, Sound(r), r.animation # "none"
  PROVE  AnimationDone([r EXCEPT !.value = End(r.animation = "in")]) = Rest(r.reveal)
<1> DEFINE last == [r EXCEPT !.value = End(r.animation = "in")]
           done == AnimationDone(last)
           rest == Rest(r.reveal)
<1>1. r \in Revealer /\ r.animation \in {"in", "out"} /\ (r.reveal <=> r.animation = "in")
      /\ r.reveal \in BOOLEAN
  BY DEF Sound, Revealer
<1>2. last \in Revealer /\ last.reveal = r.reveal /\ last.value = (IF r.reveal THEN 2 ELSE 0)
  BY <1>1 DEF Revealer, End
<1> HIDE DEF last
<1>3. /\ done \in Revealer /\ done.reveal = r.reveal
      /\ (done.child_revealed <=> r.reveal) /\ (done.child_visible <=> r.reveal)
      /\ done.value = (IF r.reveal THEN 2 ELSE 0) /\ done.animation = "none"
  BY <1>1, <1>2, AnimationDoneFields
<1>4. /\ rest \in Revealer /\ rest.reveal = r.reveal
      /\ (rest.child_revealed <=> r.reveal) /\ (rest.child_visible <=> r.reveal)
      /\ rest.value = (IF r.reveal THEN 2 ELSE 0) /\ rest.animation = "none"
  BY <1>1 DEF Rest, End, Revealer
<1> HIDE DEF done, rest
<1>5. done.child_revealed = rest.child_revealed /\ done.child_visible = rest.child_visible
  BY <1>3, <1>4 DEF Revealer
<1>6. done = rest
  BY <1>3, <1>4, <1>5, SameRevealer
<1>7. QED BY <1>6 DEF done, rest, last

LEMMA MovedSound ==
  ASSUME NEW r, Sound(r), NEW after, Moved(r, after)
  PROVE  /\ Sound(after)
         /\ r.reveal /\ r.child_revealed /\ after.reveal => after.child_revealed
<1>1. CASE after = r
  BY <1>1
<1>2. CASE \E to \in BOOLEAN : after = SetRevealChild(r, to)
  <2>1. PICK to \in BOOLEAN : after = SetRevealChild(r, to)
    BY <1>2
  <2>2. Sound(after) /\ after.reveal = to
    BY <2>1, SetRevealChildSound
  <2>3. r.reveal = to => after = r
    BY <2>1 DEF SetRevealChild
  <2>4. r.reveal /\ after.reveal => r.reveal = to
    BY <2>2 DEF Sound, Revealer
  <2>5. QED BY <2>2, <2>3, <2>4
<1>3. CASE r.animation # "none" /\ \E v \in Towards(r) : after = [r EXCEPT !.value = v]
  <2>1. PICK v \in Towards(r) : after = [r EXCEPT !.value = v]
    BY <1>3
  <2>2. v \in 0..2
    BY DEF Sound, Revealer, Towards
  <2>3. QED BY <1>3, <2>1, <2>2 DEF Sound, Revealer
<1>4. CASE r.animation # "none" /\ after = AnimationDone([r EXCEPT !.value = End(r.animation = "in")])
  <2>1. after = Rest(r.reveal) /\ r.reveal \in BOOLEAN
    BY <1>4, AnimationDoneSound DEF Sound, Revealer
  <2>2. QED BY <2>1, RestIsSound
<1>5. QED BY <1>1, <1>2, <1>3, <1>4 DEF Moved

-----------------------------------------------------------------------------
(* The inductive invariant: edges are sound, the focus that waits is on a  *)
(* panel of the dock, what has been open on its own is still open, and the *)
(* one edge a grab may hide again is not among it.                         *)
Hides(g) == g # None => g.hidden \subseteq {g.edge} /\ g.hidden \cap own = {}

Inv ==
  /\ TypeOK
  /\ \A e \in Edge : Sound(edges[e])
  /\ queued_focus \in Panel => queued_focus \in panels
  /\ \A e \in own : edges[e].reveal /\ edges[e].child_revealed
  /\ Hides(grab)

LEMMA InvInit == Documented /\ Init => Inv
<1> SUFFICES ASSUME Documented, Init PROVE Inv
  OBVIOUS
<1>1. \A e \in Edge : Sound(edges[e])
  BY RestIsSound DEF Init
<1>2. edges \in [Edge -> Revealer]
  BY <1>1 DEF Init, Sound
<1>3. TypeOK
  <2>1. page \in [Edge -> Panel \cup {None}]
    BY DEF Init
  <2>2. pause_count \in 0..1 /\ realized \in BOOLEAN /\ queued_handler \in BOOLEAN
    <3>1. pause_count = 0
      BY DEF Init
    <3>2. realized \in BOOLEAN /\ queued_handler \in BOOLEAN
      BY Zenon DEF Init
    <3>3. QED BY <3>1, <3>2
  <2>3. panels \subseteq Panel /\ own \subseteq Edge /\ grab \in Grab \cup {None}
        /\ queued_focus \in Panel \cup {Center, None}
    BY DEF Init
  <2>4. QED BY <1>2, <2>1, <2>2, <2>3 DEF TypeOK
<1>4. QED BY <1>1, <1>3 DEF Init, Inv, Hides, Documented

(* The focus that waits becomes a grab: the edge of the panel, if it is    *)
(* shut, is opened and remembered; the edge of the last grab is shut again *)
(* unless it is the same.                                                  *)
LEMMA FocusMoves ==
  ASSUME Documented, Inv, NEW f \in Panel \cup {Center}, f \in Panel => f \in panels, DoSetFocus(f)
  PROVE  /\ edges' = [e \in Edge |-> edges'[e]]
         /\ \A e \in Edge :
              /\ Moved(edges[e], edges'[e])
              /\ e \in own => edges'[e].reveal
         /\ page' \in [Edge -> Panel \cup {None}]
         /\ f \in Panel =>
              /\ page'[EdgeOf[f]] = f
              /\ edges[EdgeOf[f]].animation = "none" => edges'[EdgeOf[f]].reveal
         /\ grab' \in Grab /\ grab'.hidden \subseteq {grab'.edge}
         /\ \A e \in grab'.hidden : ~edges[e].child_revealed
<1> DEFINE new == NewGrab(f)
           hidden == StealCommonAncestors(new)
           released == Release(hidden)
           shut == {e \in {new.edge} \ {None} : ~released[e].child_revealed}
           pages == IF grab = None THEN page ELSE Selected(page, grab.of)
<1>1. /\ edges' = [e \in Edge |-> IF e \in shut THEN SetRevealChild(released[e], TRUE) ELSE released[e]]
      /\ page' = Selected(pages, f)
      /\ grab' = [new EXCEPT !.hidden = shut]
  BY DEF DoSetFocus
<1>2. /\ new \in Grab /\ new.of = f /\ new.hidden = {}
      /\ f = Center => new.edge = None
      /\ f \in Panel => new.edge = EdgeOf[f] /\ EdgeOf[f] \in Edge
  BY DEF NewGrab, Grab, Documented, ConstantsType
<1>3. hidden \cap own = {} /\ new.edge \notin hidden
  BY DEF StealCommonAncestors, Inv, Hides
<1> HIDE DEF new, hidden
<1>4. \A e \in Edge : released[e] = IF e \in hidden THEN SetRevealChild(edges[e], FALSE) ELSE edges[e]
  BY DEF Release
<1> HIDE DEF released
<1>5. shut \subseteq Edge /\ shut \subseteq {new.edge}
      /\ \A e \in shut : e \notin hidden /\ ~edges[e].child_revealed
  BY <1>2, <1>3, <1>4
<1>6. new.edge # None /\ new.edge \notin shut => edges[new.edge].child_revealed
  BY <1>2, <1>3, <1>4
<1> HIDE DEF shut
<1>7. ASSUME NEW e \in Edge
      PROVE  /\ Moved(edges[e], edges'[e])
             /\ e \in own => edges'[e].reveal
  <2>1. CASE e \in shut
    <3>1. edges'[e] = SetRevealChild(edges[e], TRUE)
      BY <1>1, <1>4, <1>5, <2>1
    <3>2. QED BY <3>1, SetRevealChildSound DEF Moved, Inv
  <2>2. CASE e \notin shut /\ e \in hidden
    BY <1>1, <1>3, <1>4, <2>2 DEF Moved
  <2>3. CASE e \notin shut /\ e \notin hidden
    BY <1>1, <1>4, <2>3 DEF Moved, Inv
  <2>4. QED BY <2>1, <2>2, <2>3
<1>8. \A p : Selected(pages, p) \in [Edge -> Panel \cup {None}]
  <2>1. page \in [Edge -> Panel \cup {None}] /\ panels \subseteq Panel
    BY DEF Inv, TypeOK
  <2>2. ASSUME NEW q \in [Edge -> Panel \cup {None}], NEW p
        PROVE  Selected(q, p) \in [Edge -> Panel \cup {None}]
    BY <2>1, <2>2 DEF Selected
  <2>3. pages \in [Edge -> Panel \cup {None}]
    BY <2>1, <2>2
  <2> HIDE DEF pages
  <2>4. QED BY <2>2, <2>3
<1>9. ASSUME f \in Panel
      PROVE  /\ page'[EdgeOf[f]] = f
             /\ edges[EdgeOf[f]].animation = "none" => edges'[EdgeOf[f]].reveal
  <2> DEFINE e == EdgeOf[f]
  <2>1. f \in panels /\ e \in Edge /\ e = new.edge /\ e # None
    BY <1>2, <1>9 DEF Documented
  <2>2. page'[e] = f
    <3>1. pages \in [Edge -> Panel \cup {None}]
      BY DEF Inv, TypeOK, Selected
    <3> HIDE DEF pages
    <3>2. QED BY <1>1, <2>1, <3>1 DEF Selected
  <2>3. CASE e \in shut
    <3>1. edges'[e] = SetRevealChild(edges[e], TRUE)
      BY <1>1, <1>4, <1>5, <2>1, <2>3
    <3>2. QED BY <2>1, <2>2, <3>1, SetRevealChildSound DEF Inv
  <2>4. CASE e \notin shut
    <3>1. edges'[e] = edges[e] /\ edges[e].child_revealed
      BY <1>1, <1>3, <1>4, <1>6, <2>1, <2>4
    <3>2. edges[e].animation = "none" => edges[e] = Rest(edges[e].reveal) /\ edges[e].reveal \in BOOLEAN
      BY <2>1 DEF Inv, Sound, Revealer
    <3>3. edges[e].animation = "none" => edges[e].reveal
      BY <3>1, <3>2, RestIsSound
    <3>4. QED BY <2>2, <3>1, <3>3
  <2>5. QED BY <2>3, <2>4
<1>10. grab' \in Grab /\ grab'.hidden = shut /\ grab'.edge = new.edge
  BY <1>1, <1>2, <1>5 DEF Grab
<1>11. QED
  <2>1. page' \in [Edge -> Panel \cup {None}]
    BY <1>1, <1>8
  <2>2. edges' = [e \in Edge |-> edges'[e]]
    BY <1>1
  <2> HIDE DEF pages
  <2>3. QED BY <1>5, <1>7, <1>9, <1>10, <2>1, <2>2

(* Every other action changes one edge at most, and of the grab only what  *)
(* it is of, unless it ends it.                                            *)
Others ==
  /\ edges' \in [Edge -> {edges'[e] : e \in Edge}]
  /\ \A e \in Edge : Moved(edges[e], edges'[e])
  /\ page' \in [Edge -> Panel \cup {None}] /\ panels' \subseteq Panel
  /\ queued_focus' \in Panel \cup {Center, None} /\ queued_handler' \in BOOLEAN
  /\ queued_focus' \in Panel => queued_focus' \in panels'
  /\ pause_count' \in 0..1 /\ realized' = realized
  /\ grab' \in Grab \cup {None}
  /\ grab' # None => \/ grab # None /\ grab'.edge = grab.edge /\ grab'.hidden = grab.hidden
                     \/ /\ grab'.hidden \subseteq {grab'.edge}
                        /\ \A e \in grab'.hidden : ~edges[e].child_revealed

(* One edge changes. *)
LEMMA OneEdge ==
  ASSUME Inv, NEW e \in Edge, NEW r, edges' = [edges EXCEPT ![e] = r], Moved(edges[e], r)
  PROVE  /\ edges' \in [Edge -> {edges'[i] : i \in Edge}]
         /\ \A i \in Edge : Moved(edges[i], edges'[i])
<1>1. DOMAIN edges = Edge
  BY DEF Inv, TypeOK
<1>2. \A i \in Edge : edges'[i] = IF i = e THEN r ELSE edges[i]
  BY <1>1
<1>3. \A i \in Edge : Moved(edges[i], edges'[i])
  BY <1>2 DEF Moved
<1>4. edges' = [i \in Edge |-> edges'[i]]
  BY <1>1
<1>5. QED BY <1>3, <1>4

LEMMA NoEdge ==
  ASSUME Inv, edges' = edges
  PROVE  /\ edges' \in [Edge -> {edges'[i] : i \in Edge}]
         /\ \A i \in Edge : Moved(edges[i], edges'[i])
  BY DEF Inv, TypeOK, Moved

LEMMA StepOthers ==
  ASSUME Documented, Inv, Step
  PROVE  Others
<1> USE DEF Inv, TypeOK
<1>1. CASE \E e \in Edge : Tick(e) \/ \E visible \in BOOLEAN : SetVisible(e, visible)
  <2>1. PICK e \in Edge : Tick(e) \/ \E visible \in BOOLEAN : SetVisible(e, visible)
    BY <1>1
  <2>2. UNCHANGED <<realized, page, panels, queued_focus, queued_handler, pause_count, grab>>
    BY <2>1 DEF Tick, SetVisible
  <2>3. \E r : edges' = [edges EXCEPT ![e] = r] /\ Moved(edges[e], r)
    <3>1. CASE Tick(e)
      <4>1. CASE \E v \in Towards(edges[e]) : edges' = [edges EXCEPT ![e].value = v]
        BY <3>1, <4>1 DEF Tick, Moved
      <4>2. CASE edges' = [edges EXCEPT ![e] =
                             AnimationDone([@ EXCEPT !.value = End(edges[e].animation = "in")])]
        BY <3>1, <4>2 DEF Tick, Moved
      <4>3. QED BY <3>1, <4>1, <4>2 DEF Tick
    <3>2. CASE \E visible \in BOOLEAN : SetVisible(e, visible)
      BY <3>2 DEF SetVisible, Moved
    <3>3. QED BY <2>1, <3>1, <3>2
  <2>4. QED BY <2>2, <2>3, OneEdge DEF Others
<1>2. CASE \E p \in Panel : Add(p)
  <2>1. PICK p \in Panel : Add(p)
    BY <1>2
  <2>2. EdgeOf[p] \in Edge
    BY DEF Documented, ConstantsType
  <2>3. Moved(edges[EdgeOf[p]], SetRevealChild(edges[EdgeOf[p]], \E q \in panels' : EdgeOf[q] = EdgeOf[p]))
    BY DEF Moved
  <2>4. /\ edges' \in [Edge -> {edges'[i] : i \in Edge}]
        /\ \A i \in Edge : Moved(edges[i], edges'[i])
    BY <2>1, <2>2, <2>3, OneEdge DEF Add, UpdateVisibility
  <2>5. page' \in [Edge -> Panel \cup {None}]
    BY <2>1, <2>2 DEF Add
  <2>6. QED BY <2>1, <2>4, <2>5 DEF Add, Others
<1>3. CASE \E p \in Panel : Destroy(p)
  <2>1. PICK p \in Panel : Destroy(p)
    BY <1>3
  <2>2. EdgeOf[p] \in Edge
    BY DEF Documented, ConstantsType
  <2>3. Moved(edges[EdgeOf[p]], SetRevealChild(edges[EdgeOf[p]], \E q \in panels' : EdgeOf[q] = EdgeOf[p]))
    BY DEF Moved
  <2>4. /\ edges' \in [Edge -> {edges'[i] : i \in Edge}]
        /\ \A i \in Edge : Moved(edges[i], edges'[i])
    BY <2>1, <2>2, <2>3, OneEdge DEF Destroy, UpdateVisibility
  <2>5. page' \in [Edge -> Panel \cup {None}]
    BY <2>1, <2>2 DEF Destroy
  <2>6. grab' = grab \/ (grab # None /\ grab' = [grab EXCEPT !.of = None])
    BY <2>1 DEF Destroy
  <2>7. /\ grab' \in Grab \cup {None}
        /\ grab' # None => grab # None /\ grab'.edge = grab.edge /\ grab'.hidden = grab.hidden
    BY <2>6 DEF Grab
  <2>8. /\ panels' = panels \ {p}
        /\ queued_focus' = IF queued_focus = p THEN None ELSE queued_focus
        /\ UNCHANGED <<realized, queued_handler, pause_count>>
    BY <2>1 DEF Destroy
  <2>9. /\ queued_focus' \in Panel \cup {Center, None}
        /\ queued_focus' \in Panel => queued_focus' \in panels'
    BY <2>8 DEF Documented
  <2>10. QED BY <2>4, <2>5, <2>7, <2>8, <2>9 DEF Others
<1>4. CASE \E p \in Panel : Present(p) \/ GrabFocus(p)
  <2>1. PICK p \in Panel : Present(p) \/ GrabFocus(p)
    BY <1>4
  <2>2. EdgeOf[p] \in Edge
    BY DEF Documented, ConstantsType
  <2>3. Presented(p)
    BY <2>1 DEF Present, GrabFocus
  <2>4. page' \in [Edge -> Panel \cup {None}]
    BY <2>2, <2>3 DEF Presented
  <2>5. /\ queued_handler' \in BOOLEAN /\ queued_focus' \in Panel \cup {Center, None}
        /\ queued_focus' \in Panel => queued_focus' \in panels
    BY <2>1, <2>2, <2>3 DEF Present, GrabFocus, Presented, Sound, Revealer
  <2>6. QED BY <2>3, <2>4, <2>5, NoEdge DEF Presented, Others
<1>5. CASE PauseGrabs
  BY <1>5, NoEdge DEF PauseGrabs, Others
<1>6. CASE \E f \in Panel \cup {Center, None} : SetFocus(f)
  BY <1>6, NoEdge DEF SetFocus, Others, Documented
<1>7. CASE DelayedFocusUpdate
  <2>1. /\ queued_handler' = FALSE /\ queued_focus' = None
        /\ UNCHANGED <<realized, panels, pause_count>>
    BY <1>7 DEF DelayedFocusUpdate
  <2>2. CASE Grabs
    <3>1. DoSetFocus(queued_focus) /\ queued_focus \in Panel \cup {Center}
      BY <1>7, <2>2 DEF DelayedFocusUpdate, Grabs
    <3>2. QED BY <2>1, <3>1, FocusMoves DEF Others, Documented
  <2>3. CASE ~Grabs
    <3>1. UNCHANGED <<edges, page, grab>>
      BY <1>7, <2>3 DEF DelayedFocusUpdate
    <3>2. QED BY <2>1, <3>1, NoEdge DEF Others, Documented
  <2>4. QED BY <2>2, <2>3
<1>8. QED BY <1>1, <1>2, <1>3, <1>4, <1>5, <1>6, <1>7 DEF Step

LEMMA InvStep == Documented /\ Inv /\ [Next]_vars => Inv'
<1> SUFFICES ASSUME Documented, Inv, [Next]_vars PROVE Inv'
  OBVIOUS
<1>1. CASE UNCHANGED vars
  BY <1>1 DEF vars, Inv, TypeOK, Sound, Hides
<1>2. CASE Next
  <2>1. Step /\ own' = {e \in Edge : /\ edges'[e].reveal
                                    /\ \/ e \in own
                                       \/ edges'[e].child_revealed /\ (grab' # None => grab'.edge # e)}
    BY <1>2 DEF Next
  <2>2. Others
    BY <2>1, StepOthers
  <2>3. ASSUME NEW e \in Edge
        PROVE  /\ Sound(edges'[e])
               /\ edges[e].reveal /\ edges[e].child_revealed /\ edges'[e].reveal =>
                    edges'[e].child_revealed
    BY <2>2, MovedSound DEF Others, Inv
  <2>4. edges' \in [Edge -> Revealer]
    BY <2>2, <2>3 DEF Others, Sound
  <2>5. TypeOK'
    <3>1. own' \subseteq Edge
      BY <2>1
    <3>2. realized' \in BOOLEAN
      BY <2>2, Zenon DEF Others, Inv, TypeOK
    <3>3. QED BY <2>2, <2>4, <3>1, <3>2 DEF Others, TypeOK
  <2>6. \A e \in own' : edges'[e].reveal /\ edges'[e].child_revealed
    BY <2>1, <2>3 DEF Inv
  <2>7. Hides(grab)'
    <3>1. ASSUME grab' # None PROVE grab'.hidden \subseteq {grab'.edge} /\ grab'.hidden \cap own' = {}
      <4>1. CASE grab # None /\ grab'.edge = grab.edge /\ grab'.hidden = grab.hidden
        BY <2>1, <3>1, <4>1 DEF Inv, Hides
      <4>2. CASE /\ grab'.hidden \subseteq {grab'.edge}
                 /\ \A e \in grab'.hidden : ~edges[e].child_revealed
        BY <2>1, <3>1, <4>2 DEF Inv
      <4>3. QED BY <2>2, <3>1, <4>1, <4>2 DEF Others
    <3>2. QED BY <3>1 DEF Hides
  <2>8. QED BY <2>2, <2>3, <2>5, <2>6, <2>7 DEF Inv, Others
<1>3. QED BY <1>1, <1>2

LEMMA Invariance == ASSUME Documented PROVE Spec => []Inv
<1>1. Init => Inv
  BY InvInit
<1>2. Inv /\ [Next]_vars => Inv'
  BY InvStep
<1>3. QED BY <1>1, <1>2, PTL DEF Spec

-----------------------------------------------------------------------------
(* Every variable keeps its type.                                          *)
THEOREM TypeCorrect == ASSUME Documented PROVE Spec => []TypeOK
<1>1. Inv => TypeOK
  BY DEF Inv
<1>2. Spec => []Inv
  BY Invariance
<1>3. QED BY <1>1, <1>2, PTL

(* When no animation of a revealer is left, the edge is where it was last  *)
(* asked to be, however often it was turned back half way.                 *)
THEOREM EdgesSettle == ASSUME Documented PROVE Spec => []Settled
<1>1. Inv => Settled
  BY DEF Inv, Sound, Settled
<1>2. Spec => []Inv
  BY Invariance
<1>3. QED BY <1>1, <1>2, PTL

(* The panel that gets the focus is the one its stack shows, in an edge    *)
(* that is open unless it was on the move; and what has been open without  *)
(* a grab stays open when a grab ends.                                     *)
THEOREM GrabFollowsFocus == ASSUME Documented PROVE Spec => FollowsFocus
<1>1. ASSUME Inv, Grabs, DelayedFocusUpdate
      PROVE  /\ queued_focus \in Panel => Shows(queued_focus)
             /\ \A e \in own : edges'[e].reveal
  <2>1. DoSetFocus(queued_focus)
    BY <1>1 DEF DelayedFocusUpdate
  <2>2. queued_focus \in Panel \cup {Center} /\ (queued_focus \in Panel => queued_focus \in panels)
    BY <1>1 DEF Grabs, Inv, TypeOK
  <2>3. own \subseteq Edge
    BY <1>1 DEF Inv, TypeOK
  <2>4. QED BY <1>1, <2>1, <2>2, <2>3, FocusMoves DEF Shows
<1>2. Spec => []Inv
  BY Invariance
<1>3. Inv /\ [Next]_vars =>
        [Grabs /\ DelayedFocusUpdate =>
           /\ queued_focus \in Panel => Shows(queued_focus)
           /\ \A e \in own : edges'[e].reveal]_vars
  BY <1>1
<1>4. QED BY <1>2, <1>3, PTL DEF Spec, FollowsFocus

-----------------------------------------------------------------------------
(* Animations, for any number of them, however long they take, and         *)
(* whatever properties they share.                                         *)

LEMMA SameCardinality == ASSUME NEW S PROVE Anim!Cardinality(S) = Cardinality(S)
BY DEF Anim!Cardinality, Cardinality

(* Finitely many animations.                                               *)
Finite ==
  /\ IsFiniteSet(Animation) /\ Clocked \subseteq Animation
  /\ Duration \in [Animation -> Nat]

(* Callers do what the code expects: they do not stop animations before,   *)
(* nor start them after, they ran.  What is a guint only goes up, since    *)
(* its way wraps otherwise.  None is no number, and no call of             *)
(* dzl_animation_tick.                                                     *)
Call == [a : Animation, offset : Nat, left : SUBSET Anim!Property, stops : BOOLEAN]
WellUsed ==
  /\ ~Misused /\ None \notin Int /\ None \notin Call
  /\ mode \in [Animation -> Anim!Modes]
  /\ \A a \in Animation : EndValue[a] \in [DOMAIN EndValue[a] -> Int]
  /\ \A a \in Animation : \A p \in DOMAIN EndValue[a] : p \in Unsigned =>
       /\ EndValue[a][p] \in Nat /\ Width \in Nat /\ EndValue[a][p] < Width
       /\ \A b \in Animation : p \in DOMAIN EndValue[b] => EndValue[b][p] = EndValue[a][p]

-----------------------------------------------------------------------------
(* What is running, and the handlers still to be called.                   *)
Ticking ==
  ticking # None =>
    /\ ticking.a \in Animation /\ ticking.a \notin due
    /\ ticking.offset \in 0..Duration[ticking.a]
ClockIInv == Anim!TypeOK /\ Ticking /\ Anim!ClockRuns

(* One animation more, or less.                                            *)
LEMMA RunningMore ==
  ASSUME Finite, Anim!TypeOK, NEW a \in Animation, life[a] # "running",
         life' = [life EXCEPT ![a] = "running"], Anim!ClockRuns,
         updating' = IF a \in Clocked THEN updating + 1 ELSE updating
  PROVE  Anim!ClockRuns'
<1>1. IsFiniteSet(Anim!Running \cap Clocked)
  BY FS_Subset DEF Finite, Anim!Running
<1>2. Anim!Running' = Anim!Running \cup {a} /\ a \notin Anim!Running
  BY DEF Anim!Running, Anim!TypeOK
<1>3. CASE a \in Clocked
  <2>1. (Anim!Running \cap Clocked)' = (Anim!Running \cap Clocked) \cup {a}
    BY <1>2, <1>3
  <2>2. Anim!Cardinality((Anim!Running \cap Clocked) \cup {a}) =
          Anim!Cardinality(Anim!Running \cap Clocked) + 1
    BY <1>1, <1>2, FS_AddElement, SameCardinality
  <2>3. QED BY <1>3, <2>1, <2>2 DEF Anim!ClockRuns
<1>4. CASE a \notin Clocked
  <2>1. (Anim!Running \cap Clocked)' = Anim!Running \cap Clocked
    BY <1>2, <1>4
  <2>2. QED BY <1>4, <2>1 DEF Anim!ClockRuns
<1>5. QED BY <1>3, <1>4

LEMMA RunningLess ==
  ASSUME Finite, Anim!TypeOK, NEW a \in Animation, life[a] = "running",
         life' = [life EXCEPT ![a] = "ended"], Anim!ClockRuns,
         updating' = IF a \in Clocked THEN updating - 1 ELSE updating
  PROVE  Anim!ClockRuns'
<1>1. IsFiniteSet(Anim!Running \cap Clocked) /\ Anim!Cardinality(Anim!Running \cap Clocked) \in Nat
  BY FS_Subset, FS_CardinalityType, SameCardinality DEF Finite, Anim!Running
<1>2. Anim!Running' = Anim!Running \ {a} /\ a \in Anim!Running
  BY DEF Anim!Running, Anim!TypeOK
<1>3. CASE a \in Clocked
  <2>1. (Anim!Running \cap Clocked)' = (Anim!Running \cap Clocked) \ {a}
    BY <1>2, <1>3
  <2>2. Anim!Cardinality((Anim!Running \cap Clocked) \ {a}) =
          Anim!Cardinality(Anim!Running \cap Clocked) - 1
    BY <1>1, <1>2, <1>3, FS_RemoveElement, SameCardinality
  <2>3. QED BY <1>3, <2>1, <2>2 DEF Anim!ClockRuns
<1>4. CASE a \notin Clocked
  <2>1. (Anim!Running \cap Clocked)' = Anim!Running \cap Clocked
    BY <1>2, <1>4
  <2>2. QED BY <1>4, <2>1 DEF Anim!ClockRuns
<1>5. QED BY <1>3, <1>4

(* The first stop of an animation that runs ends it and lets the clock go. *)
LEMMA StoppingRight ==
  ASSUME Finite, Anim!TypeOK, Anim!ClockRuns, NEW a \in Animation, NEW by, Anim!Stopping(a, by)
  PROVE  /\ Anim!ClockRuns'
         /\ life' \in [Animation -> {"none", "made", "running", "ended"}]
         /\ stop_called' \in [Animation -> BOOLEAN]
         /\ \A b \in Animation : b # a => life'[b] = life[b]
<1>1. CASE ~stop_called[a] /\ life[a] = "running"
  <2>1. /\ life' = [life EXCEPT ![a] = "ended"]
        /\ updating' = IF a \in Clocked THEN updating - 1 ELSE updating
    BY <1>1 DEF Anim!Stopping
  <2>2. QED BY <1>1, <2>1, RunningLess DEF Anim!TypeOK, Anim!Stopping
<1>2. CASE ~(~stop_called[a] /\ life[a] = "running")
  <2>1. life' = life /\ updating' = updating
    BY <1>2 DEF Anim!Stopping, Anim!TypeOK
  <2>2. Anim!ClockRuns'
    <3>1. Anim!Running' = Anim!Running
      BY <2>1 DEF Anim!Running
    <3>2. QED BY <2>1, <3>1 DEF Anim!ClockRuns
  <2>3. stop_called' \in [Animation -> BOOLEAN]
    BY DEF Anim!TypeOK, Anim!Stopping
  <2>4. QED BY <2>1, <2>2, <2>3 DEF Anim!TypeOK
<1>3. QED BY <1>1, <1>2

LEMMA OffsetType ==
  ASSUME Finite, Anim!TypeOK, NEW a \in Animation, NEW k \in Nat
  PROVE  Anim!Offset(a, k) \in 0..Duration[a]
BY DEF Finite, Anim!TypeOK, Anim!Offset

LEMMA HandleRight ==
  ASSUME Finite, ClockIInv, NEW a \in Animation, NEW offset \in 0..Duration[a], NEW stops \in BOOLEAN,
         Anim!Handle(a, offset, stops), ticking = None
  PROVE  /\ Anim!ClockRuns'
         /\ life' \in [Animation -> {"none", "made", "running", "ended"}]
         /\ stop_called' \in [Animation -> BOOLEAN]
         /\ \A b \in Animation : b # a => life'[b] = life[b]
         /\ ticking' # None => /\ ticking'.a = a /\ ticking'.offset = offset
                               /\ ticking'.left \subseteq DOMAIN EndValue[a]
<1>1. CASE UNCHANGED <<life, stop_called, begin, updating, ended>>
  <2>1. Anim!ClockRuns'
    <3>1. Anim!Running' = Anim!Running
      BY <1>1 DEF Anim!Running
    <3>2. QED BY <1>1, <3>1 DEF ClockIInv, Anim!ClockRuns
  <2>2. ticking' # None => /\ ticking'.a = a /\ ticking'.offset = offset
                           /\ ticking'.left \subseteq DOMAIN EndValue[a]
    <3>1. CASE ticking' = [a |-> a, offset |-> offset, left |-> DOMAIN EndValue[a], stops |-> stops]
      BY <3>1
    <3>2. QED BY <3>1 DEF Anim!Handle
  <2>3. QED BY <1>1, <2>1, <2>2 DEF ClockIInv, Anim!TypeOK
<1>2. CASE Anim!Stopping(a, "by itself") /\ UNCHANGED ticking
  BY <1>2, StoppingRight DEF ClockIInv
<1>3. QED BY <1>1, <1>2 DEF Anim!Handle

LEMMA ClockStep == ASSUME Finite, ClockIInv, [Anim!Next]_(Anim!vars) PROVE ClockIInv'
<1> USE DEF ClockIInv
<1>0. /\ life \in [Animation -> {"none", "made", "running", "ended"}]
      /\ stop_called \in [Animation -> BOOLEAN]
      /\ due \subseteq Anim!Running \cap Clocked /\ (phase = "idle" => due = {})
  BY DEF Anim!TypeOK
<1>1. CASE UNCHANGED Anim!vars
  BY <1>1 DEF Anim!TypeOK, Ticking, Anim!ClockRuns, Anim!Running, Anim!vars
<1>2. ASSUME NEW a \in Animation, Anim!New(a) PROVE ClockIInv'
  <2>1. Anim!Running' = Anim!Running
    BY <1>0, <1>2 DEF Anim!New, Anim!Running
  <2>2. QED BY <1>0, <1>2, <2>1 DEF Anim!New, Anim!TypeOK, Ticking, Anim!ClockRuns
<1>3. ASSUME NEW a \in Animation, Anim!Finalize(a) PROVE ClockIInv'
  <2>1. Anim!Running' = Anim!Running
    BY <1>0, <1>3 DEF Anim!Finalize, Anim!Running
  <2>2. \A b \in Animation : last_offset'[b] \in -1..Duration[b] /\ elapsed'[b] \in 0..Duration[b]
    BY <1>3 DEF Anim!Finalize, Anim!TypeOK, Finite
  <2>3. QED BY <1>0, <1>3, <2>1, <2>2 DEF Anim!Finalize, Anim!TypeOK, Ticking, Anim!ClockRuns
<1>4. ASSUME NEW a \in Animation, Anim!Start(a) PROVE ClockIInv'
  <2>1. Anim!ClockRuns'
    BY <1>4, RunningMore DEF Anim!Start
  <2>2. Anim!Running \subseteq Anim!Running'
    BY <1>0, <1>4 DEF Anim!Start, Anim!Running
  <2>3. \A b \in Animation : last_offset'[b] \in -1..Duration[b] /\ elapsed'[b] \in 0..Duration[b]
    BY <1>4 DEF Anim!Start, Anim!TypeOK, Finite
  <2>4. QED BY <1>0, <1>4, <2>1, <2>2, <2>3 DEF Anim!Start, Anim!TypeOK, Ticking
<1>5. ASSUME NEW a \in Animation, Anim!Stop(a) PROVE ClockIInv'
  <2>1. /\ Anim!ClockRuns' /\ life' \in [Animation -> {"none", "made", "running", "ended"}]
        /\ stop_called' \in [Animation -> BOOLEAN]
    BY <1>5, StoppingRight DEF Anim!Stop
  <2>2. due' \subseteq due /\ due' \subseteq Anim!Running' \cap Clocked
    BY <1>0, <1>5 DEF Anim!Stop, Anim!Running
  <2>3. QED BY <1>0, <1>5, <2>1, <2>2 DEF Anim!Stop, Anim!TypeOK, Ticking
<1>6. ASSUME NEW k \in 1..2, Anim!Frame(k) PROVE ClockIInv'
  <2>1. \A b \in Animation : elapsed'[b] \in 0..Duration[b]
    BY <1>6, OffsetType DEF Anim!Frame, Anim!TypeOK
  <2>2. QED BY <1>0, <1>6, <2>1 DEF Anim!Frame, Anim!TypeOK, Ticking, Anim!ClockRuns, Anim!Running
<1>7. CASE Anim!NextPhase
  BY <1>0, <1>7 DEF Anim!NextPhase, Anim!TypeOK, Ticking, Anim!ClockRuns, Anim!Running
<1>8. ASSUME NEW a \in Animation, Anim!WidgetTick(a) \/ \E k \in 0..2 : Anim!WidgetAfterPaint(a, k)
      PROVE  ClockIInv'
  <2>1. PICK offset \in 0..Duration[a], stops \in BOOLEAN :
          /\ Anim!Handle(a, offset, stops) /\ ticking = None /\ due' = due \ {a} /\ phase # "idle"
          /\ UNCHANGED <<last_offset, elapsed, value, phase, wrote>>
    <3>1. Anim!Offset(a, 0) \in 0..Duration[a] /\ \A k \in 0..2 : Anim!Offset(a, k) \in 0..Duration[a]
      BY OffsetType
    <3>2. CASE Anim!WidgetTick(a)
      BY <3>1, <3>2 DEF Anim!WidgetTick
    <3>3. CASE \E k \in 0..2 : Anim!WidgetAfterPaint(a, k)
      BY <3>1, <3>3 DEF Anim!WidgetAfterPaint
    <3>4. QED BY <1>8, <3>2, <3>3
  <2>2. /\ Anim!ClockRuns'
        /\ life' \in [Animation -> {"none", "made", "running", "ended"}]
        /\ stop_called' \in [Animation -> BOOLEAN]
        /\ \A b \in Animation : b # a => life'[b] = life[b]
        /\ ticking' # None => /\ ticking'.a = a /\ ticking'.offset = offset
                              /\ ticking'.left \subseteq DOMAIN EndValue[a]
    BY <2>1, HandleRight
  <2>3. due' \subseteq Anim!Running' \cap Clocked
    BY <1>0, <2>1, <2>2 DEF Anim!Running
  <2>4. QED BY <1>0, <2>1, <2>2, <2>3 DEF Anim!TypeOK, Ticking
<1>9. ASSUME NEW a \in Animation, NEW k \in 1..2, Anim!Timeout(a, k) PROVE ClockIInv'
  <2>1. /\ Anim!Handle(a, Anim!Offset(a, k), TRUE) /\ ticking = None /\ due = {} /\ a \in Anim!Running
        /\ Anim!Offset(a, k) \in 0..Duration[a] /\ elapsed' = [elapsed EXCEPT ![a] = Anim!Offset(a, k)]
        /\ UNCHANGED <<last_offset, value, phase, due, wrote>>
    <3>1. Anim!Offset(a, k) \in 0..Duration[a]
      BY OffsetType
    <3>2. QED BY <1>0, <1>9, <3>1 DEF Anim!Timeout
  <2>2. /\ Anim!ClockRuns'
        /\ life' \in [Animation -> {"none", "made", "running", "ended"}]
        /\ stop_called' \in [Animation -> BOOLEAN]
        /\ ticking' # None => /\ ticking'.a = a /\ ticking'.offset = Anim!Offset(a, k)
                              /\ ticking'.left \subseteq DOMAIN EndValue[a]
    BY <2>1, HandleRight
  <2>3. elapsed' \in [Animation -> Nat] /\ \A b \in Animation : elapsed'[b] \in 0..Duration[b]
    <3>1. Anim!Offset(a, k) \in Nat
      BY <2>1 DEF Finite
    <3>2. QED BY <2>1, <3>1 DEF Anim!TypeOK
  <2>4. QED BY <1>0, <2>1, <2>2, <2>3 DEF Anim!TypeOK, Ticking
<1>10. ASSUME NEW p \in Anim!Property, Anim!SetProperty(p) PROVE ClockIInv'
  <2>1. /\ ticking # None /\ ticking' = [ticking EXCEPT !.left = @ \ {p}]
        /\ UNCHANGED <<life, stop_called, last_offset, elapsed, updating, phase, due>>
    BY <1>10 DEF Anim!SetProperty
  <2>2. Anim!Running' = Anim!Running /\ Anim!ClockRuns'
    BY <2>1 DEF Anim!Running, Anim!ClockRuns
  <2>3. Ticking' /\ ticking'.left \subseteq DOMAIN EndValue[ticking'.a]
    BY <2>1 DEF Ticking, Anim!TypeOK
  <2>4. QED BY <2>1, <2>2, <2>3 DEF Anim!TypeOK
<1>11. CASE Anim!TickEnds
  <2> PICK a \in Animation : a = ticking.a /\ a \notin due /\ ticking.offset \in 0..Duration[a]
    BY <1>11 DEF Anim!TickEnds, Ticking
  <2>1. /\ Anim!ClockRuns' /\ life' \in [Animation -> {"none", "made", "running", "ended"}]
        /\ stop_called' \in [Animation -> BOOLEAN]
        /\ \A b \in Animation : b # a => life'[b] = life[b]
    <3>1. CASE Anim!Stopping(a, "by itself")
      BY <3>1, StoppingRight
    <3>2. CASE UNCHANGED <<life, stop_called, begin, updating, ended>>
      BY <1>0, <3>2 DEF Anim!ClockRuns, Anim!Running
    <3>3. QED BY <1>11, <3>1, <3>2 DEF Anim!TickEnds
  <2>2. due' \subseteq Anim!Running' \cap Clocked
    BY <1>0, <1>11, <2>1 DEF Anim!Running, Anim!TickEnds
  <2>3. /\ last_offset' \in [Animation -> Int]
        /\ \A b \in Animation : last_offset'[b] \in -1..Duration[b]
    <3> PICK n \in Int : n = ticking.offset /\ n \in -1..Duration[a]
      BY DEF Finite
    <3>1. last_offset' = [last_offset EXCEPT ![a] = n]
      BY <1>11 DEF Anim!TickEnds
    <3>2. QED BY <3>1 DEF Anim!TypeOK
  <2>4. QED BY <1>0, <1>11, <2>1, <2>2, <2>3 DEF Anim!TickEnds, Anim!TypeOK, Ticking
<1>12. QED BY <1>1, <1>2, <1>3, <1>4, <1>5, <1>6, <1>7, <1>8, <1>9, <1>10, <1>11 DEF Anim!Next, Anim!Tick

LEMMA ClockInit == ASSUME Finite, Anim!Init PROVE ClockIInv
<1>1. Anim!Running = {} /\ Anim!Cardinality({}) = 0
  BY FS_EmptySet, SameCardinality DEF Anim!Init, Anim!Running
<1>2. QED BY <1>1 DEF Anim!Init, Finite, ClockIInv, Anim!TypeOK, Ticking, Anim!ClockRuns

(* Begins and ends of updates of the frame clock balance: it goes on as    *)
(* long as an animation needs it and no longer, also if callers stop       *)
(* animations that have not started, and start those that have ended.      *)
THEOREM ClockIsBalanced == ASSUME Finite PROVE Anim!Spec => [](Anim!TypeOK /\ Anim!ClockRuns)
<1>1. Anim!Init => ClockIInv
  BY ClockInit
<1>2. ClockIInv /\ [Anim!Next]_(Anim!vars) => ClockIInv'
  BY ClockStep
<1>3. ClockIInv => Anim!TypeOK /\ Anim!ClockRuns
  BY DEF ClockIInv
<1>4. QED BY <1>1, <1>2, <1>3, PTL DEF Anim!Spec

-----------------------------------------------------------------------------
(* How much of the way is gone: some of it, and all at the end.            *)
LEMMA AlphaRight ==
  ASSUME NEW m \in Anim!Modes, NEW d \in Nat, NEW n \in 0..d
  PROVE  \E u \in Int, v \in Nat \ {0} :
           Anim!Alpha(m, n, d) = <<u, v>> /\ 0 <= u /\ u <= v /\ (n = d => u = v)
<1>1. CASE d = 0
  <2>1. Anim!Alpha(m, n, d) = <<1, 1>>
    BY <1>1 DEF Anim!Alpha
  <2>2. QED BY <2>1
<1>2. CASE d > 0
  <2>1. /\ d \in Nat \ {0} /\ n \in Nat /\ n <= d /\ d # 0
        /\ d * d \in Nat \ {0} /\ d * d * d \in Nat \ {0}
        /\ 2 * d * d \in Nat \ {0}
    BY <1>2
  <2>2. CASE m = "linear"
    <3>1. Anim!Alpha(m, n, d) = <<n, d>>
      BY <2>1, <2>2, <1>2 DEF Anim!Alpha
    <3>2. QED BY <2>1, <3>1
  <2>3. CASE m = "ease-in-quad"
    <3>1. Anim!Alpha(m, n, d) = <<n * n, d * d>>
      BY <2>1, <2>3, <1>2 DEF Anim!Alpha
    <3>2. n * n \in Int /\ 0 <= n * n /\ n * n <= d * d
      BY <2>1
    <3>3. QED BY <2>1, <3>1, <3>2
  <2>4. CASE m = "ease-out-quad"
    <3>1. Anim!Alpha(m, n, d) = <<n * (2 * d - n), d * d>>
      BY <2>1, <2>4, <1>2 DEF Anim!Alpha
    <3>2. /\ n * (2 * d - n) \in Int /\ 0 <= n * (2 * d - n) /\ n * (2 * d - n) <= d * d
          /\ n = d => n * (2 * d - n) = d * d
      BY <2>1
    <3>3. QED BY <2>1, <3>1, <3>2
  <2>5. CASE m = "ease-in-out-quad"
    <3>1. CASE 2 * n < d
      <4>1. Anim!Alpha(m, n, d) = <<4 * n * n, 2 * d * d>>
        BY <2>1, <2>5, <1>2, <3>1 DEF Anim!Alpha
      <4>2. 4 * n * n \in Int /\ 0 <= 4 * n * n /\ 4 * n * n <= 2 * d * d /\ n # d
        BY <2>1, <3>1
      <4>3. QED BY <2>1, <4>1, <4>2
    <3>2. CASE ~(2 * n < d)
      <4> DEFINE u == d * d - (2 * n - d) * (2 * n - 3 * d)
      <4>1. Anim!Alpha(m, n, d) = <<u, 2 * d * d>>
        BY <2>1, <2>5, <1>2, <3>2 DEF Anim!Alpha
      <4>2. u \in Int /\ 0 <= u /\ u <= 2 * d * d /\ (n = d => u = 2 * d * d)
        BY <2>1, <3>2
      <4> HIDE DEF u
      <4>3. QED BY <2>1, <4>1, <4>2
    <3>3. QED BY <3>1, <3>2
  <2>6. CASE m = "ease-in-cubic"
    <3>1. Anim!Alpha(m, n, d) = <<n * n * n, d * d * d>>
      BY <2>1, <2>6, <1>2 DEF Anim!Alpha
    <3>2. n * n * n \in Int /\ 0 <= n * n * n /\ n * n * n <= d * d * d
      BY <2>1
    <3>3. QED BY <2>1, <3>1, <3>2
  <2>7. CASE m = "ease-out-cubic"
    <3> DEFINE u == (n - d) * (n - d) * (n - d) + d * d * d
    <3>1. Anim!Alpha(m, n, d) = <<u, d * d * d>>
      BY <2>1, <2>7, <1>2 DEF Anim!Alpha
    <3>2. u \in Int /\ 0 <= u /\ u <= d * d * d /\ (n = d => u = d * d * d)
      BY <2>1
    <3> HIDE DEF u
    <3>3. QED BY <2>1, <3>1, <3>2
  <2>8. CASE m = "ease-in-out-cubic"
    <3>1. CASE 2 * n < d
      <4> DEFINE u == 4 * n * n * n
      <4>1. Anim!Alpha(m, n, d) = <<u, d * d * d>>
        BY <2>1, <2>8, <1>2, <3>1 DEF Anim!Alpha
      <4>2. u \in Int /\ 0 <= u /\ u <= d * d * d /\ n # d
        BY <2>1, <3>1
      <4> HIDE DEF u
      <4>3. QED BY <2>1, <4>1, <4>2
    <3>2. CASE ~(2 * n < d)
      <4> DEFINE u == 4 * (n - d) * (n - d) * (n - d) + d * d * d
      <4>1. Anim!Alpha(m, n, d) = <<u, d * d * d>>
        BY <2>1, <2>8, <1>2, <3>2 DEF Anim!Alpha
      <4>2. u \in Int /\ 0 <= u /\ u <= d * d * d /\ (n = d => u = d * d * d)
        BY <2>1, <3>2
      <4> HIDE DEF u
      <4>3. QED BY <2>1, <4>1, <4>2
    <3>3. QED BY <3>1, <3>2
  <2>9. QED BY <2>2, <2>3, <2>4, <2>5, <2>6, <2>7, <2>8 DEF Anim!Modes
<1>3. QED BY <1>1, <1>2

Between(n, x, y) == n \in x..y \/ n \in y..x

PartWay(x, y, u, v) == (x * v + (y - x) * u) \div v

(* As much of the way from x to y: between the two, and at the end y.      *)
LEMMA PartOfTheWay ==
  ASSUME NEW x \in Int, NEW y \in Int, NEW v \in Nat \ {0}, NEW u \in Int, 0 <= u, u <= v
  PROVE  /\ PartWay(x, y, u, v) \in Int /\ Between(PartWay(x, y, u, v), x, y)
         /\ u = v => PartWay(x, y, u, v) = y
<1> DEFINE mid == (x * v + (y - x) * u) \div v
<1>1. mid \in Int /\ (x <= y => mid \in x..y) /\ (y <= x => mid \in y..x) /\ (u = v => mid = y)
  OBVIOUS
<1> HIDE DEF mid
<1>2. x <= y \/ y <= x
  OBVIOUS
<1>3. PartWay(x, y, u, v) = mid
  BY DEF PartWay, mid
<1>4. QED BY <1>1, <1>2, <1>3 DEF Between

LEMMA TweenRight ==
  ASSUME NEW m \in Anim!Modes, NEW d \in Nat, NEW n \in 0..d, NEW p, NEW x \in Int, NEW y \in Int,
         p \in Unsigned => 0 <= x /\ x <= y /\ Width \in Nat /\ y < Width,
         NEW new \in Anim!Tween(p, x, y, Anim!Alpha(m, n, d))
  PROVE  new \in Int /\ Between(new, x, y) /\ (n = d => new = y)
<1>1. PICK u \in Int, v \in Nat \ {0} :
        Anim!Alpha(m, n, d) = <<u, v>> /\ 0 <= u /\ u <= v /\ (n = d => u = v)
  BY AlphaRight
<1>2. Anim!Alpha(m, n, d)[1] = u /\ Anim!Alpha(m, n, d)[2] = v
  BY <1>1
<1> PICK mid : mid = PartWay(x, y, u, v)
  OBVIOUS
<1>3. mid \in Int /\ Between(mid, x, y) /\ (u = v => mid = y)
  BY <1>1, PartOfTheWay
<1>4. CASE p \notin Unsigned
  <2>1. new = mid
    BY <1>2, <1>4 DEF Anim!Tween, PartWay
  <2>2. QED BY <1>1, <1>3, <2>1
<1>5. CASE p \in Unsigned
  <2>1. (y - x) % Width = y - x
    BY <1>5
  <2>2. ~(mid >= Width)
    BY <1>3, <1>5 DEF Between
  <2>3. new = mid
    BY <1>2, <1>5, <2>1, <2>2 DEF Anim!Tween, PartWay
  <2>4. QED BY <1>1, <1>3, <2>3
<1>6. QED BY <1>4, <1>5

-----------------------------------------------------------------------------
(* The numbers there are, and what is known of each animation.             *)
TicksFor(a) == ticking # None /\ ticking.a = a
There(a) == \A p \in DOMAIN EndValue[a] : wrote[a][p] = EndValue[a][p]
Up(p, n, end) == n \in Int /\ (p \in Unsigned => 0 <= n /\ n <= end)

Shapes ==
  /\ DOMAIN value = Anim!Property /\ DOMAIN begin = Animation
  /\ DOMAIN ended = Animation /\ DOMAIN wrote = Animation
  /\ \A a \in Animation : DOMAIN wrote[a] = DOMAIN EndValue[a]
  /\ ticking # None => ticking \in Call
Numbers ==
  /\ \A p \in Anim!Property : value[p] \in Int
  /\ \A a \in Animation : \A p \in DOMAIN EndValue[a] :
       Up(p, value[p], EndValue[a][p]) /\ Up(p, begin[a][p], EndValue[a][p])
OnTheWay(a) ==
  life[a] = "running" =>
    \A p \in DOMAIN EndValue[a] :
      wrote[a][p] # None => Between(wrote[a][p], begin[a][p], EndValue[a][p])
Fresh(a) ==
  life[a] \in {"none", "made"} =>
    /\ last_offset[a] = -1 /\ ended[a] = "no" /\ ~TicksFor(a)
    /\ \A p \in DOMAIN EndValue[a] : wrote[a][p] = None
Come(a) == ended[a] = "by itself" => There(a) /\ ~TicksFor(a) /\ life[a] = "ended"
Last(a) == last_offset[a] = Duration[a] /\ ~TicksFor(a) => There(a)
Left(a) ==
  TicksFor(a) /\ ticking.offset = Duration[a] =>
    \A p \in DOMAIN EndValue[a] \ ticking.left : wrote[a][p] = EndValue[a][p]
Right(a) == OnTheWay(a) /\ Fresh(a) /\ Come(a) /\ Last(a) /\ Left(a)

ArriveIInv == ClockIInv /\ Shapes /\ Numbers /\ \A a \in Animation : Right(a)

LEMMA ArriveInit == ASSUME Finite, WellUsed, Anim!Init PROVE ArriveIInv
<1>1. ClockIInv
  BY ClockInit
<1>2. \A a \in Animation : \A p \in DOMAIN EndValue[a] : p \in Anim!Property
  BY DEF Anim!Property
<1>3. Shapes
  BY <1>2 DEF Anim!Init, Shapes, Anim!Of, Anim!Nothing, Anim!Zero
<1>4. \A a \in Animation : \A p \in DOMAIN EndValue[a] :
        Up(p, 0, EndValue[a][p]) /\ value[p] = 0 /\ begin[a][p] = 0 /\ wrote[a][p] = None
  BY <1>2 DEF Anim!Init, Anim!Of, Anim!Nothing, Anim!Zero, Up, WellUsed
<1>5. Numbers
  BY <1>4 DEF Numbers, Anim!Init, Anim!Zero, Up
<1>6. ASSUME NEW a \in Animation PROVE Right(a)
  <2>1. life[a] = "none" /\ ended[a] = "no" /\ last_offset[a] = -1 /\ ticking = None
    BY DEF Anim!Init
  <2>2. last_offset[a] # Duration[a]
    BY <2>1 DEF Finite
  <2>3. QED BY <1>4, <2>1, <2>2 DEF Right, OnTheWay, Fresh, Come, Last, Left, TicksFor
<1>7. QED BY <1>1, <1>3, <1>5, <1>6 DEF ArriveIInv

(* An animation to which nothing happens.                                  *)
Same(a) ==
  /\ life'[a] = life[a] /\ last_offset'[a] = last_offset[a] /\ ended'[a] = ended[a]
  /\ wrote'[a] = wrote[a] /\ begin'[a] = begin[a]

LEMMA SameStaysRight ==
  ASSUME NEW a \in Animation, Right(a), Same(a),
         ticking' = ticking \/ (~TicksFor(a) /\ ~TicksFor(a)')
  PROVE  Right(a)'
BY DEF Right, Same, OnTheWay, Fresh, Come, Last, Left, TicksFor, There

LEMMA StoppingKeeps ==
  ASSUME Finite, WellUsed, ArriveIInv, NEW a \in Animation, NEW by, Anim!Stopping(a, by)
  PROVE  /\ DOMAIN begin' = Animation /\ DOMAIN ended' = Animation
         /\ \A b \in Animation : b # a \/ life[a] # "running" =>
              life'[b] = life[b] /\ begin'[b] = begin[b] /\ ended'[b] = ended[b]
         /\ \/ life'[a] = life[a] /\ begin'[a] = begin[a] /\ ended'[a] = ended[a]
            \/ life[a] = "running" /\ life'[a] = "ended" /\ ended'[a] = by
         /\ \A b \in Animation : \A p \in DOMAIN EndValue[b] :
              Up(p, begin'[b][p], EndValue[b][p])
<1>1. DOMAIN begin = Animation /\ DOMAIN ended = Animation /\ DOMAIN life = Animation
  BY DEF ArriveIInv, Shapes, ClockIInv, Anim!TypeOK
<1>2. \A b \in Animation : \A p \in DOMAIN EndValue[b] : Up(p, begin[b][p], EndValue[b][p])
  BY DEF ArriveIInv, Numbers
<1>3. CASE ~stop_called[a] /\ life[a] = "running"
  <2>1. /\ life' = [life EXCEPT ![a] = "ended"] /\ ended' = [ended EXCEPT ![a] = by]
        /\ begin' = [begin EXCEPT ![a] = Anim!Of(a, Anim!Zero)]
    BY <1>3 DEF Anim!Stopping
  <2>2. \A p \in DOMAIN EndValue[a] : Up(p, Anim!Of(a, Anim!Zero)[p], EndValue[a][p])
    BY DEF Anim!Of, Anim!Zero, Up, Anim!Property, WellUsed
  <2>3. QED BY <1>1, <1>2, <1>3, <2>1, <2>2
<1>4. CASE ~(~stop_called[a] /\ life[a] = "running")
  <2>1. /\ \A b \in Animation : life'[b] = life[b] /\ begin'[b] = begin[b] /\ ended'[b] = ended[b]
        /\ DOMAIN begin' = Animation /\ DOMAIN ended' = Animation
    BY <1>1, <1>4 DEF Anim!Stopping
  <2>2. QED BY <1>2, <2>1
<1>5. QED BY <1>3, <1>4

(* dzl_animation_stop, of an animation that has come if it is not a caller *)
(* who calls it.                                                           *)
LEMMA StoppingIsRight ==
  ASSUME Finite, WellUsed, ArriveIInv, NEW a \in Animation, NEW by, Anim!Stopping(a, by),
         UNCHANGED <<last_offset, value, ticking, wrote>>,
         by = "by itself" => There(a) /\ ~TicksFor(a)
  PROVE  Shapes' /\ Numbers' /\ \A b \in Animation : Right(b)'
<1>1. Shapes' /\ Numbers'
  BY StoppingKeeps DEF ArriveIInv, Shapes, Numbers
<1>2. ASSUME NEW b \in Animation PROVE Right(b)'
  <2>1. Right(b)
    BY DEF ArriveIInv
  <2>2. CASE Same(b)
    BY <2>1, <2>2, SameStaysRight
  <2>3. CASE ~Same(b)
    <3>1. b = a /\ life[a] = "running" /\ life'[a] = "ended" /\ ended'[a] = by
      BY <2>3, StoppingKeeps DEF Same
    <3>2. Come(a)'
      BY <3>1 DEF Come, There, TicksFor
    <3>3. QED BY <2>1, <3>1, <3>2 DEF Right, OnTheWay, Fresh, Last, Left, There, TicksFor
  <2>4. QED BY <2>2, <2>3
<1>3. QED BY <1>1, <1>2

LEMMA HandleIsRight ==
  ASSUME Finite, WellUsed, ArriveIInv, NEW a \in Animation, NEW offset, NEW stops,
         Anim!Handle(a, offset, stops), life[a] = "running", ticking = None,
         offset \in Nat, stops \in BOOLEAN, UNCHANGED <<last_offset, value, wrote>>
  PROVE  Shapes' /\ Numbers' /\ \A b \in Animation : Right(b)'
<1>1. CASE offset # last_offset[a]
  <2>1. /\ ticking' = [a |-> a, offset |-> offset, left |-> DOMAIN EndValue[a], stops |-> stops]
        /\ UNCHANGED <<life, stop_called, begin, updating, ended>>
    BY <1>1 DEF Anim!Handle
  <2>2. ticking' \in Call /\ ticking' # None /\ ticking'.a = a /\ ticking'.left = DOMAIN EndValue[a]
    BY <2>1 DEF Call, Anim!Property, WellUsed
  <2>3. Shapes' /\ Numbers'
    BY <2>1, <2>2 DEF ArriveIInv, Shapes, Numbers
  <2>4. ASSUME NEW b \in Animation PROVE Right(b)'
    <3>1. Right(b) /\ Same(b) /\ ~TicksFor(b)
      BY <2>1 DEF ArriveIInv, Same, TicksFor
    <3>2. CASE b # a
      BY <2>2, <3>1, <3>2, SameStaysRight DEF TicksFor
    <3>3. CASE b = a
      BY <2>1, <2>2, <3>1, <3>3 DEF Right, Same, OnTheWay, Fresh, Come, Last, Left, TicksFor
    <3>4. QED BY <3>2, <3>3
  <2>5. QED BY <2>3, <2>4
<1>2. CASE offset = last_offset[a] /\ stops /\ offset = Duration[a]
  <2>1. Anim!Stopping(a, "by itself") /\ UNCHANGED ticking
    BY <1>2 DEF Anim!Handle
  <2>2. There(a) /\ ~TicksFor(a)
    BY <1>2 DEF ArriveIInv, Right, Last, TicksFor
  <2>3. QED BY <2>1, <2>2, StoppingIsRight
<1>3. CASE offset = last_offset[a] /\ ~(stops /\ offset = Duration[a])
  <2>1. UNCHANGED <<life, begin, ended, ticking>>
    BY <1>3 DEF Anim!Handle
  <2>2. QED BY <2>1, SameStaysRight DEF Same, ArriveIInv, Shapes, Numbers
<1>4. QED BY <1>1, <1>2, <1>3

LEMMA SetPropertyIsRight ==
  ASSUME Finite, WellUsed, ArriveIInv, NEW p \in Anim!Property, Anim!SetProperty(p)
  PROVE  Shapes' /\ Numbers' /\ \A b \in Animation : Right(b)'
<1> PICK a \in Animation :
      ticking # None /\ ticking.a = a /\ p \in DOMAIN EndValue[a] /\ p \in ticking.left
      /\ ticking.offset \in 0..Duration[a]
  BY DEF ArriveIInv, ClockIInv, Anim!TypeOK, Ticking, Anim!SetProperty
<1> PICK new \in Anim!Tween(p, begin[a][p], EndValue[a][p],
                       Anim!Alpha(mode[a], ticking.offset, Duration[a])) :
      value' = [value EXCEPT ![p] = new] /\ wrote' = [wrote EXCEPT ![a][p] = new]
  BY DEF Anim!SetProperty
<1>1. /\ ticking' = [ticking EXCEPT !.left = @ \ {p}]
      /\ UNCHANGED <<life, last_offset, begin, ended>>
  BY DEF Anim!SetProperty
<1>2. ticking' \in Call /\ ticking' # None
  BY <1>1 DEF ArriveIInv, Shapes, Call, WellUsed
<1>3. ticking' # None => /\ ticking'.a = a /\ ticking'.offset = ticking.offset
                         /\ ticking'.left = ticking.left \ {p}
  BY <1>1
<1>4. EndValue[a][p] \in Int /\ mode[a] \in Anim!Modes /\ Duration[a] \in Nat
  BY DEF WellUsed, Finite
<1>5. Up(p, begin[a][p], EndValue[a][p])
  BY DEF ArriveIInv, Numbers
<1>6. p \in Unsigned => Width \in Nat /\ EndValue[a][p] < Width
  BY DEF WellUsed
<1>7. /\ new \in Int /\ Between(new, begin[a][p], EndValue[a][p])
      /\ ticking.offset = Duration[a] => new = EndValue[a][p]
  <2> DEFINE x == begin[a][p]
             y == EndValue[a][p]
             d == Duration[a]
             n == ticking.offset
             m == mode[a]
  <2>1. x \in Int /\ (p \in Unsigned => 0 <= x /\ x <= y /\ Width \in Nat /\ y < Width)
    BY <1>5, <1>6 DEF Up
  <2>2. y \in Int /\ m \in Anim!Modes /\ d \in Nat /\ n \in 0..d
        /\ new \in Anim!Tween(p, x, y, Anim!Alpha(m, n, d))
    BY <1>4
  <2> HIDE DEF x, y, d, n, m
  <2>3. new \in Int /\ Between(new, x, y) /\ (n = d => new = y)
    BY <2>1, <2>2, TweenRight
  <2>4. QED BY <2>3 DEF x, y, d, n
<1>8. Up(p, new, EndValue[a][p])
  BY <1>4, <1>5, <1>7 DEF Up, Between
<1>9. Shapes'
  BY <1>1, <1>2 DEF ArriveIInv, Shapes
<1>10. value'[p] = new /\ \A q \in Anim!Property : q # p => value'[q] = value[q]
  BY DEF ArriveIInv, Shapes
<1>11. /\ \A q \in DOMAIN EndValue[a] : wrote'[a][q] = IF q = p THEN new ELSE wrote[a][q]
       /\ \A b \in Animation : b # a => wrote'[b] = wrote[b]
  BY DEF ArriveIInv, Shapes
<1>12. Numbers'
  <2>1. \A q \in Anim!Property : value'[q] \in Int
    BY <1>7, <1>10 DEF ArriveIInv, Numbers
  <2>2. ASSUME NEW b \in Animation, NEW q \in DOMAIN EndValue[b]
        PROVE  Up(q, value'[q], EndValue[b][q])
    <3>1. q \in Anim!Property /\ Up(q, value[q], EndValue[b][q])
      BY DEF ArriveIInv, Numbers, Anim!Property
    <3>2. CASE q # p
      BY <1>10, <3>1, <3>2
    <3>3. CASE q = p /\ p \notin Unsigned
      BY <1>7, <1>10, <3>3 DEF Up
    <3>4. CASE q = p /\ p \in Unsigned
      <4>1. EndValue[b][p] = EndValue[a][p]
        BY <3>4 DEF WellUsed
      <4>2. QED BY <1>8, <1>10, <3>4, <4>1
    <3>5. QED BY <3>2, <3>3, <3>4
  <2>3. QED BY <1>1, <2>1, <2>2 DEF ArriveIInv, Numbers
<1>13. ASSUME NEW b \in Animation PROVE Right(b)'
  <2>1. Right(b)
    BY DEF ArriveIInv
  <2>2. CASE b # a
    <3>1. ~TicksFor(b) /\ ~TicksFor(b)'
      BY <1>3, <2>2 DEF TicksFor
    <3>2. QED BY <1>1, <1>11, <2>1, <2>2, <3>1, SameStaysRight DEF Same
  <2>3. CASE b = a
    <3>1. TicksFor(a) /\ ended[a] # "by itself" /\ life[a] \notin {"none", "made"}
      BY <2>1, <2>3 DEF Right, Come, Fresh, TicksFor
    <3>2. OnTheWay(a)'
      BY <1>1, <1>7, <1>11, <2>1, <2>3 DEF Right, OnTheWay
    <3>3. Fresh(a)' /\ Come(a)'
      BY <1>1, <3>1 DEF Fresh, Come
    <3>4. Left(a)'
      BY <1>3, <1>7, <1>11, <2>1, <2>3, <3>1 DEF Right, Left, TicksFor
    <3>5. Last(a)'
      BY <1>2, <1>3 DEF Last, TicksFor
    <3>6. QED BY <2>3, <3>2, <3>3, <3>4, <3>5 DEF Right
  <2>4. QED BY <2>2, <2>3
<1>14. QED BY <1>9, <1>12, <1>13

LEMMA ArriveStep == ASSUME Finite, WellUsed, ArriveIInv, [Anim!Next]_(Anim!vars) PROVE ArriveIInv'
<1>1. ClockIInv'
  BY ClockStep DEF ArriveIInv
<1> DEFINE Kept == Shapes' /\ Numbers' /\ \A b \in Animation : Right(b)'
<1>2. Shapes /\ Numbers /\ (\A b \in Animation : Right(b)) /\ DOMAIN life = Animation
      /\ DOMAIN last_offset = Animation
  BY DEF ArriveIInv, ClockIInv, Anim!TypeOK
<1>3. ASSUME UNCHANGED <<life, last_offset, begin, value, ticking, wrote, ended>> PROVE Kept
  BY <1>2, <1>3, SameStaysRight DEF Same, Shapes, Numbers
<1>4. ASSUME NEW a \in Animation, Anim!New(a) PROVE Kept
  <2>1. /\ life[a] = "none" /\ life' = [life EXCEPT ![a] = "made"]
        /\ UNCHANGED <<last_offset, begin, value, ticking, wrote, ended>>
    BY <1>4 DEF Anim!New
  <2>2. Shapes' /\ Numbers'
    BY <1>2, <2>1 DEF Shapes, Numbers
  <2>3. ASSUME NEW b \in Animation PROVE Right(b)'
    <3>1. CASE b # a
      BY <1>2, <2>1, <3>1, SameStaysRight DEF Same
    <3>2. CASE b = a
      BY <1>2, <2>1, <3>2 DEF Right, OnTheWay, Fresh, Come, Last, Left, There, TicksFor
    <3>3. QED BY <3>1, <3>2
  <2>4. QED BY <2>2, <2>3
<1>5. ASSUME NEW a \in Animation, Anim!Finalize(a) PROVE Kept
  <2>1. /\ life[a] \in {"made", "ended"} /\ ~TicksFor(a)
        /\ life' = [life EXCEPT ![a] = "none"] /\ last_offset' = [last_offset EXCEPT ![a] = -1]
        /\ wrote' = [wrote EXCEPT ![a] = Anim!Of(a, Anim!Nothing)] /\ ended' = [ended EXCEPT ![a] = "no"]
        /\ UNCHANGED <<begin, value, ticking>>
    BY <1>5 DEF Anim!Finalize, TicksFor
  <2>2. DOMAIN Anim!Of(a, Anim!Nothing) = DOMAIN EndValue[a]
        /\ \A p \in DOMAIN EndValue[a] : Anim!Of(a, Anim!Nothing)[p] = None
    BY DEF Anim!Of, Anim!Nothing, Anim!Property
  <2>3. Shapes' /\ Numbers'
    BY <1>2, <2>1, <2>2 DEF Shapes, Numbers
  <2>4. ASSUME NEW b \in Animation PROVE Right(b)'
    <3>1. CASE b # a
      BY <1>2, <2>1, <3>1, SameStaysRight DEF Same, Shapes
    <3>2. CASE b = a
      <4>1. /\ life'[a] = "none" /\ last_offset'[a] = -1 /\ ended'[a] = "no" /\ ~TicksFor(a)'
            /\ \A p \in DOMAIN EndValue[a] : wrote'[a][p] = None
        BY <1>2, <2>1, <2>2 DEF Shapes, TicksFor
      <4>2. last_offset'[a] # Duration[a]
        BY <4>1 DEF Finite
      <4>3. QED BY <3>2, <4>1, <4>2 DEF Right, OnTheWay, Fresh, Come, Last, Left
    <3>3. QED BY <3>1, <3>2
  <2>5. QED BY <2>3, <2>4
<1>6. ASSUME NEW a \in Animation, Anim!Start(a) PROVE Kept
  <2>1. /\ life[a] = "made" /\ life' = [life EXCEPT ![a] = "running"]
        /\ begin' = [begin EXCEPT ![a] = Anim!Of(a, value)] /\ ended' = [ended EXCEPT ![a] = "no"]
        /\ UNCHANGED <<last_offset, value, ticking, wrote>>
    BY <1>6 DEF Anim!Start, WellUsed
  <2>2. \A p \in DOMAIN EndValue[a] : Anim!Of(a, value)[p] = value[p]
    BY DEF Anim!Of
  <2>3. Shapes' /\ Numbers'
    BY <1>2, <2>1, <2>2 DEF Shapes, Numbers
  <2>4. ASSUME NEW b \in Animation PROVE Right(b)'
    <3>1. CASE b # a
      BY <1>2, <2>1, <3>1, SameStaysRight DEF Same, Shapes
    <3>2. CASE b = a
      <4>1. /\ life'[a] = "running" /\ last_offset'[a] = -1 /\ ended'[a] = "no" /\ ~TicksFor(a)'
            /\ \A p \in DOMAIN EndValue[a] : wrote'[a][p] = None
        BY <1>2, <2>1 DEF Shapes, TicksFor, Right, Fresh
      <4>2. last_offset'[a] # Duration[a]
        BY <4>1 DEF Finite
      <4>3. QED BY <3>2, <4>1, <4>2 DEF Right, OnTheWay, Fresh, Come, Last, Left
    <3>3. QED BY <3>1, <3>2
  <2>5. QED BY <2>3, <2>4
<1>7. ASSUME NEW a \in Animation, Anim!Stop(a) PROVE Kept
  BY <1>7, StoppingIsRight DEF Anim!Stop
<1>8. ASSUME NEW k, Anim!Frame(k) PROVE Kept
  BY <1>3, <1>8 DEF Anim!Frame
<1>9. ASSUME Anim!NextPhase PROVE Kept
  BY <1>3, <1>9 DEF Anim!NextPhase
<1>10. ASSUME NEW a \in Animation,
              \/ Anim!WidgetTick(a) \/ \E k \in 0..2 : Anim!WidgetAfterPaint(a, k)
              \/ \E k \in 1..2 : Anim!Timeout(a, k)
       PROVE  Kept
  <2>1. \E offset \in Nat, stops \in BOOLEAN :
          Anim!Handle(a, offset, stops) /\ UNCHANGED <<last_offset, value, wrote>> /\ ticking = None
    <3>1. \A k \in Nat : Anim!Offset(a, k) \in Nat
      BY OffsetType DEF Finite, ArriveIInv, ClockIInv
    <3>2. CASE Anim!WidgetTick(a)
      BY <3>1, <3>2 DEF Anim!WidgetTick
    <3>3. CASE \E k \in 0..2 : Anim!WidgetAfterPaint(a, k)
      <4> PICK k \in 0..2 : Anim!WidgetAfterPaint(a, k)
        BY <3>3
      <4>1. Anim!Offset(a, k) \in Nat
        BY <3>1
      <4>2. /\ Anim!Handle(a, Anim!Offset(a, k), FALSE) /\ ticking = None
            /\ UNCHANGED <<last_offset, value, wrote>>
        BY DEF Anim!WidgetAfterPaint
      <4>3. QED BY <4>1, <4>2
    <3>4. CASE \E k \in 1..2 : Anim!Timeout(a, k)
      <4> PICK k \in 1..2 : Anim!Timeout(a, k)
        BY <3>4
      <4>1. Anim!Offset(a, k) \in Nat
        BY <3>1
      <4>2. /\ Anim!Handle(a, Anim!Offset(a, k), TRUE) /\ ticking = None
            /\ UNCHANGED <<last_offset, value, wrote>>
        BY DEF Anim!Timeout
      <4>3. QED BY <4>1, <4>2
    <3>5. QED BY <1>10, <3>2, <3>3, <3>4
  <2>2. life[a] = "running"
    BY <1>10 DEF ArriveIInv, ClockIInv, Anim!TypeOK, Anim!Running, Anim!WidgetTick,
                   Anim!WidgetAfterPaint, Anim!Timeout
  <2>3. QED BY <2>1, <2>2, HandleIsRight
<1>11. ASSUME NEW p \in Anim!Property, Anim!SetProperty(p) PROVE Kept
  BY <1>11, SetPropertyIsRight
<1>12. ASSUME Anim!TickEnds PROVE Kept
  <2> PICK a \in Animation : ticking # None /\ ticking.a = a
    BY <1>12 DEF Anim!TickEnds, ArriveIInv, ClockIInv, Ticking
  <2>1. /\ ticking' = None /\ last_offset' = [last_offset EXCEPT ![a] = ticking.offset]
        /\ ticking.left = {} /\ UNCHANGED <<value, wrote>>
    BY <1>12 DEF Anim!TickEnds
  <2>2. /\ ended[a] # "by itself" /\ life[a] \notin {"none", "made"}
        /\ ticking.offset = Duration[a] => There(a)
    BY <1>2, <2>1 DEF Right, Come, Fresh, Left, There, TicksFor
  <2>3. \/ life'[a] = life[a] /\ begin'[a] = begin[a] /\ ended'[a] = ended[a]
        \/ life'[a] = "ended" /\ ended'[a] = "by itself" /\ ticking.offset = Duration[a]
    BY <1>12, StoppingKeeps DEF Anim!TickEnds
  <2>4. \A b \in Animation : b # a =>
          life'[b] = life[b] /\ begin'[b] = begin[b] /\ ended'[b] = ended[b]
    BY <1>12, StoppingKeeps DEF Anim!TickEnds
  <2>5. Shapes' /\ Numbers'
    <3>1. /\ DOMAIN begin' = Animation /\ DOMAIN ended' = Animation
          /\ \A b \in Animation : \A p \in DOMAIN EndValue[b] :
               Up(p, begin'[b][p], EndValue[b][p])
      <4>1. CASE Anim!Stopping(a, "by itself")
        BY <4>1, StoppingKeeps
      <4>2. CASE UNCHANGED <<begin, ended>>
        BY <1>2, <4>2 DEF Shapes, Numbers
      <4>3. QED BY <1>12, <4>1, <4>2 DEF Anim!TickEnds
    <3>2. QED BY <1>2, <2>1, <3>1 DEF Shapes, Numbers
  <2>6. ASSUME NEW b \in Animation PROVE Right(b)'
    <3>1. CASE b # a
      <4>1. ~TicksFor(b) /\ ~TicksFor(b)' /\ Same(b)
        BY <1>2, <2>1, <2>4, <3>1 DEF TicksFor, Same
      <4>2. QED BY <1>2, <4>1, SameStaysRight
    <3>2. CASE b = a
      <4>1. last_offset'[a] = ticking.offset /\ ~TicksFor(a)'
        BY <1>2, <2>1 DEF TicksFor
      <4>2. OnTheWay(a)'
        BY <1>2, <2>1, <2>3 DEF Right, OnTheWay
      <4>3. Fresh(a)' /\ Left(a)'
        BY <2>2, <2>3, <4>1 DEF Fresh, Left
      <4>4. Come(a)' /\ Last(a)'
        BY <2>1, <2>2, <2>3, <4>1 DEF Come, Last, There
      <4>5. QED BY <3>2, <4>2, <4>3, <4>4 DEF Right
    <3>3. QED BY <3>1, <3>2
  <2>7. QED BY <2>5, <2>6
<1>13. Kept
  BY <1>3, <1>4, <1>5, <1>6, <1>7, <1>8, <1>9, <1>10, <1>11, <1>12 DEF Anim!Next, Anim!Tick, Anim!vars
<1>14. QED BY <1>1, <1>13 DEF ArriveIInv

(* "They will be animated from their current value to the target value     *)
(* over the time period": whatever the frame clock predicts, whoever stops *)
(* which animation in which callback, and whatever animations share; but   *)
(* nobody stops one before it starts or starts one twice, and those that   *)
(* share an unsigned property agree on its end.                            *)
THEOREM AnimationsAlwaysArrive == ASSUME Finite, WellUsed PROVE Anim!Spec => []Anim!Arrives
<1>1. Anim!Init => ArriveIInv
  BY ArriveInit
<1>2. ArriveIInv /\ [Anim!Next]_(Anim!vars) => ArriveIInv'
  BY ArriveStep
<1>3. ArriveIInv => Anim!Arrives
  BY DEF ArriveIInv, Right, Come, There, OnTheWay, Between, Anim!Arrives
<1>4. QED BY <1>1, <1>2, <1>3, PTL DEF Anim!Spec

-----------------------------------------------------------------------------
(* The frame source, for any rate and however late the main loop is.       *)

(* No frame is shorter than a ms, and no time longer than a guint can say  *)
(* in frames: 19 hours, at 60 frames in a second.                          *)
InTime ==
  /\ Frames!ConstantsType /\ Fps <= Second
  /\ Frames!FrameTime <= MaxElapsed /\ Frames!FrameTime < Width \div 2
  /\ MaxElapsed * Fps + Second < Width

(* The frames that should have been by now.                                *)
NewFrame == (since_start * Fps) \div Second

(* As many frames as it is late can follow one another at once; a source   *)
(* that starts to count again is late by one.                              *)
Catching == burst = 0 \/ burst + (NewFrame - frame_count) <= 2
Late ==
  /\ at = "prepare" => frame_count <= NewFrame /\ Catching
  /\ at = "gone" => frame_count <= NewFrame
  /\ at = "poll" => frame_count = NewFrame /\ Catching /\ timeout \in 0..Frames!FrameTime
  /\ at = "dispatch" => frame_count < NewFrame /\ burst + (NewFrame - frame_count) <= 2
  /\ burst <= 2

FramesIInv == Frames!TypeOK /\ Late

LEMMA Quotient ==
  ASSUME NEW a \in Nat, NEW b \in Nat \ {0}
  PROVE  a \div b \in Nat /\ (a \div b) * b <= a /\ a < (a \div b) * b + b
OBVIOUS

LEMMA Product ==
  ASSUME NEW k \in Int, NEW m \in Int
  PROVE  k * m \in Int /\ (k + 1) * m = k * m + m
OBVIOUS

LEMMA ProductOrder ==
  ASSUME NEW k \in Int, NEW m \in Int, NEW b \in Nat \ {0}
  PROVE  k * b < m * b <=> k < m
OBVIOUS

LEMMA NoWrap == ASSUME NEW a \in Int, NEW w \in Nat, 0 <= a, a < w PROVE a % w = a
OBVIOUS

LEMMA FrameTimeIs ==
  ASSUME InTime
  PROVE  /\ Frames!FrameTime \in Nat \ {0} /\ Second <= Frames!FrameTime * Fps
         /\ Frames!FrameTime * Fps < Second + Second /\ Frames!FrameTime * Fps \in Nat
<1>1. /\ Fps \in Nat \ {0} /\ Second \in Nat \ {0} /\ Fps <= Second
      /\ Second + Fps - 1 \in Nat
  BY DEF InTime, Frames!ConstantsType
<1>2. /\ Frames!FrameTime \in Nat /\ Frames!FrameTime * Fps <= Second + Fps - 1
      /\ Second + Fps - 1 < Frames!FrameTime * Fps + Fps
  BY <1>1, Quotient DEF Frames!FrameTime
<1>3. Frames!FrameTime * Fps \in Int /\ 0 * Fps = 0
  BY <1>1, <1>2, Product
<1>4. Second <= Frames!FrameTime * Fps /\ Frames!FrameTime * Fps < Second + Second
  BY <1>1, <1>2, <1>3
<1>5. Frames!FrameTime # 0
  BY <1>1, <1>3, <1>4
<1>6. QED BY <1>1, <1>2, <1>3, <1>4, <1>5

(* The frame number, as the guints have it.                                *)
LEMMA NewFrameIs ==
  ASSUME InTime, NEW e \in 0..MaxElapsed
  PROVE  /\ e * Fps \in Nat /\ e * Fps + Second < Width /\ (e * Fps) % Width = e * Fps
         /\ (e * Fps) \div Second \in Nat
         /\ ((e * Fps) \div Second) * Second <= e * Fps
         /\ e * Fps < ((e * Fps) \div Second) * Second + Second
<1>1. /\ Fps \in Nat \ {0} /\ Second \in Nat \ {0} /\ Width \in Nat \ {0} /\ MaxElapsed \in Nat
      /\ e \in Nat /\ e <= MaxElapsed
  BY DEF InTime, Frames!ConstantsType
<1>2. e * Fps <= MaxElapsed * Fps /\ MaxElapsed * Fps \in Int /\ e * Fps \in Nat
  BY <1>1, ProductOrder, Product
<1>3. e * Fps + Second < Width
  BY <1>1, <1>2 DEF InTime
<1>4. (e * Fps) % Width = e * Fps
  BY <1>1, <1>2, <1>3, NoWrap
<1>5. QED BY <1>1, <1>2, <1>3, <1>4, Quotient

LEMMA Sleeps ==
  ASSUME InTime, NEW e \in 0..MaxElapsed, NEW n \in Nat, n = (e * Fps) \div Second
  PROVE  Frames!Signed(((((n + 1) * Second) % Width) \div Fps - e) % Width) \in 0..Frames!FrameTime
<1>1. /\ Fps \in Nat \ {0} /\ Second \in Nat \ {0} /\ Width \in Nat \ {0} /\ e \in Nat
  BY DEF InTime, Frames!ConstantsType
<1>2. /\ e * Fps \in Nat /\ e * Fps + Second < Width
      /\ n * Second <= e * Fps /\ e * Fps < n * Second + Second /\ n * Second \in Int
  BY <1>1, NewFrameIs, Product
<1>3. (n + 1) * Second = n * Second + Second
  BY <1>1, Product
<1> PICK t \in Nat : t = (n + 1) * Second
  BY <1>1, <1>2, <1>3
<1>4. e * Fps < t /\ t <= e * Fps + Second /\ t < Width
  BY <1>1, <1>2, <1>3
<1>5. t % Width = t
  BY <1>1, <1>4, NoWrap
<1> PICK q \in Nat : q = t \div Fps /\ q * Fps <= t /\ t < q * Fps + Fps
  BY <1>1, Quotient
<1>6. e <= q
  <2>1. e * Fps < (q + 1) * Fps
    BY <1>1, <1>2, <1>4, Product
  <2>2. e < q + 1
    BY <1>1, <2>1, ProductOrder
  <2>3. QED BY <1>1, <2>2
<1>7. q - e <= Frames!FrameTime
  <2>1. Frames!FrameTime \in Nat /\ Second <= Frames!FrameTime * Fps /\ Frames!FrameTime * Fps \in Nat
    BY FrameTimeIs
  <2>2. (e + Frames!FrameTime) * Fps = e * Fps + Frames!FrameTime * Fps
    BY <1>1, <2>1
  <2>3. q * Fps <= (e + Frames!FrameTime) * Fps
    BY <1>1, <1>2, <1>4, <2>1, <2>2, Product
  <2>4. q <= e + Frames!FrameTime
    BY <1>1, <2>1, <2>3, ProductOrder
  <2>5. QED BY <1>1, <2>1, <2>4
<1>8. q - e \in 0..Frames!FrameTime /\ Frames!FrameTime \in Nat /\ Frames!FrameTime < Width \div 2
      /\ Width \div 2 \in Nat
      /\ Width \div 2 <= Width
  BY <1>1, <1>6, <1>7, FrameTimeIs DEF InTime
<1>9. (q - e) % Width = q - e
  <2>1. q - e \in Int /\ 0 <= q - e /\ q - e < Width
    BY <1>1, <1>8
  <2>2. QED BY <1>1, <2>1, NoWrap
<1>10. QED BY <1>5, <1>8, <1>9 DEF Frames!Signed

LEMMA FramesInit == ASSUME InTime, Frames!Init PROVE FramesIInv
<1>1. Fps \in Nat \ {0} /\ Second \in Nat \ {0} /\ MaxElapsed \in Nat
  BY DEF InTime, Frames!ConstantsType
<1>2. NewFrame = 0
  <2>1. 0 * Fps = 0 /\ 0 \in Nat
    BY <1>1
  <2>2. 0 \div Second \in Nat /\ (0 \div Second) * Second <= 0
    BY <1>1, Quotient
  <2>3. ~(0 < 0 \div Second)
    BY <1>1, <2>2, ProductOrder
  <2>4. QED BY <2>1, <2>2, <2>3 DEF Frames!Init, NewFrame
<1>3. QED BY <1>1, <1>2 DEF FramesIInv, Frames!TypeOK, Late, Catching, Frames!Init

LEMMA FramesStep == ASSUME InTime, FramesIInv, [Frames!Next]_(Frames!vars) PROVE FramesIInv'
<1>0. /\ Fps \in Nat \ {0} /\ Second \in Nat \ {0} /\ MaxElapsed \in Nat /\ since_start \in 0..MaxElapsed
      /\ frame_count \in Nat /\ burst \in Nat /\ timeout \in Int
  BY DEF InTime, Frames!ConstantsType, FramesIInv, Frames!TypeOK
<1>1. /\ NewFrame \in Nat /\ ((since_start * Fps) % Width) \div Second = NewFrame
  BY <1>0, NewFrameIs DEF NewFrame
<1>2. CASE UNCHANGED Frames!vars
  BY <1>2 DEF FramesIInv, Frames!TypeOK, Late, Catching, NewFrame, Frames!vars
<1>3. CASE Frames!Prepare
  <2>1. at = "prepare" /\ frame_count <= NewFrame /\ Catching /\ burst <= 2 /\ burst' = burst
    BY <1>3 DEF Frames!Prepare, FramesIInv, Late
  <2>2. CASE /\ NewFrame < frame_count \/ NewFrame - frame_count > 2
             /\ since_start' = Frames!FrameTime /\ frame_count' = 0 /\ at' = "dispatch" /\ UNCHANGED timeout
    <3>1. burst = 0
      BY <1>0, <1>1, <2>1, <2>2 DEF Catching
    <3>2. NewFrame' = 1
      <4>1. /\ Frames!FrameTime * Fps \in Nat /\ Second <= Frames!FrameTime * Fps
            /\ Frames!FrameTime * Fps < Second + Second
        BY FrameTimeIs
      <4> PICK q \in Nat : /\ q = (Frames!FrameTime * Fps) \div Second
                           /\ q * Second <= Frames!FrameTime * Fps
                           /\ Frames!FrameTime * Fps < q * Second + Second
        BY <1>0, <4>1, Quotient
      <4>2. q * Second \in Int /\ (q + 1) * Second = q * Second + Second
            /\ 1 * Second = Second /\ 2 * Second = Second + Second
        BY <1>0, Product
      <4>3. 1 * Second < (q + 1) * Second /\ q * Second < 2 * Second
        BY <1>0, <4>1, <4>2
      <4>4. 1 < q + 1 /\ q < 2
        BY <1>0, <4>3, ProductOrder
      <4>5. q = 1
        BY <4>4
      <4>6. QED BY <2>2, <4>5 DEF NewFrame
    <3>3. Frames!FrameTime \in 0..MaxElapsed
      BY <1>0, FrameTimeIs DEF InTime
    <3>4. QED BY <1>0, <2>1, <2>2, <3>1, <3>2, <3>3 DEF FramesIInv, Frames!TypeOK, Late
  <2>3. CASE /\ ~(NewFrame < frame_count \/ NewFrame - frame_count > 2) /\ NewFrame > frame_count
             /\ at' = "dispatch" /\ UNCHANGED <<since_start, frame_count, timeout>>
    <3>1. NewFrame' = NewFrame
      BY <2>3 DEF NewFrame
    <3>2. QED BY <1>0, <1>1, <2>1, <2>3, <3>1 DEF FramesIInv, Frames!TypeOK, Late, Catching
  <2>4. CASE /\ NewFrame = frame_count
             /\ timeout' = Frames!Signed(
                             ((((frame_count + 1) * Second) % Width) \div Fps - since_start) % Width)
             /\ at' = "poll" /\ UNCHANGED <<since_start, frame_count>>
    <3>1. NewFrame' = NewFrame
      BY <2>4 DEF NewFrame
    <3>2. timeout' \in 0..Frames!FrameTime
      BY <1>0, <2>4, Sleeps DEF NewFrame
    <3>3. timeout' \in Int
      BY <3>2, FrameTimeIs
    <3>4. QED BY <1>0, <1>1, <2>1, <2>4, <3>1, <3>2, <3>3 DEF FramesIInv, Frames!TypeOK, Late, Catching
  <2>5. QED BY <1>1, <1>3, <2>2, <2>3, <2>4 DEF Frames!Prepare
<1>4. ASSUME NEW e \in 0..MaxElapsed, since_start <= e
      PROVE  NewFrame <= (e * Fps) \div Second /\ (e * Fps) \div Second \in Nat
  <2> PICK q \in Nat : q = (e * Fps) \div Second /\ e * Fps < q * Second + Second
    BY NewFrameIs
  <2>1. NewFrame * Second <= since_start * Fps /\ since_start * Fps \in Nat /\ e * Fps \in Nat
    BY <1>0, NewFrameIs DEF NewFrame
  <2>2. since_start * Fps <= e * Fps
    BY <1>0, <1>4, ProductOrder, Product
  <2>3. NewFrame * Second < (q + 1) * Second
    BY <1>0, <1>1, <2>1, <2>2, Product
  <2>4. NewFrame < q + 1
    BY <1>0, <1>1, <2>3, ProductOrder
  <2>5. QED BY <1>1, <2>4
<1>5. ASSUME NEW d \in 0..MaxElapsed, Frames!Poll(d) PROVE FramesIInv'
  <2>1. /\ at = "poll" /\ frame_count = NewFrame /\ Catching /\ burst <= 2
        /\ since_start + d \in 0..MaxElapsed /\ since_start' = since_start + d /\ at' = "prepare"
        /\ UNCHANGED <<frame_count, timeout>> /\ burst' = IF d > 0 THEN 0 ELSE burst
    BY <1>0, <1>5 DEF Frames!Poll, FramesIInv, Late
  <2>2. NewFrame <= NewFrame' /\ NewFrame' \in Nat
    BY <1>0, <1>4, <2>1 DEF NewFrame
  <2>3. d = 0 => NewFrame' = NewFrame
    BY <1>0, <2>1 DEF NewFrame
  <2>4. CASE d = 0
    BY <1>0, <1>1, <2>1, <2>2, <2>3, <2>4 DEF FramesIInv, Frames!TypeOK, Late, Catching
  <2>5. CASE d > 0
    BY <1>0, <1>1, <2>1, <2>2, <2>5 DEF FramesIInv, Frames!TypeOK, Late, Catching
  <2>6. QED BY <2>4, <2>5
<1>6. ASSUME NEW d \in 0..MaxElapsed, Frames!Dispatch(d) PROVE FramesIInv'
  <2>1. /\ at = "dispatch" /\ frame_count < NewFrame /\ burst + (NewFrame - frame_count) <= 2
        /\ since_start + d \in 0..MaxElapsed /\ since_start' = since_start + d
        /\ UNCHANGED timeout /\ burst' = IF d > 0 THEN 0 ELSE burst + 1
        /\ \/ at' = "prepare" /\ frame_count' = frame_count + 1
           \/ at' = "gone" /\ UNCHANGED frame_count
    BY <1>0, <1>6 DEF Frames!Dispatch, FramesIInv, Late
  <2>2. NewFrame <= NewFrame' /\ NewFrame' \in Nat
    BY <1>0, <1>4, <2>1 DEF NewFrame
  <2>3. d = 0 => NewFrame' = NewFrame
    BY <1>0, <2>1 DEF NewFrame
  <2>4. QED BY <1>0, <1>1, <2>1, <2>2, <2>3 DEF FramesIInv, Frames!TypeOK, Late, Catching
<1>7. QED BY <1>2, <1>3, <1>5, <1>6 DEF Frames!Next

LEMMA FramesKept == ASSUME InTime, FramesIInv PROVE Frames!KeepsRate
<1>0. /\ Fps \in Nat \ {0} /\ Second \in Nat \ {0} /\ since_start \in 0..MaxElapsed
      /\ frame_count \in Nat
  BY DEF InTime, Frames!ConstantsType, FramesIInv, Frames!TypeOK
<1>1. NewFrame \in Nat /\ NewFrame * Second <= since_start * Fps /\ since_start * Fps \in Nat
  BY <1>0, NewFrameIs DEF NewFrame
<1>2. frame_count <= NewFrame => frame_count * Second <= since_start * Fps
  BY <1>0, <1>1, ProductOrder, Product
<1>3. QED BY <1>0, <1>1, <1>2 DEF FramesIInv, Late, Frames!KeepsRate, Frames!TypeOK

(* "A suitable fallback that approximates a frame-rate": the main loop     *)
(* never sleeps past the next frame, a source that is late makes up for at *)
(* most two frames at once, and frames never outrun the clock, although    *)
(* the counts are guints, which wrap.                                      *)
THEOREM FramesKeepRate == ASSUME InTime PROVE Frames!Spec => [](Frames!TypeOK /\ Frames!KeepsRate)
<1>1. Frames!Init => FramesIInv
  BY FramesInit
<1>2. FramesIInv /\ [Frames!Next]_(Frames!vars) => FramesIInv'
  BY FramesStep
<1>3. FramesIInv => Frames!TypeOK /\ Frames!KeepsRate
  BY FramesKept DEF FramesIInv
<1>4. QED BY <1>1, <1>2, <1>3, PTL DEF Frames!Spec
==============================================================================

--------------------------- MODULE DzlShortcutManager ---------------------------
(* Keyboard shortcuts: DzlShortcutManager hands a key press to the           *)
(* controllers of the widgets between a window and its focus, which look the *)
(* keys typed so far up in the contexts of the theme and in the theme's own  *)
(* tables.                                                                   *)
(*                                                                           *)
(* A match is NoMatch, Partial (the keys begin a longer chord), Eaten        *)
(* (somebody handled the event without running a command) or <<w, c>>:       *)
(* command c ran on widget w. Where a table may answer in several ways (the  *)
(* same chord twice, sorted by qsort) an operator returns the SET of the     *)
(* matches it may come to.                                                   *)
EXTENDS Naturals, Sequences, FiniteSets, SequencesExt

CONSTANTS
  Widget, Window, Parent,    \* Parent[w], where Attach puts w; Window is the toplevel
  Type,                      \* the GType of a widget, which names its default contexts
  Key, MaxChord,             \* MAX_CHORD_SIZE
  Command, Action,           \* ids in the themes' tables; Action: those activated as a GAction
  Accel, Phase,              \* the accelerator (or <<>>) and phase a command is registered with
  Registers,                 \* <<w, c>>: widget w may register command c
  Theme, Internal, ParentName,
  KeyTheme,                  \* the contexts read from keytheme files
  Overrides,                 \* <<theme, id, phase>>: accelerators set by an editor or a file
  Chord,                     \* the chords an override may choose
  Removes, Named,            \* bounds: the accelerators taken back, <<w, name>> of contexts given
  Hideable, Failing,         \* bounds: widgets that are hidden, commands that may be disabled
  NoMatch, Partial, Eaten, None

(* Every widget but the window has a place in another, and no widget is      *)
(* inside itself.                                                            *)
ConstantsType ==
  /\ IsFiniteSet(Widget) /\ Window \in Widget /\ None \notin Widget
  /\ \A w \in Widget \ {Window} : Parent[w] \in Widget
  /\ \E depth \in [Widget -> 0..Cardinality(Widget)] :
       \A w \in Widget \ {Window} : depth[Parent[w]] < depth[w]

VARIABLES
  attached, alive, unusable, focus,     \* the widget tree, as GTK keeps it
  commands, context_name, root, descendants, current_chord,   \* DzlShortcutController
  contexts, chord_of, chain_phase,      \* DzlShortcutTheme: contexts, tables, chains
  theme, disabled, ran

tree == <<attached, alive, unusable, focus>>
links == <<root, descendants>>
tables == <<contexts, chord_of, chain_phase>>
vars == <<tree, links, tables, commands, context_name, current_chord, theme, disabled, ran>>

---------------------------------------------------------------------------
(* The widget tree *)

(* w and its ancestors, innermost first, when the widgets of att have a parent. *)
Ancestry(w, att) ==
  LET up[v \in Widget] == IF v \in att THEN <<v>> \o up[Parent[v]] ELSE <<v>> IN up[w]
Toplevel(w, att) == Last(Ancestry(w, att))
Under(w, att) == {v \in alive : w \in ToSet(Ancestry(v, att))}
InWindow == {w \in alive : Toplevel(w, attached) = Window}

HasGlobal(w, cs) == \E c \in Command : <<w, c>> \in cs /\ "global" \in Phase[c]

(* The elements of s that are in S. *)
Those(s, S) == FlattenSeq([i \in DOMAIN s |-> IF s[i] \in S THEN <<s[i]>> ELSE <<>>])

(* The orders in which the widgets ws may be told of something: each before  *)
(* those in it, which are told before any other.                             *)
Orders(ws, att) ==
  {order \in SetToSeqs(ws) :
     \A i, k \in DOMAIN order :
       order[i] \in ToSet(Ancestry(order[k], att))
         => i <= k /\ \A j \in i..k : order[i] \in ToSet(Ancestry(order[j], att))}

Kept_NotRemoved(v, ws) == Widget
(* The descendants v keeps when the controllers of ws leave their roots. *)
Kept(v, ws) == Widget \ {w \in ws : root[w] = v}

(* The controllers of ws learn that their toplevel is another and move to    *)
(* the descendants of its controller when they have a global command: in     *)
(* front when they are mapped.                                               *)
HierarchyChanged(ws, att, cs, mapped) ==
  LET Joins(v) == {w \in ws : HasGlobal(w, cs) /\ Toplevel(w, att) = v} \ {v}
  IN /\ root' = [w \in Widget |->
                   IF w \notin ws THEN root[w]
                   ELSE IF w \in Joins(Toplevel(w, att)) THEN Toplevel(w, att) ELSE None]
     /\ \E order \in Orders(ws, att) :
          descendants' = [v \in Widget |-> Reverse(Those(order, Joins(v) \cap mapped))
                                            \o Those(descendants[v], Kept(v, ws))
                                            \o Those(order, Joins(v) \ mapped)]

---------------------------------------------------------------------------
(* Looking a chord up *)

Begins(ch, longer) == IsStrictPrefix(ch, longer)

(* What a chord table of <<chord, id>> may answer for the keys ch. *)
Lookup(table, ch) ==
  LET equal == {e[2] : e \in {x \in table : x[1] = ch}}
  IN IF equal # {} THEN equal
     ELSE IF \E e \in table : Begins(ch, e[1]) THEN {Partial} ELSE {NoMatch}

(* The first step that does not answer NoMatch decides. *)
Then(first, next) == (first \ {NoMatch}) \cup (IF NoMatch \in first THEN next ELSE {})
InOrder(steps) == FoldRight(Then, steps, {NoMatch})

(* Command c of the first controller that has it, looking from w upwards and *)
(* at each in its descendants; an action is activated from w itself.         *)
Execute(w, c) ==
  LET up == Ancestry(w, attached)
      asked == FlattenSeq([i \in DOMAIN up |-> <<up[i]>> \o descendants[up[i]]])
      found == IF c \in Action THEN <<w>> ELSE SelectSeq(asked, LAMBDA v : <<v, c>> \in commands)
  IN IF c \in disabled \/ found = <<>> THEN NoMatch ELSE <<Head(found), c>>

(* The context of w for a phase, in theme t: only the bare phases have a     *)
(* context of their own.                                                     *)
ContextTable(w, t, p) ==
  LET suffix == IF p \in {{"bubble"}, {"capture"}} THEN p ELSE {}
      mine == {e \in contexts : e.theme = t /\ e.name = context_name[w] /\ e.phase = suffix}
  IN {<<e.chord, e.command>> : e \in mine}

Activate(w, t, p, ch) ==
  {IF r \in Command THEN Execute(w, r) ELSE r : r \in Lookup(ContextTable(w, t, p), ch)}

Lineage(t0) ==
  LET up[t \in Theme] == IF t = Internal THEN <<t>> ELSE <<t>> \o up[ParentName[t]] IN up[t0]

(* The context in the theme, then in the theme it inherits from, no further. *)
Process(w, p, ch) ==
  LET near == SubSeq(Lineage(theme), 1, IF theme = Internal THEN 1 ELSE 2)
  IN InOrder([i \in DOMAIN near |-> Activate(w, near[i], p, ch)])

(* The theme's own tables, then those of its ancestors: actions before       *)
(* commands; an exact match counts in the phase of its chain only.           *)
ThemeMatch(p, ch) ==
  LET Table(t, ids) == Lookup({<<chord_of[t][c], c>> : c \in {d \in ids : chord_of[t][d] # <<>>}}, ch)
      InPhase(t, ids) == {IF r \in Command /\ chain_phase[t][r] # p THEN NoMatch ELSE r : r \in Table(t, ids)}
      Better(m, n) == IF m \in Command THEN m ELSE IF n \in Command THEN n
                      ELSE IF Partial \in {m, n} THEN Partial ELSE NoMatch
      Join(ms, ns) == {Better(m, n) : m \in ms, n \in ns}
      lineage == Lineage(theme)
      all == FlattenSeq([i \in DOMAIN lineage |->
               <<InPhase(lineage[i], Action), InPhase(lineage[i], Command \ Action)>>])
  IN FoldRight(Join, all, {NoMatch})

(* A command is run where it is registered: the window or its first          *)
(* descendant that has it; anything else from the focus.                     *)
GlobalChain(c) ==
  LET owners == SelectSeq(<<Window>> \o descendants[Window], LAMBDA w : <<w, c>> \in commands)
  IN Execute(IF c \in Action \/ owners = <<>> THEN focus ELSE Head(owners), c)

(* A global match counts even when nothing could be run for it. *)
DoGlobal(p, ch) ==
  LET Run(c) == IF GlobalChain(c) = NoMatch THEN Eaten ELSE GlobalChain(c)
  IN {IF r \in Command THEN Run(r) ELSE r : r \in ThemeMatch(p, ch)}

Handle(w, p, ch) ==
  IF w \in unusable THEN {NoMatch}
  ELSE IF p = {"capture", "global"} THEN Then(DoGlobal(p, ch), Process(w, p, ch))
  ELSE IF p = {"bubble", "global"} THEN Then(Process(w, p, ch), DoGlobal(p, ch))
  ELSE Process(w, p, ch)

(* gtk_widget_event, gtk_bindings_activate and the like: anything or nothing. *)
Gtk == {NoMatch, Eaten}

RunFallbacks(ch) ==
  LET action == {<<Window, a>> : a \in {b \in Action \ disabled : chord_of[Internal][b] = ch}}
  IN IF Len(ch) = 1 THEN InOrder(<<Gtk, action \cup (IF action = {} THEN {NoMatch} ELSE {}), Gtk>>)
     ELSE {NoMatch}

RunPhase(ws, p, ch) == [i \in DOMAIN ws |-> Handle(ws[i], p, ch)]
RunGlobal(p, ch) == <<Handle(Window, {p, "global"}, ch)>>

HandleEvent_BubbleLast(ch) ==
  LET up == Ancestry(focus, attached)
  IN InOrder(RunGlobal("capture", ch) \o RunPhase(Reverse(up), {"capture"}, ch)
             \o RunPhase(<<focus>>, {}, ch) \o <<Gtk>>
             \o RunGlobal("bubble", ch) \o RunPhase(up, {"bubble"}, ch) \o <<RunFallbacks(ch)>>)
HandleEvent(ch) ==
  LET up == Ancestry(focus, attached)
  IN InOrder(RunGlobal("capture", ch) \o RunPhase(Reverse(up), {"capture"}, ch)
             \o RunPhase(<<focus>>, {}, ch) \o <<Gtk>>
             \o RunPhase(up, {"bubble"}, ch) \o RunGlobal("bubble", ch) \o <<RunFallbacks(ch)>>)

---------------------------------------------------------------------------
Init ==
  /\ attached = Widget \ {Window} /\ alive = Widget /\ unusable = {} /\ focus = Window
  /\ commands = {} /\ context_name = Type
  /\ root = [w \in Widget |-> None] /\ descendants = [w \in Widget |-> <<>>]
  /\ current_chord = <<>>
  /\ contexts = KeyTheme
  /\ chord_of = [t \in Theme |-> [c \in Command |-> <<>>]]
  /\ chain_phase = [t \in Theme |-> [c \in Command |-> None]]
  /\ theme \in Theme \ {Internal}
  /\ disabled = {} /\ ran = None

Press_NoLimit(k) ==
  /\ \E r \in HandleEvent(Append(current_chord, k)) :
       ran' = r /\ current_chord' = IF r = NoMatch THEN <<>> ELSE Append(current_chord, k)
  /\ UNCHANGED <<tree, links, tables, commands, context_name, theme, disabled>>
(* A key press reaches the window: the key is pushed on the chord of its     *)
(* controller, which is kept only when the match is partial.                 *)
Press(k) ==
  /\ IF Len(current_chord) = MaxChord
     THEN ran' = NoMatch /\ current_chord' = <<>>
     ELSE \E r \in HandleEvent(Append(current_chord, k)) :
            /\ ran' = r
            /\ current_chord' = IF r = Partial THEN Append(current_chord, k) ELSE <<>>
  /\ UNCHANGED <<tree, links, tables, commands, context_name, theme, disabled>>

SetChord(t, c, ch, p) ==
  /\ chord_of' = [chord_of EXCEPT ![t][c] = ch]
  /\ chain_phase' = [chain_phase EXCEPT ![t][c] = IF @ = None THEN p ELSE @]

AddToContext(e) ==
  contexts' = IF \E x \in contexts : [x EXCEPT !.command = e.command] = e
              THEN contexts ELSE contexts \cup {e}

(* The phase with "global" alone completed, and the default context for it. *)
Registered(p) == IF p = {"global"} THEN {"global", "bubble"} ELSE p
DefaultContext(w, c) ==
  LET p == Registered(Phase[c])
  IN [theme |-> Internal, name |-> Type[w], chord |-> Accel[c], command |-> c,
      phase |-> IF "bubble" \in p THEN {"bubble"} ELSE IF "capture" \in p THEN {"capture"} ELSE {}]

AddCommand(w, c, mapped) ==
  /\ w \in alive
  /\ commands' = commands \cup {<<w, c>>}
  /\ IF "global" \in Phase[c] /\ ~HasGlobal(w, commands)
     THEN HierarchyChanged({w}, attached, commands', mapped)
     ELSE mapped = {} /\ UNCHANGED links
  /\ IF Accel[c] = <<>> THEN UNCHANGED tables
     ELSE SetChord(Internal, c, Accel[c], Registered(Phase[c])) /\ AddToContext(DefaultContext(w, c))
  /\ ran' = None
  /\ UNCHANGED <<tree, context_name, current_chord, theme, disabled>>

RemoveAccel(w, c) ==
  /\ w \in alive /\ <<w, c>> \in commands /\ Accel[c] # <<>>
  /\ LET same == {d \in Command \ Action : chord_of[Internal][d] = Accel[c]}
     IN IF same = {} THEN UNCHANGED chord_of
        ELSE \E d \in same : chord_of' = [chord_of EXCEPT ![Internal][d] = <<>>]
  /\ contexts' = {x \in contexts : [x EXCEPT !.command = c] # DefaultContext(w, c)}
  /\ ran' = None
  /\ UNCHANGED <<tree, links, chain_phase, commands, context_name, current_chord, theme, disabled>>

(* dzl_shortcut_theme_set_chord_for_command and _for_action, from a keytheme *)
(* file, the accelerator editor or the application.                          *)
Override(t, c, p, ch) ==
  /\ SetChord(t, c, ch, p)
  /\ ran' = None
  /\ UNCHANGED <<tree, links, contexts, commands, context_name, current_chord, theme, disabled>>

(* The themes are read again: what was set since is gone. *)
Reload ==
  /\ chord_of' = [t \in Theme |-> IF t = Internal THEN chord_of[t] ELSE [c \in Command |-> <<>>]]
  /\ chain_phase' = [t \in Theme |-> IF t = Internal THEN chain_phase[t] ELSE [c \in Command |-> None]]
  /\ ran' = None
  /\ UNCHANGED <<tree, links, contexts, commands, context_name, current_chord, theme, disabled>>

SetTheme(t) ==
  /\ theme' = t /\ ran' = None
  /\ UNCHANGED <<tree, links, tables, commands, context_name, current_chord, disabled>>

(* add_action and add_command of the manager emit "changed". *)
ManagerChanged ==
  /\ context_name' = Type /\ current_chord' = <<>> /\ ran' = None
  /\ UNCHANGED <<tree, links, tables, commands, theme, disabled>>

SetContextByName(w, name) ==
  /\ w \in alive
  /\ context_name' = [context_name EXCEPT ![w] = name] /\ ran' = None
  /\ UNCHANGED <<tree, links, tables, commands, current_chord, theme, disabled>>

(* gtk_container_add, gtk_container_remove and gtk_widget_destroy of w;      *)
(* "hierarchy-changed" is emitted when w comes into a window or leaves it.   *)
Attach(w) ==
  /\ w \in alive \ attached /\ w # Window /\ Parent[w] \in alive
  /\ attached' = attached \cup {w}
  /\ IF Toplevel(w, attached') = Window
     THEN HierarchyChanged(Under(w, attached'), attached', commands, {})
     ELSE UNCHANGED links
  /\ ran' = None
  /\ UNCHANGED <<alive, unusable, focus, tables, commands, context_name, current_chord, theme, disabled>>

Unfocus(ws) == focus' = IF focus \in ws THEN Window ELSE focus

Detach(w) ==
  /\ w \in attached
  /\ attached' = attached \ {w}
  /\ IF Toplevel(w, attached) = Window
     THEN HierarchyChanged(Under(w, attached'), attached', commands, {})
     ELSE UNCHANGED links
  /\ Unfocus(Under(w, attached)) /\ ran' = None
  /\ UNCHANGED <<alive, unusable, tables, commands, context_name, current_chord, theme, disabled>>

Destroy(w) ==
  /\ w \in alive \ {Window}
  /\ LET gone == Under(w, attached)
     IN /\ alive' = alive \ gone /\ attached' = attached \ gone
        /\ commands' = {x \in commands : x[1] \notin gone}
        /\ root' = [v \in Widget |-> IF v \in gone THEN None ELSE root[v]]
        /\ descendants' = [v \in Widget |-> Those(descendants[v], Widget \ gone)]
        /\ Unfocus(gone)
  /\ ran' = None
  /\ UNCHANGED <<unusable, tables, context_name, current_chord, theme, disabled>>

SetFocus(w) ==
  /\ w \in InWindow
  /\ focus' = w /\ ran' = None
  /\ UNCHANGED <<attached, alive, unusable, links, tables, commands, context_name, current_chord, theme, disabled>>

(* A widget is hidden or made insensitive, or usable again. *)
ToggleUsable(w) ==
  /\ w \in alive \cap Hideable
  /\ unusable' = SymDiff(unusable, {w}) /\ ran' = None
  /\ UNCHANGED <<attached, alive, focus, links, tables, commands, context_name, current_chord, theme, disabled>>

ToggleEnabled(c) ==
  /\ c \in Failing
  /\ disabled' = SymDiff(disabled, {c}) /\ ran' = None
  /\ UNCHANGED <<tree, links, tables, commands, context_name, current_chord, theme>>

Next ==
  \/ \E k \in Key : Press(k)
  \/ \E wc \in Registers : \E mapped \in SUBSET {wc[1]} : AddCommand(wc[1], wc[2], mapped)
  \/ \E wc \in Removes : RemoveAccel(wc[1], wc[2])
  \/ \E o \in Overrides, ch \in Chord : Override(o[1], o[2], o[3], ch)
  \/ Reload
  \/ \E t \in Theme \ {Internal} : SetTheme(t)
  \/ ManagerChanged
  \/ \E nc \in Named : SetContextByName(nc[1], nc[2])
  \/ \E w \in Widget : Attach(w) \/ Detach(w) \/ Destroy(w) \/ SetFocus(w) \/ ToggleUsable(w)
  \/ \E c \in Command : ToggleEnabled(c)

Spec == Init /\ [][Next]_vars
---------------------------------------------------------------------------
(* Type invariant. *)
TypeOK ==
  /\ attached \subseteq alive \ {Window} /\ alive \subseteq Widget /\ unusable \subseteq Widget
  /\ focus \in InWindow
  /\ commands \subseteq Registers
  /\ root \in [Widget -> Widget \cup {None}]
  /\ \A w \in Widget : descendants[w] \in Seq(Widget)
  /\ Len(current_chord) <= MaxChord
  /\ \A e \in contexts : e.theme \in Theme /\ e.command \in Command
  /\ theme \in Theme /\ disabled \subseteq Command
  /\ ran \in {None, NoMatch, Partial, Eaten} \cup (Widget \X Command)

(* The controllers in a window that have a global command, and no others,    *)
(* are descendants of the window's controller, each once, whatever widgets   *)
(* were moved, taken out or destroyed in whatever order; every link a        *)
(* controller keeps to a root is one the root has too.                       *)
DescendantsAgree ==
  /\ ToSet(descendants[Window]) = {w \in InWindow \ {Window} : HasGlobal(w, commands)}
  /\ \A w \in Widget :
       /\ IsInjective(descendants[w])
       /\ \A v \in Widget : v \in ToSet(descendants[w]) <=> root[v] = w

(* No controller in the window still lists a widget that has left its widget *)
(* without passing through a window, which GTK does not report.              *)
NoStrangers == \A w \in InWindow : ToSet(descendants[w]) \subseteq Under(w, attached)

(* No two bindings compete for ch: none goes on from it, and no table of the *)
(* themes has it twice.                                                      *)
Unambiguous(ch) ==
  /\ \A e \in contexts : ~Begins(ch, e.chord)
  /\ \A t \in Theme :
       /\ \A c \in Command : ~Begins(ch, chord_of[t][c])
       /\ Cardinality({c \in Command : chord_of[t][c] = ch}) <= 1

(* What the documentation of _dzl_shortcut_controller_handle makes of a      *)
(* chord: global capture, capture from the window to the focus, the focus,   *)
(* bubble back up, global bubble; the first command bound there runs.        *)
Documented(ch) ==
  LET up == Ancestry(focus, attached)
      Global(p) == [i \in DOMAIN Lineage(theme) |->
        LET t == Lineage(theme)[i]
            bound == {c \in Command : chord_of[t][c] = ch /\ chain_phase[t][c] = {p, "global"}}
            live == {x \in commands : x[2] \in bound \ disabled /\ x[1] \in InWindow}
                    \cup {<<focus, a>> : a \in (bound \cap Action) \ disabled}
        IN IF bound = {} THEN {NoMatch} ELSE IF live = {} THEN {Eaten} ELSE live]
      Local(ws, p) == [i \in DOMAIN ws |->
        LET names == {e \in contexts : e.name = context_name[ws[i]] /\ e.phase = p /\ e.chord = ch
                                        /\ e.theme \in {theme} \cup (IF theme = Internal THEN {} ELSE {ParentName[theme]})}
            own == {Execute(ws[i], e.command) : e \in names} \ {NoMatch}
        IN IF ws[i] \in unusable \/ own = {} THEN {NoMatch} ELSE own]
  IN InOrder(Global("capture") \o Local(Reverse(up), {"capture"}) \o Local(<<focus>>, {})
             \o <<Gtk>> \o Local(up, {"bubble"}) \o Global("bubble") 
             \o <<IF Len(ch) = 1 THEN Gtk ELSE {NoMatch}>>)

(* A key that completes an unambiguous chord runs what the documented order  *)
(* of the phases says it runs, although the code finds it by way of contexts *)
(* named after types, tables shared by all widgets and the queue of          *)
(* descendants.                                                              *)
FirstInOrderRuns ==
  [][\A k \in Key : LET ch == Append(current_chord, k)
                    IN ran' # None /\ Len(ch) <= MaxChord /\ NoStrangers /\ Unambiguous(ch) /\ Press(k)
                       => ran' \in Documented(ch)]_vars

(* "This will set the command to execute when chord is pressed", says        *)
(* dzl_shortcut_theme_set_chord_for_command: when a command of the window    *)
(* that can be run from anywhere has a chord in the current theme, pressing  *)
(* it runs the command or what comes before it.                              *)
OverrideRuns ==
  [][\A k \in Key, c \in Command :
       LET ch == Append(current_chord, k)
       IN /\ ran' # None /\ Press(k) /\ Unambiguous(ch) /\ chord_of[theme][c] = ch
          /\ "global" \in Phase[c] /\ c \notin disabled
          /\ \E w \in InWindow : <<w, c>> \in commands
          => ran' # NoMatch]_vars
=============================================================================

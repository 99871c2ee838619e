-------------------------- MODULE DzlStateMachine --------------------------
(***************************************************************************)
(* statemachine/dzl-state-machine.c: bindings, signal connections, values  *)
(* of properties and style classes that belong to a state and are put in   *)
(* force when the machine enters it.                                       *)
(*                                                                         *)
(* What a state binds or connects is a DzlBindingGroup or DzlSignalGroup   *)
(* for each source object; here a group has its source or has it not.  One *)
(* property of each object and one style class stand for all.              *)
(*                                                                         *)
(* Setting a source or a property runs whatever is connected to the        *)
(* properties that change, in the middle of a transition: it may register  *)
(* more, enter another state or destroy objects.  notify::state is frozen  *)
(* until the outermost transition ends.  A transition, or the handlers of  *)
(* notify::state, that are running are a frame of `calls'.                 *)
(***************************************************************************)
EXTENDS Naturals, Sequences, FiniteSets

CONSTANTS
  State,      \* the names of states
  Object,
  None,       \* NULL
  MaxDepth,   \* bound on the calls nested in one another
  MaxEntries  \* bound on what is registered, for all states

ConstantsType ==
  /\ None \notin State \cup Object
  /\ MaxDepth \in Nat /\ MaxEntries \in Nat

Groups == {"binding", "signal"} \X State \X Object
Entry == {"binding", "signal", "property", "style"} \X State \X Object

VARIABLES
  state,     \* priv->state
  entries,   \* priv->states: the tables and arrays of all states
  sourced,   \* the groups whose source or target is set
  value,     \* the state whose value each object's property has
  shown,     \* the widgets that have the class
  late,      \* observed: what the current state got while it was the current
             \* one, and what its transition passed over
  overtaken, \* observed: the states left before their transition had ended
  calls      \* what is running, the innermost first

vars == <<state, entries, sourced, value, shown, late, overtaken, calls>>

Of(kind, s) == {e \in entries : e[1] = kind /\ e[2] = s}

Init ==
  /\ state = None
  /\ entries = {} /\ sourced = {} /\ late = {} /\ overtaken = {}
  /\ value = [o \in Object |-> None]
  /\ shown = {}
  /\ calls = <<>>

(* A frame of a transition is where its loops are: no setter has run, the  *)
(* bindings, the signals, the properties.  Callers act at rest, in what a  *)
(* setter runs and in handlers of notify::state.                           *)
Transition == {"entered", "bindings", "signals", "properties"}
Frames(s) == {i \in DOMAIN calls : calls[i].at \in Transition /\ calls[i].of = s}
Applying == \E i \in DOMAIN calls : calls[i].at \in Transition
CallersRun == calls # <<>> => Head(calls).at \in {"bindings", "properties", "notify"}
-----------------------------------------------------------------------------
(* dzl_state_machine_set_state: the old state is unapplied, which runs no  *)
(* code of callers, and a frame is left for the new one.  Values stay, and *)
(* a transition to the old state that is still running goes on later.      *)
Enter(s) == [at |-> "entered", of |-> s, done |-> {}]
SetState_Unstyled(s) ==
  /\ CallersRun /\ Len(calls) < MaxDepth
  /\ s # state
  /\ state' = s
  /\ sourced' = {g \in sourced : g[2] # state}
  /\ late' = {}
  /\ overtaken' = IF Frames(state) = {} THEN overtaken \ {state} ELSE overtaken \cup {state}
  /\ calls' = <<Enter(s)>> \o calls
  /\ UNCHANGED <<entries, value, shown>>
SetState(s) ==
  /\ CallersRun /\ Len(calls) < MaxDepth
  /\ s # state
  /\ state' = s
  /\ sourced' = {g \in sourced : g[2] # state}
  /\ shown' = {w \in shown : <<"style", state, w>> \notin entries}
  /\ late' = {}
  /\ overtaken' = IF Frames(state) = {} THEN overtaken \ {state} ELSE overtaken \cup {state}
  /\ calls' = <<Enter(s)>> \o calls
  /\ UNCHANGED <<entries, value>>

Frame == Head(calls)
At(where) == calls # <<>> /\ Frame.at \in where
Left(kind) == Of(kind, Frame.of) \ Frame.done

(* dzl_state_apply, of the state the frame is for: each binding group ...  *)
ApplyBinding ==
  /\ At({"entered", "bindings"})
  /\ \E g \in Left("binding") :
       /\ sourced' = sourced \cup {g}
       /\ calls' = [calls EXCEPT ![1].at = "bindings", ![1].done = @ \cup {g}]
  /\ UNCHANGED <<state, entries, value, shown, late, overtaken>>

(* ... all signal groups, none of which runs code of callers ...           *)
ApplySignals ==
  /\ At({"entered", "bindings"}) /\ Left("binding") = {}
  /\ sourced' = sourced \cup Of("signal", Frame.of)
  /\ calls' = [calls EXCEPT ![1].at = "signals", ![1].done = {}]
  /\ UNCHANGED <<state, entries, value, shown, late, overtaken>>

(* ... each property, among them what setters have added ...               *)
ApplyProperty ==
  /\ At({"signals", "properties"})
  /\ \E p \in Left("property") :
       /\ value' = [value EXCEPT ![p[3]] = Frame.of]
       /\ calls' = [calls EXCEPT ![1].at = "properties", ![1].done = @ \cup {p}]
  /\ UNCHANGED <<state, entries, sourced, shown, late, overtaken>>

(* ... and the styles.  The outermost transition then notifies.            *)
Applied ==
  /\ At({"signals", "properties"}) /\ Left("property") = {}
  /\ shown' = shown \cup {e[3] : e \in Of("style", Frame.of)}
  /\ calls' = IF Len(calls) > 1 /\ calls[2].at \in Transition THEN Tail(calls)
              ELSE <<[at |-> "notify", of |-> None, done |-> {}]>> \o Tail(calls)
  /\ UNCHANGED <<state, entries, sourced, value, late, overtaken>>

Notified ==
  /\ At({"notify"})
  /\ calls' = Tail(calls)
  /\ UNCHANGED <<state, entries, sourced, value, shown, late, overtaken>>
-----------------------------------------------------------------------------
(* The loops that run go on with tables and arrays that have changed: each *)
(* frame takes seen[i] to be done.  What this passes over of the current   *)
(* state comes too late.                                                   *)
Resume(seen) == calls' = [i \in DOMAIN calls |-> [calls[i] EXCEPT !.done = seen[i]]]
PassedOver(seen) ==
  {e \in entries \ sourced : e[2] = state /\ \E i \in DOMAIN calls : e \in seen[i] \ calls[i].done}

(* dzl_state_machine_add_propertyv and _add_style take effect at once in   *)
(* the current state; _add_binding and _connect_object only when it is     *)
(* entered again.  Bindings and connections to a source that is known      *)
(* belong to its group; GLib does not say which groups the loop over a     *)
(* table has still to come when one is added.                              *)
SeenAdded(f, e) ==
  IF f.at = "bindings" /\ e[1] = "binding" /\ e[2] = f.of THEN SUBSET (Of("binding", f.of) \cup {e})
  ELSE {f.done}
Add(e) ==
  /\ CallersRun /\ Cardinality(entries) < MaxEntries
  /\ e \notin entries
  /\ entries' = entries \cup {e}
  /\ value' = IF e[1] = "property" /\ e[2] = state THEN [value EXCEPT ![e[3]] = state] ELSE value
  /\ shown' = IF e[1] = "style" /\ e[2] = state THEN shown \cup {e[3]} ELSE shown
  /\ \E seen \in [DOMAIN calls -> SUBSET (entries \cup {e})] :
       /\ \A i \in DOMAIN calls : seen[i] \in SeenAdded(calls[i], e)
       /\ Resume(seen)
       /\ late' = late \cup PassedOver(seen)
                       \cup (IF e \in Groups /\ e[2] = state THEN {e} ELSE {})
  /\ UNCHANGED <<state, sourced, overtaken>>

(* An object dies, and another takes its name: the weak notifies drop what *)
(* the machine has of it, in any state.  A group whose source it was is    *)
(* freed with it (what its own weak notify then does with it is not        *)
(* modelled).  A loop over a table that lost a group may go on anywhere in *)
(* it; g_ptr_array_remove_fast fills the place of a property that was set  *)
(* with the last one, which the loop does not come to.                     *)
Lost(o) == {e \in entries : e[3] = o}
SeenLost(f, o) ==
  IF f.at = "bindings" /\ <<"binding", f.of, o>> \in entries
  THEN SUBSET (Of("binding", f.of) \ Lost(o))
  ELSE IF <<"property", f.of, o>> \in f.done /\ Of("property", f.of) \ f.done # {}
  THEN {(f.done \ Lost(o)) \cup {p} : p \in Of("property", f.of) \ f.done}
  ELSE {f.done \ Lost(o)}
ObjectDies(o) ==
  /\ CallersRun
  /\ entries' = entries \ Lost(o)
  /\ sourced' = sourced \ Lost(o)
  /\ value' = [value EXCEPT ![o] = None]
  /\ shown' = shown \ {o}
  /\ \E seen \in [DOMAIN calls -> SUBSET (entries \ Lost(o))] :
       /\ \A i \in DOMAIN calls : seen[i] \in SeenLost(calls[i], o)
       /\ Resume(seen)
       /\ late' = (late \ Lost(o)) \cup PassedOver(seen)
  /\ UNCHANGED <<state, overtaken>>

(* dzl_state_machine_finalize leaves values and classes as they are; the   *)
(* machine that follows has other objects.                                 *)
Finalize ==
  /\ calls = <<>> /\ state # None
  /\ state' = None
  /\ entries' = {} /\ sourced' = {} /\ late' = {} /\ overtaken' = {}
  /\ value' = [o \in Object |-> None]
  /\ shown' = {}
  /\ UNCHANGED calls

Next ==
  \/ \E s \in State \cup {None} : SetState(s)
  \/ ApplyBinding \/ ApplySignals \/ ApplyProperty \/ Applied \/ Notified
  \/ \E e \in Entry : Add(e)
  \/ \E o \in Object : ObjectDies(o)
  \/ Finalize

Spec == Init /\ [][Next]_vars
-----------------------------------------------------------------------------
TypeOK ==
  /\ state \in State \cup {None} /\ overtaken \subseteq State \cup {None}
  /\ entries \subseteq Entry /\ sourced \subseteq Groups /\ late \subseteq Entry
  /\ value \in [Object -> State \cup {None}]
  /\ shown \subseteq Object
  /\ calls \in Seq([at : Transition \cup {"notify"}, of : State \cup {None}, done : SUBSET Entry])

(* Whenever no transition is running, and for every handler of             *)
(* notify::state: the bindings and connections of the current state are    *)
(* there, but for those that came too late; its properties have its values *)
(* and its widgets their class.  Nothing else is in force but what states  *)
(* left behind that were entered and left again by what their own          *)
(* transition ran: a value or a connection is never that of a state that   *)
(* was left in any other way, whoever entered what in between.             *)
InForce == ~Applying =>
  LET now == {state} \cup overtaken IN
  /\ {g \in entries \cap Groups : g[2] = state} \ late \subseteq sourced
  /\ \A g \in sourced : g \in entries /\ g[2] \in now
  /\ \A e \in Of("property", state) \ late :
       value[e[3]] \in {s \in now : <<"property", s, e[3]>> \in entries}
  /\ \A e \in Of("style", state) : e[3] \in shown
  /\ \A w \in shown : \E s \in now : <<"style", s, w>> \in entries

(* "Connects to the @detailed_signal of @source only when the current      *)
(* state of the state machine is @state", says connect_object; a state     *)
(* that is entered and left by its own transition connects all the same.   *)
OnlyWhenCurrent == ~Applying => \A g \in sourced : g[1] = "signal" => g[2] = state
=============================================================================

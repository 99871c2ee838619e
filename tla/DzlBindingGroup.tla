-------------------------- MODULE DzlBindingGroup --------------------------
(***************************************************************************)
(* bindings/dzl-binding-group.c: property bindings that are made again     *)
(* whenever the source is replaced, and forgotten when their target dies.  *)
(*                                                                         *)
(* Every GBinding is made with G_BINDING_SYNC_CREATE: creating it sets the *)
(* target's property, and whatever is connected to that runs before the    *)
(* GBinding is stored in its lazy binding.  A connect() under way is a     *)
(* frame of the stack `calls'.  Nothing follows notify::source, so it      *)
(* needs none.                                                             *)
(*                                                                         *)
(* Objects that take part in a call are held by its caller.  An object     *)
(* that dies may be followed by another one under the same name.           *)
(***************************************************************************)
EXTENDS Integers, Sequences, FiniteSets

CONSTANTS
  Source,
  Target,
  None,        \* NULL
  Slot,        \* lazy bindings that can exist at once
  MaxDepth,    \* bound on the connects nested in one another
  Reentrant    \* what property setters do to the group while it connects

ConstantsType ==
  /\ None \notin Source \cup Target /\ Source \cap Target = {}
  /\ MaxDepth \in Nat
  /\ Reentrant \subseteq {"bind", "source", "unref"}

VARIABLES
  source,         \* self->source
  lazy_bindings,  \* self->lazy_bindings
  target,         \* the target of each lazy binding, None when it is free
  binding,        \* the source its GBinding was made from; None for NULL
  bound,          \* GLib's side: the GBindings there are, <<source, lazy binding>>
  watched,        \* how many weak notifies of the group each object holds
  dying,          \* the target whose weak notifies are being called
  calls,          \* the connects under way, the innermost first
  failed          \* a g_assert has failed

vars == <<source, lazy_bindings, target, binding, bound, watched, dying, calls, failed>>

Listed == {lazy_bindings[i] : i \in DOMAIN lazy_bindings}

(* g_ptr_array_remove_index_fast(): the last element takes the place. *)
RemoveFast(s, i) ==
  [j \in 1..(Len(s) - 1) |-> IF j = i THEN s[Len(s)] ELSE s[j]]

-----------------------------------------------------------------------------
Init ==
  /\ source = None
  /\ lazy_bindings = <<>>
  /\ target = [b \in Slot |-> None]
  /\ binding = [b \in Slot |-> None]
  /\ bound = {}
  /\ watched = [o \in Source \cup Target |-> 0]
  /\ dying = None
  /\ calls = <<>>
  /\ failed = FALSE

(* Callers, as far as Reentrant says so, leave the group alone in setters; *)
(* bind() in the setter of another bind() meets no loop.                   *)
MayCall == ~failed /\ dying = None
InLoop == \E i \in DOMAIN calls : calls[i].at = "set_source"
MayConnect == MayCall /\ Len(calls) < MaxDepth

Watch(o, by) == IF o = None THEN watched ELSE [watched EXCEPT ![o] = @ + by]

(* dzl_binding_group_connect up to the setter: s is self->source, had what *)
(* the lazy bindings have for a GBinding, and the GBindings are those of   *)
(* rest besides the new one.                                               *)
Connect(at, i, b, s, had, rest, under) ==
  /\ failed' = (s = None \/ had[b] # None)
  /\ binding' = had
  /\ bound' = rest \cup {<<s, b>>}
  /\ calls' = <<[at |-> at, index |-> i, slot |-> b, from |-> s]>> \o under

(* dzl_binding_group_disconnect for all of them *)
Unbound == [b \in Slot |-> None]
LeftBound == bound \ {<<binding[b], b>> : b \in Listed}

(* dzl_binding_group_set_source; every bound property exists on the source. *)
SetSource_StillWatched(s) ==
  /\ MayConnect
  /\ calls = <<>> \/ "source" \in Reentrant
  /\ s # source
  /\ source' = s
  /\ watched' = Watch(s, 1)
  /\ LET had == IF source = None THEN binding ELSE Unbound
         rest == IF source = None THEN bound ELSE LeftBound
     IN  IF s = None \/ lazy_bindings = <<>>
         THEN binding' = had /\ bound' = rest /\ UNCHANGED <<calls, failed>>
         ELSE Connect("set_source", 1, lazy_bindings[1], s, had, rest, calls)
  /\ UNCHANGED <<lazy_bindings, target, dying>>
SetSource(s) ==
  /\ MayConnect
  /\ calls = <<>> \/ "source" \in Reentrant
  /\ s # source
  /\ source' = s
  /\ watched' = [o \in Source \cup Target |-> watched[o] + (IF o = s THEN 1 ELSE 0)
                                                         - (IF o = source THEN 1 ELSE 0)]
  /\ LET had == IF source = None THEN binding ELSE Unbound
         rest == IF source = None THEN bound ELSE LeftBound
     IN  IF s = None \/ lazy_bindings = <<>>
         THEN binding' = had /\ bound' = rest /\ UNCHANGED <<calls, failed>>
         ELSE Connect("set_source", 1, lazy_bindings[1], s, had, rest, calls)
  /\ UNCHANGED <<lazy_bindings, target, dying>>

(* dzl_binding_group_bind_helper *)
BindHelper(b, t) ==
  /\ MayConnect
  /\ ~InLoop \/ "bind" \in Reentrant
  /\ b \notin Listed
  /\ lazy_bindings' = Append(lazy_bindings, b)
  /\ target' = [target EXCEPT ![b] = t]
  /\ watched' = Watch(t, 1)
  /\ IF source = None
     THEN UNCHANGED <<binding, bound, calls, failed>>
     ELSE Connect("bind", 0, b, source, binding, bound, calls)
  /\ UNCHANGED <<source, dying>>

(* The setters have returned: the GBinding is stored, and the loop of      *)
(* set_source goes on with what is next in the array by now.               *)
Stored == [binding EXCEPT ![Head(calls).slot] = Head(calls).from]

Connected ==
  /\ MayCall /\ calls # <<>>
  /\ LET i == Head(calls).index + 1 IN
     IF Head(calls).at = "set_source" /\ i <= Len(lazy_bindings)
     THEN Connect("set_source", i, lazy_bindings[i], source, Stored, bound, Tail(calls))
     ELSE binding' = Stored /\ calls' = Tail(calls) /\ UNCHANGED <<bound, failed>>
  /\ UNCHANGED <<source, lazy_bindings, target, watched, dying>>

-----------------------------------------------------------------------------
Held == {calls[i].from : i \in DOMAIN calls} \cup {target[calls[i].slot] : i \in DOMAIN calls}

(* The source dies: dzl_binding_group__source_weak_notify, then those of   *)
(* the GBindings, which drop themselves.                                   *)
SourceDies(s) ==
  /\ MayCall /\ s \notin Held /\ watched[s] > 0
  /\ watched' = [watched EXCEPT ![s] = 0]
  /\ source' = None
  /\ binding' = Unbound
  /\ bound' = {p \in bound : p[1] # s}
  /\ UNCHANGED <<lazy_bindings, target, dying, calls, failed>>

TargetDies(t) ==
  /\ MayCall /\ t \notin Held /\ watched[t] > 0
  /\ ~InLoop \/ "unref" \in Reentrant
  /\ dying' = t
  /\ UNCHANGED <<source, lazy_bindings, target, binding, bound, watched, calls, failed>>

(* dzl_binding_group__target_weak_notify, called once for every lazy       *)
(* binding to that target; each call frees the first there is.             *)
TargetNotified ==
  /\ ~failed /\ dying # None
  /\ \E i \in DOMAIN lazy_bindings :
       /\ target[lazy_bindings[i]] = dying
       /\ \A j \in 1..(i - 1) : target[lazy_bindings[j]] # dying
       /\ lazy_bindings' = RemoveFast(lazy_bindings, i)
       /\ target' = [target EXCEPT ![lazy_bindings[i]] = None]
       /\ binding' = [binding EXCEPT ![lazy_bindings[i]] = None]
       /\ bound' = {p \in bound : p[2] # lazy_bindings[i]}
  /\ watched' = [watched EXCEPT ![dying] = @ - 1]
  /\ dying' = IF watched'[dying] = 0 THEN None ELSE dying
  /\ UNCHANGED <<source, calls, failed>>

(* dzl_binding_group_dispose, with lazy_binding_free for each; what        *)
(* follows is a new group.                                                 *)
Dispose ==
  /\ MayCall /\ calls = <<>>
  /\ source' = None
  /\ lazy_bindings' = <<>>
  /\ target' = [b \in Slot |-> None]
  /\ binding' = Unbound
  /\ bound' = LeftBound
  /\ watched' = [o \in Source \cup Target |->
                   watched[o] - (IF o = source THEN 1 ELSE 0)
                              - Cardinality({b \in Listed : target[b] = o})]
  /\ UNCHANGED <<dying, calls, failed>>

Next ==
  \/ \E s \in Source \cup {None} : SetSource(s)
  \/ \E b \in Slot, t \in Target : BindHelper(b, t)
  \/ \E s \in Source : SourceDies(s)
  \/ \E t \in Target : TargetDies(t)
  \/ Connected \/ TargetNotified \/ Dispose

Spec == Init /\ [][Next]_vars

-----------------------------------------------------------------------------
(* Properties *)

TypeOK ==
  /\ source \in Source \cup {None}
  /\ lazy_bindings \in Seq(Slot)
  /\ target \in [Slot -> Target \cup {None}]
  /\ binding \in [Slot -> Source \cup {None}]
  /\ bound \subseteq (Source \cup {None}) \X Slot
  /\ watched \in [Source \cup Target -> Nat]
  /\ dying \in Target \cup {None}
  /\ calls \in Seq([at : {"set_source", "bind"}, index : Nat, slot : Slot,
                    from : Source \cup {None}])
  /\ failed \in BOOLEAN

(* "This automatically causes the unbinding of the properties from the old *)
(* instance and binding to the new instance", line 41: once the calls have *)
(* returned, every bound property has one GBinding, from the source of the *)
(* moment, and no other is left; and no lazy binding ever points to a      *)
(* GBinding that is gone.                                                  *)
FollowsSource ==
  /\ calls = <<>> /\ dying = None =>
       /\ bound = IF source = None THEN {} ELSE {source} \X Listed
       /\ \A b \in Listed : binding[b] = source
  /\ \A b \in Slot : binding[b] # None => <<binding[b], b>> \in bound

(* Weak notifies are pointers to the group kept in other objects: the      *)
(* source holds one, each target one for every lazy binding to it, and     *)
(* nothing else any, also between the notifies of a target that dies.      *)
WatchesItsObjects ==
  \A o \in Source \cup Target :
    watched[o] = (IF o = source THEN 1 ELSE 0) + Cardinality({b \in Listed : target[b] = o})

(* g_assert (self->source != NULL), line 115, and                          *)
(* g_assert (lazy_binding->binding == NULL), line 117, hold.               *)
AssertionsHold == ~failed

(* All three together: what a binding group promises to who binds.         *)
BindingsFollow == FollowsSource /\ WatchesItsObjects /\ AssertionsHold
=============================================================================

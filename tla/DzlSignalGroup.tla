--------------------------- MODULE DzlSignalGroup ---------------------------
(***************************************************************************)
(* bindings/dzl-signal-group.c: signal handlers that stay connected to     *)
(* whatever object is the target, while targets are replaced, die, or the  *)
(* objects some handlers belong to die.                                    *)
(*                                                                         *)
(* All of it is one thread, but "bind" and "unbind" are emitted in the     *)
(* middle of the calls and their handlers call back: every call that emits *)
(* leaves a frame on the stack `calls' until the emission returns.  What   *)
(* notify::target runs comes last in a call and needs no frame.            *)
(*                                                                         *)
(* GObject clears weak references before it disposes of an object, and     *)
(* disconnects and runs weak notifies after the class's own dispose: in    *)
(* between the target is "dying", and so is a frame of its own.            *)
(*                                                                         *)
(* A handler of a set_target call that fails the type check changes        *)
(* nothing; targets here are of the right type.                            *)
(***************************************************************************)
EXTENDS Integers, Sequences

CONSTANTS
  Object,          \* what can be the target
  None,            \* NULL
  Handler,         \* slots of self->handlers
  MaxBlocks,       \* bound on block_count
  MaxDepth,        \* bound on the calls nested in one another's emissions
  SwitchInUnbind,  \* do handlers of "unbind" set the target?
  UsedInDispose    \* is the group used while a target is dying?

ConstantsType ==
  /\ None \notin Object
  /\ MaxBlocks \in Nat /\ MaxDepth \in Nat
  /\ SwitchInUnbind \in BOOLEAN /\ UsedInDispose \in BOOLEAN

VARIABLES
  life,         \* each object: alive, dying or gone
  target,       \* self->target_ref
  watching,     \* how many weak notifies of the group each object holds
  bound_once,   \* self->has_bound_at_least_once
  block_count,
  closure,      \* the closure of each handler: "none" when the slot is free
  handler_id,   \* the object the handler's id was given by; None for 0
  connected,    \* GLib's side: how often each connection is blocked, -1 for none
  calls,        \* the emissions that are running, the innermost first
  failed        \* a g_assert has failed

vars == <<life, target, watching, bound_once, block_count, closure,
          handler_id, connected, calls, failed>>

Frame(at, old, next) == [at |-> at, old |-> old, next |-> next]
At(where) == calls # <<>> /\ Head(calls).at = where
Unbinding == {"unbind", "dispose"}

-----------------------------------------------------------------------------
Init ==
  /\ life = [o \in Object |-> "alive"]
  /\ target = None
  /\ watching = [o \in Object |-> 0]
  /\ bound_once = FALSE
  /\ block_count = 0
  /\ closure = [h \in Handler |-> "none"]
  /\ handler_id = [h \in Handler |-> None]
  /\ connected = [o \in Object |-> [h \in Handler |-> -1]]
  /\ calls = <<>>
  /\ failed = FALSE

(* Callers keep to the documented use, as far as the constants say so. *)
MayCall == ~failed /\ (UsedInDispose \/ ~At("dying"))
MayNest == MayCall /\ Len(calls) < MaxDepth
MaySwitch ==
  MayNest /\ (SwitchInUnbind \/ \A i \in DOMAIN calls : calls[i].at \notin Unbinding)

(* dzl_signal_group_gc_handlers *)
Collected == [h \in Handler |-> IF closure[h] = "invalid" THEN "none" ELSE closure[h]]

(* dzl_signal_group_bind_handler for every handler in hs; called with the  *)
(* handlers' ids as they are in ids.                                       *)
BindHandlers_Unblocked(hs, o, ids) ==
  /\ failed' = (\E h \in hs : ids[h] # None)
  /\ handler_id' = [h \in Handler |-> IF h \in hs THEN o ELSE ids[h]]
  /\ connected' = [connected EXCEPT ![o] =
                     [h \in Handler |-> IF h \in hs THEN 0 ELSE @[h]]]
BindHandlers(hs, o, ids) ==
  /\ failed' = (\E h \in hs : ids[h] # None)
  /\ handler_id' = [h \in Handler |-> IF h \in hs THEN o ELSE ids[h]]
  /\ connected' = [connected EXCEPT ![o] =
                     [h \in Handler |-> IF h \in hs THEN block_count ELSE @[h]]]

(* dzl_signal_group_bind up to the emission of "bind", with under already  *)
(* popped from the stack; nothing for NULL.                                *)
Bind(o, under) ==
  IF o = None
  THEN /\ calls' = under
       /\ UNCHANGED <<target, watching, bound_once, closure, handler_id, connected, failed>>
  ELSE /\ bound_once' = TRUE
       /\ target' = o
       /\ watching' = [watching EXCEPT ![o] = @ + 1]
       /\ closure' = Collected
       /\ BindHandlers({h \in Handler : Collected[h] = "valid"}, o,
                       [h \in Handler |-> IF Collected[h] = "none" THEN None ELSE handler_id[h]])
       /\ calls' = <<Frame("bind", None, o)>> \o under

(* dzl_signal_group_unbind up to the emission of "unbind". *)
Unbind_StillWatching(where, next) ==
  /\ target' = None
  /\ watching' = watching
  /\ closure' = Collected
  /\ handler_id' = [h \in Handler |-> None]
  /\ connected' = [o \in Object |-> [h \in Handler |->
                     IF o = target /\ handler_id[h] # None THEN -1 ELSE connected[o][h]]]
  /\ calls' = <<Frame(where, target, next)>> \o calls
Unbind_IdsKept(where, next) ==
  /\ target' = None
  /\ watching' = [o \in Object |-> IF o = target /\ watching[o] > 0
                                   THEN watching[o] - 1 ELSE watching[o]]
  /\ closure' = Collected
  /\ handler_id' = handler_id
  /\ connected' = [o \in Object |-> [h \in Handler |->
                     IF o = target /\ handler_id[h] # None THEN -1 ELSE connected[o][h]]]
  /\ calls' = <<Frame(where, target, next)>> \o calls
Unbind(where, next) ==
  /\ target' = None
  /\ watching' = [o \in Object |-> IF o = target /\ watching[o] > 0
                                   THEN watching[o] - 1 ELSE watching[o]]
  /\ closure' = Collected
  /\ handler_id' = [h \in Handler |-> None]
  /\ connected' = [o \in Object |-> [h \in Handler |->
                     IF o = target /\ handler_id[h] # None THEN -1 ELSE connected[o][h]]]
  /\ calls' = <<Frame(where, target, next)>> \o calls

-----------------------------------------------------------------------------
(* dzl_signal_group_set_target; "unbind" is left out before the first bind. *)
SetTarget(o) ==
  /\ MaySwitch
  /\ o # target
  /\ o # None => life[o] = "alive"
  /\ IF bound_once
     THEN Unbind("unbind", o) /\ UNCHANGED <<bound_once, failed>>
     ELSE Bind(o, calls)
  /\ UNCHANGED <<life, block_count>>

(* The handlers of "unbind" have returned: on to dzl_signal_group_bind. *)
UnbindEmitted ==
  /\ ~failed /\ At("unbind")
  /\ Bind(Head(calls).next, Tail(calls))
  /\ UNCHANGED <<life, block_count>>

BindEmitted ==
  /\ ~failed /\ (At("bind") \/ At("lost"))
  /\ calls' = Tail(calls)
  /\ UNCHANGED <<life, target, watching, bound_once, block_count, closure,
                 handler_id, connected, failed>>

(* dzl_signal_group_connect_full *)
Connect(h) ==
  /\ MayCall
  /\ closure[h] = "none"
  /\ IF target = None
     THEN UNCHANGED <<connected, failed>> /\ handler_id' =
            [i \in Handler |-> IF closure[i] = "invalid" THEN None ELSE handler_id[i]]
     ELSE BindHandlers({h}, target,
            [i \in Handler |-> IF closure[i] = "invalid" THEN None ELSE handler_id[i]])
  /\ closure' = [Collected EXCEPT ![h] = "valid"]
  /\ UNCHANGED <<life, target, watching, bound_once, block_count, calls>>

(* g_object_watch_closure(): the data of a handler dies, GLib disconnects  *)
(* it everywhere; the slot is collected later.                             *)
Invalidate(h) ==
  /\ MayCall
  /\ closure[h] = "valid"
  /\ closure' = [closure EXCEPT ![h] = "invalid"]
  /\ connected' = [o \in Object |-> [connected[o] EXCEPT ![h] = -1]]
  /\ UNCHANGED <<life, target, watching, bound_once, block_count, handler_id, calls, failed>>

(* dzl_signal_group_block (by 1) and _unblock (by -1): GLib only warns     *)
(* about the id of a connection that is gone.                              *)
Count_Unguarded(by) ==
  /\ MayCall
  /\ block_count + by <= MaxBlocks
  /\ block_count' = block_count + by
  /\ IF target = None
     THEN UNCHANGED <<connected, failed>>
     ELSE /\ failed' = (\E h \in Handler : closure[h] # "none" /\ handler_id[h] = None)
          /\ connected' = [connected EXCEPT ![target] =
               [h \in Handler |-> IF closure[h] # "none" /\ @[h] >= 0 THEN @[h] + by ELSE @[h]]]
  /\ UNCHANGED <<life, target, watching, bound_once, closure, handler_id, calls>>
Count(by) ==
  /\ MayCall
  /\ block_count + by \in 0..MaxBlocks
  /\ block_count' = block_count + by
  /\ IF target = None
     THEN UNCHANGED <<connected, failed>>
     ELSE /\ failed' = (\E h \in Handler : closure[h] # "none" /\ handler_id[h] = None)
          /\ connected' = [connected EXCEPT ![target] =
               [h \in Handler |-> IF closure[h] # "none" /\ @[h] >= 0 THEN @[h] + by ELSE @[h]]]
  /\ UNCHANGED <<life, target, watching, bound_once, closure, handler_id, calls>>

Block == Count(1)
Unblock == Count(-1)

(* dzl_signal_group_dispose, up to the emission in it ... *)
Dispose ==
  /\ MayNest
  /\ calls = <<>>
  /\ bound_once
  /\ Unbind("dispose", None)
  /\ UNCHANGED <<life, bound_once, block_count, failed>>

(* ... and the rest: freeing a handler invalidates its closure.  What      *)
(* follows is a new group.                                                 *)
Disposed ==
  /\ ~failed /\ At("dispose")
  /\ target' = None
  /\ bound_once' = FALSE
  /\ block_count' = 0
  /\ closure' = [h \in Handler |-> "none"]
  /\ handler_id' = [h \in Handler |-> None]
  /\ connected' = [o \in Object |-> [h \in Handler |-> -1]]
  /\ calls' = Tail(calls)
  /\ UNCHANGED <<life, watching, failed>>

(* The last reference to an object goes; frames of the group hold one to   *)
(* the target they bind or unbind.                                         *)
Held == {calls[i].old : i \in DOMAIN calls} \cup {calls[i].next : i \in DOMAIN calls}

Unref(o) ==
  /\ MayNest
  /\ life[o] = "alive" /\ o \notin Held
  /\ life' = [life EXCEPT ![o] = "dying"]
  /\ target' = IF target = o THEN None ELSE target
  /\ calls' = <<Frame("dying", o, None)>> \o calls
  /\ UNCHANGED <<watching, bound_once, block_count, closure, handler_id, connected, failed>>

(* g_object_real_dispose(): connections go, then weak notifies are called, *)
(* among them dzl_signal_group__target_weak_notify.                        *)
WeakNotify(o) ==
  /\ ~failed /\ At("dying") /\ Head(calls).old = o
  /\ connected' = [connected EXCEPT ![o] = [h \in Handler |-> -1]]
  /\ watching' = [watching EXCEPT ![o] = 0]
  /\ life' = [life EXCEPT ![o] = "gone"]
  /\ IF watching[o] = 0
     THEN calls' = Tail(calls) /\ UNCHANGED <<target, handler_id>>
     ELSE /\ target' = None
          /\ handler_id' = [h \in Handler |-> None]
          /\ calls' = <<Frame("lost", o, None)>> \o Tail(calls)
  /\ UNCHANGED <<bound_once, block_count, closure, failed>>

(* Another object is made where a finalized one was. *)
NewObject(o) ==
  /\ MayCall
  /\ life[o] = "gone" /\ o \notin Held
  /\ life' = [life EXCEPT ![o] = "alive"]
  /\ UNCHANGED <<target, watching, bound_once, block_count, closure,
                 handler_id, connected, calls, failed>>

Next ==
  \/ \E o \in Object \cup {None} : SetTarget(o)
  \/ \E o \in Object : Unref(o) \/ WeakNotify(o) \/ NewObject(o)
  \/ \E h \in Handler : Connect(h) \/ Invalidate(h)
  \/ Block \/ Unblock
  \/ UnbindEmitted \/ BindEmitted \/ Dispose \/ Disposed

Spec == Init /\ [][Next]_vars

-----------------------------------------------------------------------------
(* Properties *)

TypeOK ==
  /\ life \in [Object -> {"alive", "dying", "gone"}]
  /\ target \in Object \cup {None}
  /\ watching \in [Object -> Nat]
  /\ bound_once \in BOOLEAN
  /\ block_count \in 0..MaxBlocks
  /\ closure \in [Handler -> {"none", "valid", "invalid"}]
  /\ handler_id \in [Handler -> Object \cup {None}]
  /\ connected \in [Object -> [Handler -> Int]]
  /\ calls \in Seq([at : {"unbind", "bind", "dying", "lost", "dispose"},
                    old : Object \cup {None}, next : Object \cup {None}])
  /\ failed \in BOOLEAN

(* Whatever was replaced, lost or connected in whatever order, even while  *)
(* handlers of "bind" and "unbind" run: the live handlers are connected to *)
(* the target of the moment, blocked as often as the group is, and nothing *)
(* is connected to any other object that still can emit.                   *)
FollowsTarget ==
  \A o \in Object, h \in Handler :
    life[o] # "dying" =>
      connected[o][h] = IF o = target /\ closure[h] = "valid" THEN block_count ELSE -1

(* A weak notify is a pointer to the group kept in the object: exactly the *)
(* target, or an object about to notify, has one, and exactly one.         *)
WatchesTarget ==
  \A o \in Object :
    /\ watching[o] \in {0, 1}
    /\ o = target => watching[o] = 1
    /\ watching[o] = 1 => o = target \/ life[o] = "dying"

(* None of the assertions on handler ids fails: handler_id == 0 before a   *)
(* handler is bound (line 182), handler_id != 0 when block and unblock     *)
(* find a target (lines 335, 374).                                         *)
AssertionsHold == ~failed
=============================================================================

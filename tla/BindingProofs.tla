--------------------------- MODULE BindingProofs ---------------------------
(***************************************************************************)
(* Proofs about what follows another object, for every value of the        *)
(* constants: DzlSignalGroup, whose names are used as they are;            *)
(* DzlBindingGroup, whose names have BG! before them; and DzlStateMachine, *)
(* with SM!.                                                               *)
(***************************************************************************)
EXTENDS DzlSignalGroup, FiniteSetTheorems, TLAPS

(* The binding group: its constants and variables as DzlBindingGroup names *)
(* them; where the signal group has one of the same name, it stands for    *)
(* either, for a theorem is about the specification of one of them.        *)
CONSTANTS Source, Target, Slot, Reentrant
VARIABLES source, lazy_bindings, binding, bound, watched, dying

BG == INSTANCE DzlBindingGroup

(* The state machine: its constants and variables as DzlStateMachine names *)
(* them, except for the bound on its calls and the calls.                  *)
CONSTANTS State, MaxCalls, MaxEntries
VARIABLES state, entries, sourced, value, shown, late, overtaken, transitions

SM == INSTANCE DzlStateMachine WITH MaxDepth <- MaxCalls, calls <- transitions

-----------------------------------------------------------------------------
(* Signal groups with any number of objects and handlers, and any depth of *)
(* calls nested in one another's emissions: the handlers follow the        *)
(* target, the group is watching exactly its target, and no assertion on a *)
(* handler's id fails.  Handlers of "unbind" do not set the target, and    *)
(* the group is not used while a target is dying.                          *)
Documented == ConstantsType /\ ~SwitchInUnbind /\ ~UsedInDispose

Frames == [at : {"unbind", "bind", "dying", "lost", "dispose"},
           old : Object \cup {None}, next : Object \cup {None}]

-----------------------------------------------------------------------------
(* The stack: only the innermost frame can be one of a dying object, and   *)
(* at most one is that of an "unbind".                                     *)
OnStack(s) == {s[i] : i \in DOMAIN s}

WellNested(s) ==
  /\ s \in Seq(Frames)
  /\ \A i \in DOMAIN s : i # 1 => s[i].at # "dying"
  /\ \A i, j \in DOMAIN s : s[i].at \in Unbinding /\ s[j].at \in Unbinding => i = j

LEMMA FrameType ==
  ASSUME NEW at \in {"unbind", "bind", "dying", "lost", "dispose"},
         NEW old \in Object \cup {None}, NEW next \in Object \cup {None}
  PROVE  /\ Frame(at, old, next) \in Frames
         /\ Frame(at, old, next).at = at
         /\ Frame(at, old, next).old = old
         /\ Frame(at, old, next).next = next
  BY DEF Frame, Frames

(* A call that emits is nested in those that are running. *)
LEMMA Push ==
  ASSUME NEW s, WellNested(s), NEW f \in Frames,
         s # <<>> => Head(s).at # "dying",
         f.at \in Unbinding => \A g \in OnStack(s) : g.at \notin Unbinding
  PROVE  /\ WellNested(<<f>> \o s)
         /\ <<f>> \o s # <<>>
         /\ Head(<<f>> \o s) = f
         /\ OnStack(<<f>> \o s) = {f} \cup OnStack(s)
<1> DEFINE t == <<f>> \o s
<1>1. s \in Seq(Frames) /\ DOMAIN s = 1..Len(s) /\ Len(s) \in Nat
  BY DEF WellNested
<1>2. /\ t \in Seq(Frames) /\ Len(t) = Len(s) + 1 /\ DOMAIN t = 1..(Len(s) + 1)
      /\ t[1] = f /\ \A i \in 1..Len(s) : t[i + 1] = s[i]
  BY <1>1
<1>3. \A i \in DOMAIN t : i = 1 \/ (i - 1 \in DOMAIN s /\ t[i] = s[i - 1])
  BY <1>1, <1>2
<1>4. s # <<>> => Head(s) = s[1]
  BY <1>1
<1>5. WellNested(t)
  <2>1. \A i \in DOMAIN t : i # 1 => t[i].at # "dying"
    BY <1>1, <1>2, <1>3, <1>4 DEF WellNested
  <2>2. ASSUME NEW i \in DOMAIN t, NEW j \in DOMAIN t,
               t[i].at \in Unbinding, t[j].at \in Unbinding
        PROVE  i = j
    <3>1. CASE i = 1 /\ j = 1
      BY <3>1
    <3>2. CASE i = 1 /\ j # 1
      BY <1>2, <1>3, <2>2, <3>2 DEF OnStack
    <3>3. CASE i # 1 /\ j = 1
      BY <1>2, <1>3, <2>2, <3>3 DEF OnStack
    <3>4. CASE i # 1 /\ j # 1
      <4>1. i - 1 = j - 1
        BY <1>3, <2>2, <3>4 DEF WellNested
      <4>2. QED BY <4>1, <1>2
    <3>5. QED BY <3>1, <3>2, <3>3, <3>4
  <2>3. QED BY <1>2, <2>1, <2>2 DEF WellNested
<1>6. OnStack(t) = {f} \cup OnStack(s)
  <2>1. OnStack(t) \subseteq {f} \cup OnStack(s)
    BY <1>2, <1>3 DEF OnStack
  <2>2. f \in OnStack(t)
    BY <1>1, <1>2 DEF OnStack
  <2>3. ASSUME NEW i \in DOMAIN s PROVE s[i] \in OnStack(t)
    <3>1. i + 1 \in DOMAIN t /\ t[i + 1] = s[i]
      BY <1>1, <1>2, <2>3
    <3>2. QED BY <3>1 DEF OnStack
  <2>4. QED BY <2>1, <2>2, <2>3 DEF OnStack
<1>7. t # <<>> /\ Head(t) = f
  BY <1>1, <1>2
<1>8. QED BY <1>5, <1>6, <1>7

(* An emission returns to the call it is nested in. *)
LEMMA Pop ==
  ASSUME NEW s, WellNested(s), s # <<>>
  PROVE  /\ WellNested(Tail(s))
         /\ Head(s) \in OnStack(s) /\ Head(s) \in Frames
         /\ Tail(s) # <<>> => Head(Tail(s)).at # "dying"
         /\ OnStack(Tail(s)) \subseteq OnStack(s)
         /\ Head(s).at \in Unbinding => \A g \in OnStack(Tail(s)) : g.at \notin Unbinding
<1> DEFINE t == Tail(s)
<1>1. s \in Seq(Frames) /\ DOMAIN s = 1..Len(s) /\ Len(s) \in Nat \ {0} /\ Head(s) = s[1]
  BY DEF WellNested
<1>2. /\ t \in Seq(Frames) /\ Len(t) = Len(s) - 1 /\ DOMAIN t = 1..(Len(s) - 1)
      /\ \A i \in 1..(Len(s) - 1) : t[i] = s[i + 1]
  BY <1>1
<1>3. \A i \in DOMAIN t : i + 1 \in DOMAIN s /\ i + 1 # 1 /\ t[i] = s[i + 1]
  BY <1>1, <1>2
<1>4. WellNested(t)
  <2>1. \A i \in DOMAIN t : i # 1 => t[i].at # "dying"
    BY <1>3 DEF WellNested
  <2>2. ASSUME NEW i \in DOMAIN t, NEW j \in DOMAIN t,
               t[i].at \in Unbinding, t[j].at \in Unbinding
        PROVE  i = j
    <3>1. i + 1 = j + 1
      BY <1>3, <2>2 DEF WellNested
    <3>2. QED BY <3>1, <1>2
  <2>3. QED BY <1>2, <2>1, <2>2 DEF WellNested
<1>5. Head(s) \in OnStack(s) /\ Head(s) \in Frames
  BY <1>1 DEF OnStack
<1>6. t # <<>> => Head(t).at # "dying"
  <2>1. t # <<>> => 1 \in DOMAIN t /\ Head(t) = t[1]
    BY <1>2
  <2>2. QED BY <2>1, <1>3 DEF WellNested
<1>7. OnStack(t) \subseteq OnStack(s)
  BY <1>3 DEF OnStack
<1>8. Head(s).at \in Unbinding => \A g \in OnStack(t) : g.at \notin Unbinding
  <2>1. ASSUME Head(s).at \in Unbinding, NEW i \in DOMAIN t PROVE t[i].at \notin Unbinding
    BY <1>1, <1>3, <2>1 DEF WellNested
  <2>2. QED BY <2>1 DEF OnStack
<1>9. QED BY <1>4, <1>5, <1>6, <1>7, <1>8

-----------------------------------------------------------------------------
(* The inductive invariant.  GLib tells the group of a target's death in   *)
(* two steps: the weak reference is NULL before the weak notify is called. *)
(* In between, what the handlers and the group follow is the dying object. *)
Following ==
  IF At("dying") /\ watching[Head(calls).old] = 1 THEN Head(calls).old ELSE target

Stacked ==
  /\ WellNested(calls)
  /\ \A f \in OnStack(calls) :
       /\ f.at \in Unbinding => target = None
       /\ f.next # None => life[f.next] = "alive"

Living ==
  /\ target # None => life[target] = "alive"
  /\ At("dying") => Head(calls).old \in Object
  /\ \A o \in Object : life[o] = "dying" <=> At("dying") /\ Head(calls).old = o
  /\ ~bound_once => Following = None
  /\ Following # target => target = None

Watched == \A o \in Object : watching[o] = IF o = Following THEN 1 ELSE 0

Identified == \A h \in Handler : handler_id[h] = IF closure[h] = "none" THEN None ELSE Following

Connected ==
  \A o \in Object, h \in Handler :
    connected[o][h] = IF o = Following /\ closure[h] = "valid" THEN block_count ELSE -1

Types ==
  /\ life \in [Object -> {"alive", "dying", "gone"}]
  /\ target \in Object \cup {None}
  /\ watching \in [Object -> Nat]
  /\ bound_once \in BOOLEAN
  /\ block_count \in 0..MaxBlocks
  /\ closure \in [Handler -> {"none", "valid", "invalid"}]
  /\ handler_id \in [Handler -> Object \cup {None}]
  /\ connected \in [Object -> [Handler -> Int]]
  /\ failed = FALSE

Inv == Types /\ Stacked /\ Living /\ Watched /\ Identified /\ Connected

-----------------------------------------------------------------------------
LEMMA InvInit == Documented /\ Init => Inv
<1> SUFFICES ASSUME Documented, Init PROVE Inv
  OBVIOUS
<1>1. WellNested(calls) /\ OnStack(calls) = {}
  BY DEF Init, WellNested, OnStack
<1>2. Following = None /\ ~At("dying")
  BY DEF Init, Following, At
<1>3. Stacked
  BY <1>1 DEF Stacked
<1>4. Types
  <2>1. connected \in [Object -> [Handler -> Int]]
    BY -1 \in Int DEF Init
  <2>2. block_count \in 0..MaxBlocks
    BY DEF Init, Documented, ConstantsType
  <2>3. QED BY <2>1, <2>2 DEF Init, Types
<1>5. Living /\ Watched /\ Identified /\ Connected
  BY <1>2 DEF Init, Living, Watched, Identified, Connected, Documented, ConstantsType
<1>6. QED BY <1>3, <1>4, <1>5 DEF Inv

(* No object is dying while callers act. *)
LEMMA Quiet ==
  ASSUME Documented, Inv, MayCall
  PROVE  /\ ~At("dying") /\ Following = target
         /\ calls # <<>> => Head(calls).at # "dying"
         /\ \A o \in Object : life[o] # "dying"
  BY DEF Documented, Inv, MayCall, Following, Living, At

(* dzl_signal_group_bind, to an object that lives and while the group      *)
(* follows none, with or without a frame to return to.                     *)
LEMMA BindKeeps ==
  ASSUME Documented, Types, NEW o \in Object \cup {None}, NEW under, Bind(o, under),
         WellNested(under), under # <<>> => Head(under).at # "dying",
         o # None => life[o] = "alive" /\ \A f \in OnStack(under) : f.at \notin Unbinding,
         \A f \in OnStack(under) : f.next # None => life[f.next] = "alive",
         \A p \in Object : life[p] # "dying",
         target = None, Following = None,
         Watched, Identified, Connected,
         UNCHANGED <<life, block_count>>
  PROVE  Inv'
<1>1. CASE o = None
  <2>1. /\ calls' = under
        /\ UNCHANGED <<target, watching, bound_once, closure, handler_id, connected, failed>>
    BY <1>1 DEF Bind
  <2>2. ~At("dying")' /\ Following' = None
    BY <2>1 DEF At, Following
  <2>3. Types'
    BY <2>1 DEF Types
  <2>4. Stacked'
    BY <2>1 DEF Stacked
  <2>5. Living'
    BY <2>1, <2>2 DEF Living
  <2>6. Watched' /\ Identified' /\ Connected'
    BY <2>1, <2>2 DEF Watched, Identified, Connected
  <2>7. QED BY <2>3, <2>4, <2>5, <2>6 DEF Inv
<1>2. CASE o # None
  <2> DEFINE f == Frame("bind", None, o)
  <2>1. /\ bound_once' = TRUE /\ target' = o
        /\ watching' = [watching EXCEPT ![o] = @ + 1]
        /\ closure' = Collected
        /\ BindHandlers({h \in Handler : Collected[h] = "valid"}, o,
                       [h \in Handler |-> IF Collected[h] = "none" THEN None ELSE handler_id[h]])
        /\ calls' = <<f>> \o under
    BY <1>2 DEF Bind
  <2>2. o \in Object /\ o # None
    BY <1>2
  <2>3. f \in Frames /\ f.at = "bind" /\ f.next = o
    BY <2>2, FrameType
  <2>4. /\ WellNested(calls') /\ calls' # <<>> /\ Head(calls') = f
        /\ OnStack(calls') = {f} \cup OnStack(under)
    <3>1. f.at \notin Unbinding
      BY <2>3 DEF Unbinding
    <3> HIDE DEF f
    <3>2. QED BY <2>1, <2>3, <3>1, Push
  <2>5. ~At("dying")' /\ Following' = o
    BY <2>1, <2>3, <2>4 DEF At, Following
  <2>6. \A h \in Handler : closure'[h] \in {"none", "valid"}
          /\ (closure'[h] = "valid" <=> closure[h] = "valid")
    BY <2>1 DEF Collected, Types
  <2>7. \A h \in Handler : handler_id[h] = None
    BY DEF Identified
  <2>8. /\ failed' = FALSE
        /\ handler_id' = [h \in Handler |-> IF closure'[h] = "valid" THEN o ELSE None]
        /\ connected' = [connected EXCEPT ![o] =
              [h \in Handler |-> IF closure'[h] = "valid" THEN block_count ELSE @[h]]]
    BY <2>1, <2>6, <2>7 DEF BindHandlers, Types
  <2>9. Types'
    <3>1. closure' \in [Handler -> {"none", "valid", "invalid"}]
      BY <2>1 DEF Collected, Types
    <3>2. connected' \in [Object -> [Handler -> Int]]
      <4>1. /\ block_count \in Int
            /\ connected[o] \in [Handler -> Int]
            /\ connected \in [Object -> [Handler -> Int]]
        BY <2>2 DEF Types, Documented, ConstantsType
      <4>2. [h \in Handler |-> IF closure'[h] = "valid" THEN block_count ELSE connected[o][h]]
              \in [Handler -> Int]
        BY <4>1
      <4>3. QED BY <2>8, <4>1, <4>2
    <3>3. QED BY <2>1, <2>2, <2>8, <3>1, <3>2 DEF Types
  <2>10. Stacked'
    BY <2>1, <2>2, <2>3, <2>4 DEF Stacked, Unbinding
  <2>11. Living'
    BY <2>1, <2>2, <2>5 DEF Living
  <2>12. Watched'
    BY <2>1, <2>2, <2>5 DEF Watched, Types, Documented, ConstantsType
  <2>13. Identified'
    BY <2>5, <2>6, <2>8 DEF Identified
  <2>14. Connected'
    BY <2>2, <2>5, <2>6, <2>8 DEF Connected, Types, Documented, ConstantsType
  <2>15. QED BY <2>9, <2>10, <2>11, <2>12, <2>13, <2>14 DEF Inv
<1>3. QED BY <1>1, <1>2

(* dzl_signal_group_unbind, in set_target or in dispose: afterwards the    *)
(* group follows nothing, and one frame remembers what is to be bound.     *)
LEMMA UnbindKeeps ==
  ASSUME Documented, Inv, MayCall, NEW where \in Unbinding,
         NEW next \in Object \cup {None}, Unbind(where, next),
         next # None => life[next] = "alive",
         \A f \in OnStack(calls) : f.at \notin Unbinding,
         UNCHANGED <<life, bound_once, block_count, failed>>
  PROVE  Inv'
<1> DEFINE f == Frame(where, target, next)
<1>1. /\ target' = None
      /\ watching' = [o \in Object |-> IF o = target /\ watching[o] > 0
                                       THEN watching[o] - 1 ELSE watching[o]]
      /\ closure' = Collected
      /\ handler_id' = [h \in Handler |-> None]
      /\ connected' = [o \in Object |-> [h \in Handler |->
                         IF o = target /\ handler_id[h] # None THEN -1 ELSE connected[o][h]]]
      /\ calls' = <<f>> \o calls
  BY DEF Unbind
<1>2. /\ ~At("dying") /\ Following = target
      /\ calls # <<>> => Head(calls).at # "dying"
      /\ \A o \in Object : life[o] # "dying"
  BY Quiet
<1>3. f \in Frames /\ f.at = where /\ f.next = next /\ where # "dying"
  <2>1. where \in {"unbind", "bind", "dying", "lost", "dispose"} /\ where # "dying"
    BY DEF Unbinding
  <2>2. target \in Object \cup {None}
    BY DEF Inv, Types
  <2>3. QED BY <2>1, <2>2, FrameType
<1>4. /\ WellNested(calls') /\ calls' # <<>> /\ Head(calls') = f
      /\ OnStack(calls') = {f} \cup OnStack(calls)
  <2> HIDE DEF f
  <2>1. WellNested(calls)
    BY DEF Inv, Stacked
  <2>2. QED BY <1>1, <1>2, <1>3, <2>1, Push
<1>5. ~At("dying")' /\ Following' = None
  BY <1>1, <1>3, <1>4 DEF At, Following
<1>6. Types'
  <2>1. closure' \in [Handler -> {"none", "valid", "invalid"}]
    BY <1>1 DEF Collected, Inv, Types
  <2>2. watching' \in [Object -> Nat]
    BY <1>1 DEF Inv, Types
  <2>3. connected' \in [Object -> [Handler -> Int]]
    BY <1>1 DEF Inv, Types
  <2>4. QED BY <1>1, <2>1, <2>2, <2>3 DEF Inv, Types
<1>7. Stacked'
  BY <1>1, <1>3, <1>4 DEF Inv, Stacked
<1>8. Living'
  BY <1>1, <1>2, <1>5 DEF Inv, Living
<1>9. Watched'
  BY <1>1, <1>2, <1>5 DEF Inv, Watched, Documented, ConstantsType
<1>10. Identified'
  BY <1>1, <1>5 DEF Identified
<1>11. Connected'
  BY <1>1, <1>2, <1>5 DEF Inv, Identified, Connected, Collected, Documented, ConstantsType
<1>12. QED BY <1>6, <1>7, <1>8, <1>9, <1>10, <1>11 DEF Inv

LEMMA SetTargetKeeps ==
  ASSUME Documented, Inv, NEW o \in Object \cup {None}, SetTarget(o)
  PROVE  Inv'
<1>1. /\ MayCall /\ o # target /\ (o # None => life[o] = "alive")
      /\ UNCHANGED <<life, block_count>>
      /\ \A f \in OnStack(calls) : f.at \notin Unbinding
  BY DEF SetTarget, MaySwitch, MayNest, Documented, OnStack
<1>2. CASE bound_once
  <2>1. Unbind("unbind", o) /\ UNCHANGED <<bound_once, failed>>
    BY <1>2 DEF SetTarget
  <2>2. "unbind" \in Unbinding
    BY DEF Unbinding
  <2>3. QED BY <1>1, <2>1, <2>2, UnbindKeeps
<1>3. CASE ~bound_once
  <2>1. Bind(o, calls)
    BY <1>3 DEF SetTarget
  <2>2. /\ Following = target /\ target = None
        /\ calls # <<>> => Head(calls).at # "dying"
        /\ \A p \in Object : life[p] # "dying"
    BY <1>1, <1>3, Quiet DEF Inv, Living
  <2>3. WellNested(calls) /\ \A f \in OnStack(calls) : f.next # None => life[f.next] = "alive"
    BY DEF Inv, Stacked
  <2>4. Types /\ Watched /\ Identified /\ Connected
    BY DEF Inv
  <2>5. QED BY <1>1, <2>1, <2>2, <2>3, <2>4, BindKeeps
<1>4. QED BY <1>2, <1>3

LEMMA UnbindEmittedKeeps ==
  ASSUME Documented, Inv, UnbindEmitted
  PROVE  Inv'
<1> DEFINE o == Head(calls).next
           under == Tail(calls)
<1>1. /\ ~failed /\ calls # <<>> /\ Head(calls).at = "unbind"
      /\ Bind(o, under) /\ UNCHANGED <<life, block_count>>
  BY DEF UnbindEmitted, At
<1>2. WellNested(calls)
  BY DEF Inv, Stacked
<1>3. /\ WellNested(under) /\ OnStack(under) \subseteq OnStack(calls)
      /\ Head(calls) \in OnStack(calls) /\ Head(calls) \in Frames
      /\ under # <<>> => Head(under).at # "dying"
      /\ \A f \in OnStack(under) : f.at \notin Unbinding
  BY <1>1, <1>2, Pop DEF Unbinding
<1>4. ~At("dying") /\ Following = target /\ \A p \in Object : life[p] # "dying"
  BY <1>1 DEF At, Following, Inv, Living
<1>5. target = None
  BY <1>1, <1>3 DEF Inv, Stacked, Unbinding
<1>6. \A f \in OnStack(calls) : f.next # None => life[f.next] = "alive"
  BY DEF Inv, Stacked
<1>7. o \in Object \cup {None} /\ (o # None => life[o] = "alive")
  BY <1>3, <1>6 DEF Frames
<1>8. Types /\ Watched /\ Identified /\ Connected
  BY DEF Inv
<1> HIDE DEF o, under
<1>9. QED BY <1>1, <1>3, <1>4, <1>5, <1>6, <1>7, <1>8, BindKeeps

LEMMA BindEmittedKeeps ==
  ASSUME Documented, Inv, BindEmitted
  PROVE  Inv'
<1>1. /\ calls # <<>> /\ Head(calls).at \in {"bind", "lost"} /\ calls' = Tail(calls)
      /\ UNCHANGED <<life, target, watching, bound_once, block_count, closure,
                     handler_id, connected, failed>>
  BY DEF BindEmitted, At
<1>2. WellNested(calls)
  BY DEF Inv, Stacked
<1>3. /\ WellNested(calls') /\ OnStack(calls') \subseteq OnStack(calls)
      /\ calls' # <<>> => Head(calls').at # "dying"
  BY <1>1, <1>2, Pop
<1>4. ~At("dying") /\ Following = target /\ ~At("dying")' /\ Following' = target
  BY <1>1, <1>3 DEF At, Following
<1>5. Types' /\ Stacked'
  BY <1>1, <1>3 DEF Inv, Types, Stacked
<1>6. Living' /\ Watched' /\ Identified' /\ Connected'
  BY <1>1, <1>4 DEF Inv, Living, Watched, Identified, Connected
<1>7. QED BY <1>5, <1>6 DEF Inv

(* The actions that leave the stack, the target and the watching alone. *)
LEMMA SameTarget ==
  ASSUME Documented, Inv, ~At("dying"),
         UNCHANGED <<target, watching, bound_once, calls>>
  PROVE  ~At("dying")' /\ Following = target /\ Following' = target
  BY DEF At, Following

LEMMA ConnectKeeps ==
  ASSUME Documented, Inv, NEW h \in Handler, Connect(h)
  PROVE  Inv'
<1> DEFINE ids == [i \in Handler |-> IF closure[i] = "invalid" THEN None ELSE handler_id[i]]
<1>1. /\ MayCall /\ closure[h] = "none"
      /\ closure' = [Collected EXCEPT ![h] = "valid"]
      /\ UNCHANGED <<life, target, watching, bound_once, block_count, calls>>
  BY DEF Connect
<1>2. ~At("dying")' /\ Following = target /\ Following' = target
  BY <1>1, Quiet, SameTarget
<1>3. /\ closure' \in [Handler -> {"none", "valid", "invalid"}]
      /\ \A i \in Handler : closure'[i] = IF i = h THEN "valid"
                              ELSE IF closure[i] = "invalid" THEN "none" ELSE closure[i]
  BY <1>1 DEF Collected, Inv, Types
<1>4. /\ failed' = FALSE
      /\ handler_id' = [i \in Handler |-> IF closure'[i] = "valid" THEN target ELSE None]
      /\ connected' \in [Object -> [Handler -> Int]]
      /\ \A o \in Object, i \in Handler :
           connected'[o][i] = IF o = target /\ i = h THEN block_count ELSE connected[o][i]
  <2>1. CASE target = None
    <3>1. UNCHANGED <<connected, failed>> /\ handler_id' = ids
      BY <2>1 DEF Connect
    <3>2. QED BY <1>2, <1>3, <2>1, <3>1 DEF Inv, Types, Identified, Documented, ConstantsType
  <2>2. CASE target # None
    <3>1. BindHandlers({h}, target, ids)
      BY <2>2 DEF Connect
    <3>2. /\ failed' = (ids[h] # None)
          /\ handler_id' = [i \in Handler |-> IF i = h THEN target ELSE ids[i]]
          /\ connected' = [connected EXCEPT ![target] =
                [i \in Handler |-> IF i = h THEN block_count ELSE @[i]]]
      BY <3>1 DEF BindHandlers
    <3>3. failed' = FALSE
      BY <1>1, <3>2 DEF Inv, Identified
    <3>4. handler_id' = [i \in Handler |-> IF closure'[i] = "valid" THEN target ELSE None]
      BY <1>2, <1>3, <3>2 DEF Inv, Types, Identified
    <3>5. /\ target \in Object /\ block_count \in Int
          /\ connected \in [Object -> [Handler -> Int]] /\ connected[target] \in [Handler -> Int]
      BY <2>2 DEF Inv, Types, Documented, ConstantsType
    <3>6. [i \in Handler |-> IF i = h THEN block_count
            ELSE connected[target][i]] \in [Handler -> Int]
      BY <3>5
    <3>7. connected' \in [Object -> [Handler -> Int]]
      BY <3>2, <3>5, <3>6
    <3>8. \A o \in Object, i \in Handler :
            connected'[o][i] = IF o = target /\ i = h THEN block_count ELSE connected[o][i]
      BY <3>2, <3>5
    <3>9. QED BY <3>3, <3>4, <3>7, <3>8
  <2>3. QED BY <2>1, <2>2
<1>5. Types'
  BY <1>1, <1>3, <1>4 DEF Inv, Types
<1>6. Stacked' /\ Living' /\ Watched'
  BY <1>1, <1>2 DEF Inv, Stacked, Living, Watched, At
<1>7. Identified'
  BY <1>2, <1>3, <1>4 DEF Identified
<1>8. Connected'
  BY <1>1, <1>2, <1>3, <1>4 DEF Inv, Types, Connected
<1>9. QED BY <1>5, <1>6, <1>7, <1>8 DEF Inv

LEMMA InvalidateKeeps ==
  ASSUME Documented, Inv, NEW h \in Handler, Invalidate(h)
  PROVE  Inv'
<1>1. /\ MayCall /\ closure[h] = "valid"
      /\ closure' = [closure EXCEPT ![h] = "invalid"]
      /\ connected' = [o \in Object |-> [connected[o] EXCEPT ![h] = -1]]
      /\ UNCHANGED <<life, target, watching, bound_once, block_count, handler_id, calls, failed>>
  BY DEF Invalidate
<1>2. ~At("dying")' /\ Following = target /\ Following' = target
  BY <1>1, Quiet, SameTarget
<1>3. Types'
  <2>1. connected' \in [Object -> [Handler -> Int]]
    BY <1>1, -1 \in Int DEF Inv, Types
  <2>2. QED BY <1>1, <2>1 DEF Inv, Types
<1>4. Stacked' /\ Living' /\ Watched'
  BY <1>1, <1>2 DEF Inv, Stacked, Living, Watched, At
<1>5. Identified'
  BY <1>1, <1>2 DEF Inv, Types, Identified
<1>6. Connected'
  BY <1>1, <1>2 DEF Inv, Types, Connected
<1>7. QED BY <1>3, <1>4, <1>5, <1>6 DEF Inv

LEMMA CountKeeps ==
  ASSUME Documented, Inv, NEW by \in {1, -1}, Count(by)
  PROVE  Inv'
<1>1. /\ MayCall /\ block_count + by \in 0..MaxBlocks /\ block_count' = block_count + by
      /\ UNCHANGED <<life, target, watching, bound_once, closure, handler_id, calls>>
  BY DEF Count
<1>2. ~At("dying")' /\ Following = target /\ Following' = target
  BY <1>1, Quiet, SameTarget
<1>3. /\ failed' = FALSE
      /\ connected' \in [Object -> [Handler -> Int]]
      /\ \A o \in Object, h \in Handler :
           connected'[o][h] = IF o = target /\ closure[h] = "valid"
                              THEN block_count + by ELSE connected[o][h]
  <2>1. CASE target = None
    <3>1. UNCHANGED <<connected, failed>>
      BY <2>1 DEF Count
    <3>2. QED BY <2>1, <3>1 DEF Inv, Types, Documented, ConstantsType
  <2>2. CASE target # None
    <3>1. /\ failed' = (\E h \in Handler : closure[h] # "none" /\ handler_id[h] = None)
          /\ connected' = [connected EXCEPT ![target] =
               [h \in Handler |-> IF closure[h] # "none" /\ @[h] >= 0 THEN @[h] + by ELSE @[h]]]
      BY <2>2 DEF Count
    <3>2. failed' = FALSE
      BY <1>2, <2>2, <3>1 DEF Inv, Identified
    <3>3. /\ target \in Object /\ block_count \in Nat /\ by \in Int
          /\ connected \in [Object -> [Handler -> Int]] /\ connected[target] \in [Handler -> Int]
      BY <2>2 DEF Inv, Types, Documented, ConstantsType
    <3>4. [h \in Handler |-> IF closure[h] # "none" /\ connected[target][h] >= 0
                             THEN connected[target][h] + by ELSE connected[target][h]]
            \in [Handler -> Int]
      BY <3>3
    <3>5. connected' \in [Object -> [Handler -> Int]]
      BY <3>1, <3>3, <3>4
    <3>6. \A o \in Object, h \in Handler :
            connected'[o][h] = IF o = target /\ closure[h] # "none" /\ connected[o][h] >= 0
                               THEN connected[o][h] + by ELSE connected[o][h]
      BY <3>1, <3>3
    <3>7. \A h \in Handler :
            connected[target][h] = IF closure[h] = "valid" THEN block_count ELSE -1
      BY <1>2, <3>3 DEF Inv, Connected
    <3>8. QED BY <3>2, <3>3, <3>5, <3>6, <3>7
  <2>3. QED BY <2>1, <2>2
<1>4. Types'
  BY <1>1, <1>3 DEF Inv, Types
<1>5. Stacked' /\ Living' /\ Watched'
  BY <1>1, <1>2 DEF Inv, Stacked, Living, Watched, At
<1>6. Identified'
  BY <1>1, <1>2 DEF Inv, Identified
<1>7. Connected'
  BY <1>1, <1>2, <1>3 DEF Inv, Connected
<1>8. QED BY <1>4, <1>5, <1>6, <1>7 DEF Inv

LEMMA DisposeKeeps ==
  ASSUME Documented, Inv, Dispose
  PROVE  Inv'
<1>1. /\ MayCall /\ calls = <<>> /\ Unbind("dispose", None)
      /\ UNCHANGED <<life, bound_once, block_count, failed>>
  BY DEF Dispose, MayNest
<1>2. OnStack(calls) = {} /\ "dispose" \in Unbinding
  BY <1>1 DEF OnStack, Unbinding
<1>3. QED BY <1>1, <1>2, UnbindKeeps

LEMMA DisposedKeeps ==
  ASSUME Documented, Inv, Disposed
  PROVE  Inv'
<1>1. /\ calls # <<>> /\ Head(calls).at = "dispose" /\ calls' = Tail(calls)
      /\ target' = None /\ bound_once' = FALSE /\ block_count' = 0
      /\ closure' = [h \in Handler |-> "none"]
      /\ handler_id' = [h \in Handler |-> None]
      /\ connected' = [o \in Object |-> [h \in Handler |-> -1]]
      /\ UNCHANGED <<life, watching, failed>>
  BY DEF Disposed, At
<1>2. WellNested(calls)
  BY DEF Inv, Stacked
<1>3. /\ WellNested(calls') /\ OnStack(calls') \subseteq OnStack(calls)
      /\ Head(calls) \in OnStack(calls)
      /\ calls' # <<>> => Head(calls').at # "dying"
  BY <1>1, <1>2, Pop
<1>4. target = None
  BY <1>1, <1>3 DEF Inv, Stacked, Unbinding
<1>5. ~At("dying") /\ Following = None /\ ~At("dying")' /\ Following' = None
  BY <1>1, <1>3, <1>4 DEF At, Following
<1>6. Types'
  <2>1. connected' \in [Object -> [Handler -> Int]]
    BY <1>1, -1 \in Int
  <2>2. block_count' \in 0..MaxBlocks
    BY <1>1 DEF Documented, ConstantsType
  <2>3. QED BY <1>1, <2>1, <2>2 DEF Inv, Types
<1>7. Stacked' /\ Living'
  BY <1>1, <1>3, <1>5 DEF Inv, Stacked, Living
<1>8. Watched' /\ Identified' /\ Connected'
  BY <1>1, <1>5 DEF Inv, Watched, Identified, Connected, Documented, ConstantsType
<1>9. QED BY <1>6, <1>7, <1>8 DEF Inv

LEMMA UnrefKeeps ==
  ASSUME Documented, Inv, NEW o \in Object, Unref(o)
  PROVE  Inv'
<1> DEFINE f == Frame("dying", o, None)
<1>1. /\ MayCall /\ life[o] = "alive" /\ o \notin Held
      /\ life' = [life EXCEPT ![o] = "dying"]
      /\ target' = IF target = o THEN None ELSE target
      /\ calls' = <<f>> \o calls
      /\ UNCHANGED <<watching, bound_once, block_count, closure, handler_id, connected, failed>>
  BY DEF Unref, MayNest
<1>2. /\ ~At("dying") /\ Following = target
      /\ calls # <<>> => Head(calls).at # "dying"
      /\ \A p \in Object : life[p] # "dying"
  BY <1>1, Quiet
<1>3. f \in Frames /\ f.at = "dying" /\ f.old = o /\ f.next = None
  BY FrameType
<1>4. /\ WellNested(calls') /\ calls' # <<>> /\ Head(calls') = f
      /\ OnStack(calls') = {f} \cup OnStack(calls)
  <2>1. f.at \notin Unbinding /\ WellNested(calls)
    BY <1>3 DEF Unbinding, Inv, Stacked
  <2> HIDE DEF f
  <2>2. QED BY <1>1, <1>2, <1>3, <2>1, Push
<1>5. At("dying")' /\ Head(calls').old = o
  BY <1>3, <1>4 DEF At
<1>6. Following' = target
  <2>1. watching[o] = IF o = target THEN 1 ELSE 0
    BY <1>2 DEF Inv, Watched
  <2>2. QED BY <1>1, <1>5, <2>1 DEF Following
<1>7. Types'
  BY <1>1 DEF Inv, Types
<1>8. Stacked'
  <2>1. \A g \in OnStack(calls) : g.next # o
    BY <1>1 DEF Held, OnStack
  <2>2. ASSUME NEW g \in OnStack(calls)
        PROVE  /\ g.at \in Unbinding => target' = None
               /\ g.next # None => life'[g.next] = "alive"
    <3>1. /\ g.at \in Unbinding => target = None
          /\ g.next # None => life[g.next] = "alive"
      BY DEF Inv, Stacked
    <3>2. g \in Frames
      BY DEF Inv, Stacked, WellNested, OnStack
    <3>3. g.next # None => g.next \in Object
      BY <3>2 DEF Frames
    <3>4. QED BY <1>1, <2>1, <3>1, <3>3 DEF Inv, Types
  <2>3. f.at \notin Unbinding
    BY <1>3 DEF Unbinding
  <2> HIDE DEF f
  <2>4. QED BY <1>3, <1>4, <2>2, <2>3 DEF Stacked
<1>9. Living'
  BY <1>1, <1>2, <1>5, <1>6 DEF Inv, Types, Living
<1>10. Watched' /\ Identified' /\ Connected'
  BY <1>1, <1>2, <1>6 DEF Inv, Watched, Identified, Connected
<1>11. QED BY <1>7, <1>8, <1>9, <1>10 DEF Inv

LEMMA WeakNotifyKeeps ==
  ASSUME Documented, Inv, NEW o \in Object, WeakNotify(o)
  PROVE  Inv'
<1> DEFINE f == Frame("lost", o, None)
           under == Tail(calls)
<1>1. /\ At("dying") /\ calls # <<>> /\ Head(calls).old = o
      /\ connected' = [connected EXCEPT ![o] = [h \in Handler |-> -1]]
      /\ watching' = [watching EXCEPT ![o] = 0]
      /\ life' = [life EXCEPT ![o] = "gone"]
      /\ UNCHANGED <<bound_once, block_count, closure, failed>>
  BY DEF WeakNotify, At
<1>2. WellNested(calls)
  BY DEF Inv, Stacked
<1>3. /\ WellNested(under) /\ OnStack(under) \subseteq OnStack(calls)
      /\ under # <<>> => Head(under).at # "dying"
  BY <1>1, <1>2, Pop
<1>4. \A p \in Object : life[p] = "dying" <=> p = o
  BY <1>1 DEF Inv, Living
<1>5. connected' \in [Object -> [Handler -> Int]]
  <2>1. [h \in Handler |-> -1] \in [Handler -> Int]
    BY -1 \in Int
  <2>2. QED BY <1>1, <2>1 DEF Inv, Types
<1>6. ASSUME NEW g \in OnStack(calls), g.next # None
      PROVE  life'[g.next] = "alive"
  <2>1. life[g.next] = "alive" /\ g \in Frames
    BY <1>6 DEF Inv, Stacked, WellNested, OnStack
  <2>2. g.next \in Object
    BY <1>6, <2>1 DEF Frames
  <2>3. QED BY <1>1, <1>4, <2>1, <2>2 DEF Inv, Types
<1>7. CASE watching[o] = 0
  <2>1. calls' = under /\ UNCHANGED <<target, handler_id>>
    BY <1>7 DEF WeakNotify
  <2>2. ~At("dying")' /\ Following = target /\ Following' = target
    BY <1>1, <1>3, <1>7, <2>1 DEF At, Following
  <2>3. target # o
    BY <1>7, <2>2 DEF Inv, Watched
  <2>4. Types'
    BY <1>1, <1>5, <2>1 DEF Inv, Types
  <2>5. Stacked'
    BY <1>3, <1>6, <2>1 DEF Inv, Stacked
  <2>6. Living'
    BY <1>1, <1>4, <2>1, <2>2, <2>3 DEF Inv, Types, Living
  <2>7. Watched' /\ Identified' /\ Connected'
    BY <1>1, <2>1, <2>2, <2>3 DEF Inv, Types, Watched, Identified, Connected
  <2>8. QED BY <2>4, <2>5, <2>6, <2>7 DEF Inv
<1>8. CASE watching[o] # 0
  <2>1. target' = None /\ handler_id' = [h \in Handler |-> None] /\ calls' = <<f>> \o under
    BY <1>8 DEF WeakNotify
  <2>2. Following = o
    BY <1>8 DEF Inv, Watched
  <2>3. f \in Frames /\ f.at = "lost" /\ f.next = None
    BY FrameType
  <2>4. /\ WellNested(calls') /\ calls' # <<>> /\ Head(calls') = f
        /\ OnStack(calls') = {f} \cup OnStack(under)
    <3>1. f.at \notin Unbinding
      BY <2>3 DEF Unbinding
    <3> HIDE DEF f, under
    <3>2. QED BY <1>3, <2>1, <2>3, <3>1, Push
  <2>5. ~At("dying")' /\ Following' = None
    BY <2>1, <2>3, <2>4 DEF At, Following
  <2>6. Types'
    BY <1>1, <1>5, <2>1 DEF Inv, Types
  <2>7. Stacked'
    BY <1>3, <1>6, <2>1, <2>3, <2>4 DEF Stacked
  <2>8. Living'
    BY <1>1, <1>4, <2>1, <2>5 DEF Inv, Types, Living
  <2>9. Watched' /\ Identified' /\ Connected'
    BY <1>1, <2>1, <2>2, <2>5
       DEF Inv, Types, Watched, Identified, Connected, Documented, ConstantsType
  <2>10. QED BY <2>6, <2>7, <2>8, <2>9 DEF Inv
<1>9. QED BY <1>7, <1>8

LEMMA NewObjectKeeps ==
  ASSUME Documented, Inv, NEW o \in Object, NewObject(o)
  PROVE  Inv'
<1>1. /\ MayCall /\ life[o] = "gone" /\ life' = [life EXCEPT ![o] = "alive"]
      /\ UNCHANGED <<target, watching, bound_once, block_count, closure,
                     handler_id, connected, calls, failed>>
  BY DEF NewObject
<1>2. ~At("dying") /\ ~At("dying")' /\ Following = target /\ Following' = target
  BY <1>1, Quiet, SameTarget
<1>3. Types'
  BY <1>1 DEF Inv, Types
<1>4. Stacked'
  <2>1. ASSUME NEW g \in OnStack(calls), g.next # None PROVE life'[g.next] = "alive"
    <3>1. life[g.next] = "alive" /\ g \in Frames
      BY <2>1 DEF Inv, Stacked, WellNested, OnStack
    <3>2. g.next \in Object
      BY <2>1, <3>1 DEF Frames
    <3>3. QED BY <1>1, <3>1, <3>2 DEF Inv, Types
  <2>2. QED BY <1>1, <2>1 DEF Inv, Stacked
<1>5. Living'
  BY <1>1, <1>2 DEF Inv, Types, Living
<1>6. Watched' /\ Identified' /\ Connected'
  BY <1>1, <1>2 DEF Inv, Watched, Identified, Connected
<1>7. QED BY <1>3, <1>4, <1>5, <1>6 DEF Inv

LEMMA InvStep == Documented /\ Inv /\ [Next]_vars => Inv'
<1> SUFFICES ASSUME Documented, Inv, [Next]_vars PROVE Inv'
  OBVIOUS
<1>1. CASE \E o \in Object \cup {None} : SetTarget(o)
  BY <1>1, SetTargetKeeps
<1>2. CASE \E o \in Object : Unref(o) \/ WeakNotify(o) \/ NewObject(o)
  BY <1>2, UnrefKeeps, WeakNotifyKeeps, NewObjectKeeps
<1>3. CASE \E h \in Handler : Connect(h) \/ Invalidate(h)
  BY <1>3, ConnectKeeps, InvalidateKeeps
<1>4. CASE Block \/ Unblock
  <2>1. Count(1) \/ Count(-1)
    BY <1>4 DEF Block, Unblock
  <2>2. 1 \in {1, -1} /\ -1 \in {1, -1}
    OBVIOUS
  <2>3. QED BY <2>1, <2>2, CountKeeps
<1>5. CASE UnbindEmitted
  BY <1>5, UnbindEmittedKeeps
<1>6. CASE BindEmitted
  BY <1>6, BindEmittedKeeps
<1>7. CASE Dispose
  BY <1>7, DisposeKeeps
<1>8. CASE Disposed
  BY <1>8, DisposedKeeps
<1>9. CASE UNCHANGED vars
  BY <1>9 DEF vars, Inv, Types, Stacked, Living, Watched, Identified, Connected, Following, At
<1>10. QED
  BY <1>1, <1>2, <1>3, <1>4, <1>5, <1>6, <1>7, <1>8, <1>9 DEF Next

LEMMA Invariance == Documented /\ Spec => []Inv
<1>1. Documented /\ Init => Inv
  BY InvInit
<1>2. Documented /\ Inv /\ [Next]_vars => Inv'
  BY InvStep
<1>3. ASSUME Documented PROVE Spec => []Inv
  <2>1. Init => Inv
    BY <1>1, <1>3
  <2>2. Inv /\ [Next]_vars => Inv'
    BY <1>2, <1>3
  <2>3. QED BY <2>1, <2>2, PTL DEF Spec
<1>4. QED BY <1>3

-----------------------------------------------------------------------------
(* Every variable keeps its type, the frames of the calls included.        *)
THEOREM TypeCorrect == ASSUME Documented PROVE Spec => []TypeOK
<1>1. Inv => TypeOK
  BY DEF Inv, Types, Stacked, WellNested, Frames, TypeOK
<1>2. Spec => []Inv
  BY Invariance
<1>3. QED BY <1>1, <1>2, PTL

(* The live handlers are connected to the target, blocked as often as the  *)
(* group is, and no other object that can still emit has a connection,     *)
(* whatever handlers of "bind" and "unbind" do in between.                 *)
THEOREM HandlersFollowTarget == ASSUME Documented PROVE Spec => []FollowsTarget
<1>1. Inv => FollowsTarget
  <2> SUFFICES ASSUME Inv, NEW o \in Object, NEW h \in Handler, life[o] # "dying"
               PROVE  connected[o][h] = IF o = target /\ closure[h] = "valid"
                                        THEN block_count ELSE -1
    BY DEF FollowsTarget
  <2>1. connected[o][h] = IF o = Following /\ closure[h] = "valid" THEN block_count ELSE -1
    BY DEF Inv, Connected
  <2>2. o = Following <=> o = target
    <3>1. CASE Following = target
      BY <3>1
    <3>2. CASE Following # target
      <4>1. target = None /\ life[Following] = "dying"
        BY <3>2 DEF Inv, Living, Following
      <4>2. QED BY <4>1 DEF Documented, ConstantsType
    <3>3. QED BY <3>1, <3>2
  <2>3. QED BY <2>1, <2>2
<1>2. Spec => []Inv
  BY Invariance
<1>3. QED BY <1>1, <1>2, PTL

(* Exactly the target, or an object about to notify, holds a weak notify   *)
(* of the group, and one: none is left behind in an object that outlives   *)
(* the group or is bound again.                                            *)
THEOREM WatchesExactlyTarget == ASSUME Documented PROVE Spec => []WatchesTarget
<1>1. Inv => WatchesTarget
  <2> SUFFICES ASSUME Inv, NEW o \in Object
               PROVE  /\ watching[o] \in {0, 1}
                      /\ o = target => watching[o] = 1
                      /\ watching[o] = 1 => o = target \/ life[o] = "dying"
    BY DEF WatchesTarget
  <2>1. watching[o] = IF o = Following THEN 1 ELSE 0
    BY DEF Inv, Watched
  <2>2. CASE At("dying") /\ watching[Head(calls).old] = 1
    <3>1. Following = Head(calls).old /\ life[Following] = "dying"
      BY <2>2 DEF Following, Inv, Living
    <3>2. target # o
      BY <3>1 DEF Inv, Living, Documented, ConstantsType
    <3>3. QED BY <2>1, <3>1, <3>2
  <2>3. CASE ~(At("dying") /\ watching[Head(calls).old] = 1)
    <3>1. Following = target
      BY <2>3 DEF Following
    <3>2. QED BY <2>1, <3>1
  <2>4. QED BY <2>2, <2>3
<1>2. Spec => []Inv
  BY Invariance
<1>3. QED BY <1>1, <1>2, PTL

(* handler_id == 0 before a handler is bound, and handler_id != 0 when     *)
(* block and unblock find a target (dzl-signal-group.c:182, 335, 374), as  *)
(* long as no handler of "unbind" sets the target: with one, the handlers *)
(* are bound twice and the first assertion fails.  Nor is the group used   *)
(* while its target is being disposed of.                                  *)
THEOREM AssertionsNeverFail == ASSUME Documented PROVE Spec => []AssertionsHold
<1>1. Inv => AssertionsHold
  BY DEF Inv, Types, AssertionsHold
<1>2. Spec => []Inv
  BY Invariance
<1>3. QED BY <1>1, <1>2, PTL

-----------------------------------------------------------------------------
(* Binding groups with any number of sources, targets and lazy bindings:   *)
(* what is bound is bound to the source of the moment, the weak notifies   *)
(* are exactly those the group will release, and no assertion fails.       *)
(* Property setters that run while the group connects leave it alone,      *)
(* except for a bind() within a bind().                                    *)
NoBindInBind == BG!ConstantsType /\ Reentrant = {}

Connects == [at : {"set_source", "bind"}, index : Nat, slot : Slot, from : Source \cup {None}]

(* Cardinality comes from FiniteSets, which the instance names again.      *)
LEMMA SameCardinality == ASSUME NEW S PROVE BG!Cardinality(S) = Cardinality(S)
BY DEF BG!Cardinality, Cardinality

-----------------------------------------------------------------------------
(* Sequences: the elements of one, and what appending and removing does.   *)
Elements(s) == {s[i] : i \in DOMAIN s}
Distinct(s) == \A i, j \in DOMAIN s : s[i] = s[j] => i = j

LEMMA Appended ==
  ASSUME NEW S, NEW s \in Seq(S), NEW x \in S, Distinct(s), x \notin Elements(s)
  PROVE  /\ Append(s, x) \in Seq(S) /\ Distinct(Append(s, x))
         /\ Elements(Append(s, x)) = Elements(s) \cup {x}
<1> DEFINE t == Append(s, x)
<1>1. /\ t \in Seq(S) /\ Len(s) \in Nat /\ DOMAIN s = 1..Len(s)
      /\ DOMAIN t = 1..(Len(s) + 1) /\ t[Len(s) + 1] = x
      /\ \A i \in 1..Len(s) : t[i] = s[i]
  OBVIOUS
<1>2. Distinct(t)
  BY <1>1 DEF Distinct, Elements
<1>3. Elements(t) = Elements(s) \cup {x}
  <2>1. Elements(t) \subseteq Elements(s) \cup {x}
    BY <1>1 DEF Elements
  <2>2. x \in Elements(t)
    BY <1>1 DEF Elements
  <2>3. Elements(s) \subseteq Elements(t)
    BY <1>1 DEF Elements
  <2>4. QED BY <2>1, <2>2, <2>3
<1>4. QED BY <1>1, <1>2, <1>3

LEMMA Removed ==
  ASSUME NEW S, NEW s \in Seq(S), Distinct(s), NEW i \in DOMAIN s
  PROVE  /\ BG!RemoveFast(s, i) \in Seq(S) /\ Distinct(BG!RemoveFast(s, i))
         /\ Elements(BG!RemoveFast(s, i)) = Elements(s) \ {s[i]}
<1> DEFINE t == BG!RemoveFast(s, i)
<1>1. Len(s) \in Nat \ {0} /\ DOMAIN s = 1..Len(s) /\ i \in 1..Len(s)
      /\ \A j \in 1..Len(s) : s[j] \in S
  OBVIOUS
<1>2. /\ t \in [1..(Len(s) - 1) -> S] /\ Len(s) - 1 \in Nat
      /\ \A j \in 1..(Len(s) - 1) : t[j] = IF j = i THEN s[Len(s)] ELSE s[j]
  BY <1>1 DEF BG!RemoveFast
<1>3. t \in Seq(S) /\ DOMAIN t = 1..(Len(s) - 1)
  BY <1>2
<1>4. Distinct(t)
  BY <1>1, <1>2, <1>3 DEF Distinct
<1>5. Elements(t) \subseteq Elements(s) \ {s[i]}
  BY <1>1, <1>2, <1>3 DEF Distinct, Elements
<1>6. ASSUME NEW j \in DOMAIN s, s[j] # s[i] PROVE s[j] \in Elements(t)
  <2>1. CASE j = Len(s)
    <3>1. i \in DOMAIN t /\ t[i] = s[j]
      BY <1>1, <1>2, <1>3, <1>6, <2>1
    <3>2. QED BY <3>1 DEF Elements
  <2>2. CASE j # Len(s)
    <3>1. j \in DOMAIN t /\ t[j] = s[j]
      BY <1>1, <1>2, <1>3, <1>6, <2>2
    <3>2. QED BY <3>1 DEF Elements
  <2>3. QED BY <2>1, <2>2
<1>7. QED BY <1>3, <1>4, <1>5, <1>6 DEF Elements

-----------------------------------------------------------------------------
(* The stack of connects: no two of them are about one lazy binding.       *)
Pending == {calls[i].slot : i \in DOMAIN calls}

Separate(s) ==
  /\ s \in Seq(Connects)
  /\ \A i, j \in DOMAIN s : s[i].slot = s[j].slot => i = j

LEMMA PushedConnect ==
  ASSUME NEW s, Separate(s), NEW f \in Connects,
         \A i \in DOMAIN s : s[i].slot # f.slot
  PROVE  /\ Separate(<<f>> \o s) /\ Head(<<f>> \o s) = f /\ <<f>> \o s # <<>>
         /\ 1 \in DOMAIN (<<f>> \o s) /\ (<<f>> \o s)[1] = f
         /\ Len(<<f>> \o s) = Len(s) + 1
         /\ \A i \in DOMAIN s : i + 1 \in DOMAIN (<<f>> \o s) /\ (<<f>> \o s)[i + 1] = s[i]
         /\ \A i \in DOMAIN (<<f>> \o s) :
              i = 1 \/ (i - 1 \in DOMAIN s /\ (<<f>> \o s)[i] = s[i - 1])
<1> DEFINE t == <<f>> \o s
<1>1. s \in Seq(Connects) /\ DOMAIN s = 1..Len(s) /\ Len(s) \in Nat
  BY DEF Separate
<1>2. /\ t \in Seq(Connects) /\ Len(t) = Len(s) + 1 /\ DOMAIN t = 1..(Len(s) + 1)
      /\ t[1] = f /\ Head(t) = f /\ \A i \in 1..Len(s) : t[i + 1] = s[i]
  BY <1>1
<1>3. \A i \in DOMAIN t : i = 1 \/ (i - 1 \in DOMAIN s /\ t[i] = s[i - 1])
  BY <1>1, <1>2
<1>4. ASSUME NEW i \in DOMAIN t, NEW j \in DOMAIN t, t[i].slot = t[j].slot PROVE i = j
  <2>1. CASE i = 1 \/ j = 1
    BY <1>2, <1>3, <1>4, <2>1
  <2>2. CASE i # 1 /\ j # 1
    <3>1. i - 1 = j - 1
      BY <1>3, <1>4, <2>2 DEF Separate
    <3>2. QED BY <3>1, <1>2
  <2>3. QED BY <2>1, <2>2
<1>5. Separate(t)
  BY <1>2, <1>4 DEF Separate
<1>6. QED BY <1>1, <1>2, <1>3, <1>5

LEMMA PoppedConnect ==
  ASSUME NEW s, Separate(s), s # <<>>
  PROVE  /\ Separate(Tail(s)) /\ 1 \in DOMAIN s /\ Head(s) = s[1] /\ Head(s) \in Connects
         /\ Len(Tail(s)) = Len(s) - 1
         /\ \A i \in DOMAIN Tail(s) :
              i + 1 \in DOMAIN s /\ Tail(s)[i] = s[i + 1] /\ Tail(s)[i].slot # Head(s).slot
         /\ \A i \in DOMAIN s : i = 1 \/ (i - 1 \in DOMAIN Tail(s) /\ s[i] = Tail(s)[i - 1])
<1> DEFINE t == Tail(s)
<1>1. s \in Seq(Connects) /\ DOMAIN s = 1..Len(s) /\ Len(s) \in Nat \ {0} /\ Head(s) = s[1]
  BY DEF Separate
<1>2. /\ t \in Seq(Connects) /\ Len(t) = Len(s) - 1 /\ DOMAIN t = 1..(Len(s) - 1)
      /\ \A i \in 1..(Len(s) - 1) : t[i] = s[i + 1]
  BY <1>1
<1>3. \A i \in DOMAIN t : i + 1 \in DOMAIN s /\ t[i] = s[i + 1] /\ t[i].slot # s[1].slot
  BY <1>1, <1>2 DEF Separate
<1>4. Separate(t)
  <2>1. ASSUME NEW i \in DOMAIN t, NEW j \in DOMAIN t, t[i].slot = t[j].slot PROVE i = j
    <3>1. i + 1 = j + 1
      BY <1>3, <2>1 DEF Separate
    <3>2. QED BY <3>1, <1>2
  <2>2. QED BY <1>2, <2>1 DEF Separate
<1>5. \A i \in DOMAIN s : i = 1 \/ (i - 1 \in DOMAIN t /\ s[i] = t[i - 1])
  BY <1>1, <1>2
<1>6. s[1] \in Connects
  BY <1>1
<1>7. QED BY <1>1, <1>2, <1>3, <1>4, <1>5, <1>6

-----------------------------------------------------------------------------
(* The inductive invariant.  Half way through the loop of set_source the   *)
(* lazy bindings up to the frame's index have a GBinding; the one a frame  *)
(* is about has it, but does not know it yet.                              *)
Done == IF BG!InLoop THEN {lazy_bindings[j] : j \in 1..calls[1].index} ELSE BG!Listed

To(o) == {b \in BG!Listed : target[b] = o}

BindingTypes ==
  /\ source \in Source \cup {None}
  /\ target \in [Slot -> Target \cup {None}]
  /\ binding \in [Slot -> Source \cup {None}]
  /\ bound \subseteq (Source \cup {None}) \X Slot
  /\ watched \in [Source \cup Target -> Nat]
  /\ dying \in Target \cup {None}
  /\ failed = FALSE

Array ==
  /\ lazy_bindings \in Seq(Slot) /\ Distinct(lazy_bindings)
  /\ IsFiniteSet(BG!Listed)
  /\ \A b \in Slot : target[b] # None <=> b \in BG!Listed

Nested ==
  /\ Separate(calls)
  /\ \A i \in DOMAIN calls :
       /\ calls[i].slot \in BG!Listed /\ calls[i].from = source /\ source # None
       /\ calls[i].at = "set_source" =>
            /\ Len(calls) = 1
            /\ calls[i].index \in DOMAIN lazy_bindings
            /\ lazy_bindings[calls[i].index] = calls[i].slot

Bound ==
  /\ \A s \in Source \cup {None}, b \in Slot :
       <<s, b>> \in bound <=> source # None /\ s = source /\ b \in Done
  /\ \A b \in Slot : binding[b] = IF b \in Done /\ b \notin Pending THEN source ELSE None

Watching ==
  \A o \in Source \cup Target : watched[o] = (IF o = source THEN 1 ELSE 0) + Cardinality(To(o))

Dying ==
  dying # None => watched[dying] > 0 /\ ~BG!InLoop /\ \A b \in Pending : target[b] # dying

BindingIInv == BindingTypes /\ Array /\ Nested /\ Bound /\ Watching /\ Dying

-----------------------------------------------------------------------------
LEMMA ToFinite ==
  ASSUME Array, NEW o
  PROVE  IsFiniteSet(To(o)) /\ Cardinality(To(o)) \in Nat
<1>1. To(o) \in SUBSET BG!Listed /\ IsFiniteSet(BG!Listed)
  BY DEF To, Array
<1>2. IsFiniteSet(To(o))
  BY <1>1, FS_Subset
<1>3. QED BY <1>2, FS_CardinalityType

LEMMA AtRest ==
  ASSUME BindingIInv, calls = <<>>
  PROVE  ~BG!InLoop /\ Done = BG!Listed /\ Pending = {}
  BY DEF BG!InLoop, Done, Pending

LEMMA BindingInit == NoBindInBind /\ BG!Init => BindingIInv
<1> SUFFICES ASSUME NoBindInBind, BG!Init PROVE BindingIInv
  OBVIOUS
<1>1. lazy_bindings = <<>> /\ BG!Listed = {} /\ calls = <<>>
  BY DEF BG!Init, BG!Listed
<1>2. ~BG!InLoop /\ Done = {} /\ Pending = {}
  BY <1>1 DEF BG!InLoop, Done, Pending
<1>3. \A o : To(o) = {}
  BY <1>1 DEF To
<1>4. IsFiniteSet({}) /\ Cardinality({}) = 0
  BY FS_EmptySet
<1>5. BindingTypes
  BY DEF BG!Init, BindingTypes
<1>6. Array
  BY <1>1, <1>4 DEF BG!Init, Array, Distinct
<1>7. Nested
  BY <1>1 DEF Nested, Separate
<1>8. Bound
  BY <1>2 DEF BG!Init, Bound
<1>9. Watching
  <2>1. \A o \in Source \cup Target : Cardinality(To(o)) = 0
    BY <1>3, <1>4
  <2>2. \A o \in Source \cup Target : watched[o] = 0 /\ o # source
    BY DEF BG!Init, NoBindInBind, BG!ConstantsType
  <2>3. QED BY <2>1, <2>2 DEF Watching
<1>10. Dying
  BY DEF BG!Init, Dying
<1>11. QED BY <1>5, <1>6, <1>7, <1>8, <1>9, <1>10 DEF BindingIInv

(* At rest, all that is bound is what the lazy bindings know of. *)
LEMMA AllUnbound ==
  ASSUME BindingIInv, calls = <<>>
  PROVE  /\ BG!LeftBound = {}
         /\ source = None => bound = {} /\ \A b \in Slot : binding[b] = None
<1>1. Done = BG!Listed /\ Pending = {}
  BY AtRest
<1>2. ASSUME NEW p \in bound PROVE \E b \in BG!Listed : p = <<binding[b], b>> /\ source # None
  <2>1. PICK s \in Source \cup {None}, b \in Slot : p = <<s, b>>
    BY <1>2 DEF BindingIInv, BindingTypes
  <2>2. source # None /\ s = source /\ b \in BG!Listed /\ binding[b] = source
    BY <1>1, <1>2, <2>1 DEF BindingIInv, Bound
  <2>3. QED BY <2>1, <2>2
<1>3. BG!LeftBound = {}
  BY <1>2 DEF BG!LeftBound
<1>4. source = None => bound = {}
  BY <1>2
<1>5. source = None => \A b \in Slot : binding[b] = None
  BY DEF BindingIInv, Bound
<1>6. QED BY <1>3, <1>4, <1>5

LEMMA SetSourceKeeps ==
  ASSUME NoBindInBind, BindingIInv, NEW s \in Source \cup {None}, BG!SetSource(s)
  PROVE  BindingIInv'
<1> DEFINE had == IF source = None THEN binding ELSE BG!Unbound
           rest == IF source = None THEN bound ELSE BG!LeftBound
<1>1. /\ BG!MayCall /\ calls = <<>> /\ s # source /\ source' = s
      /\ watched' = [o \in Source \cup Target |-> watched[o] + (IF o = s THEN 1 ELSE 0)
                                                            - (IF o = source THEN 1 ELSE 0)]
      /\ UNCHANGED <<lazy_bindings, target, dying>>
  BY DEF BG!SetSource, BG!MayConnect, NoBindInBind
<1>2. had \in [Slot -> Source \cup {None}] /\ (\A b \in Slot : had[b] = None) /\ rest = {}
  BY <1>1, AllUnbound DEF BG!Unbound, BindingIInv, BindingTypes
<1>3. IF s = None \/ lazy_bindings = <<>>
      THEN binding' = had /\ bound' = rest /\ UNCHANGED <<calls, failed>>
      ELSE BG!Connect("set_source", 1, lazy_bindings[1], s, had, rest, calls)
  BY DEF BG!SetSource
<1> HIDE DEF had, rest
<1>4. BG!Listed' = BG!Listed /\ \A o : To(o)' = To(o)
  BY <1>1 DEF BG!Listed, To
<1>5. Array'
  BY <1>1, <1>4 DEF BindingIInv, Array
<1>6. \A o \in Source \cup Target :
        watched'[o] = (IF o = s THEN 1 ELSE 0) + Cardinality(To(o))
  <2>1. ASSUME NEW o \in Source \cup Target
        PROVE  watched'[o] = (IF o = s THEN 1 ELSE 0) + Cardinality(To(o))
    <3>1. Cardinality(To(o)) \in Nat
      BY ToFinite DEF BindingIInv
    <3>2. watched[o] = (IF o = source THEN 1 ELSE 0) + Cardinality(To(o))
      BY DEF BindingIInv, Watching
    <3>3. QED BY <1>1, <3>1, <3>2
  <2>2. QED BY <2>1
<1>7. watched' \in [Source \cup Target -> Nat]
  <2>1. \A o \in Source \cup Target : Cardinality(To(o)) \in Nat
    BY ToFinite DEF BindingIInv
  <2>2. \A o \in Source \cup Target : watched'[o] \in Nat
    BY <1>6, <2>1
  <2>3. QED BY <1>1, <2>2
<1>8. Watching'
  BY <1>1, <1>4, <1>6 DEF Watching
<1>9. dying' = None
  BY <1>1 DEF BG!MayCall
<1>10. CASE s = None \/ lazy_bindings = <<>>
  <2>1. binding' = had /\ bound' = {} /\ calls' = <<>> /\ failed' = FALSE
    BY <1>1, <1>2, <1>3, <1>10 DEF BindingIInv, BindingTypes
  <2>2. BindingTypes'
    BY <1>1, <1>2, <1>7, <2>1 DEF BindingIInv, BindingTypes
  <2>3. Nested'
    BY <2>1 DEF Nested, Separate
  <2>4. ~BG!InLoop' /\ Done' = BG!Listed /\ Pending' = {}
    BY <1>4, <2>1 DEF BG!InLoop, Done, Pending
  <2>5. s # None => BG!Listed = {}
    BY <1>10 DEF BG!Listed
  <2>6. Bound'
    BY <1>1, <1>2, <2>1, <2>4, <2>5 DEF Bound
  <2>7. Dying'
    BY <1>9 DEF Dying
  <2>8. QED BY <1>5, <1>8, <2>2, <2>3, <2>6, <2>7 DEF BindingIInv
<1>11. CASE ~(s = None \/ lazy_bindings = <<>>)
  <2> DEFINE b == lazy_bindings[1]
             f == [at |-> "set_source", index |-> 1, slot |-> b, from |-> s]
  <2>1. lazy_bindings \in Seq(Slot) /\ 1 \in DOMAIN lazy_bindings /\ b \in Slot /\ b \in BG!Listed
    BY <1>11 DEF BindingIInv, Array, BG!Listed
  <2>2. /\ failed' = FALSE /\ binding' = had /\ bound' = {<<s, b>>} /\ calls' = <<f>> \o calls
    BY <1>2, <1>3, <1>11, <2>1 DEF BG!Connect
  <2>3. calls' = <<f>>
    BY <1>1, <2>2
  <2>4. f \in Connects
    BY <2>1 DEF Connects
  <2>5. DOMAIN calls' = {1} /\ calls'[1] = f /\ Len(calls') = 1 /\ calls' \in Seq(Connects)
    BY <2>3, <2>4
  <2>6. BG!InLoop' /\ Done' = {b} /\ Pending' = {b}
    <3>1. BG!InLoop' /\ Pending' = {b}
      BY <2>5 DEF BG!InLoop, Pending
    <3>2. 1..f.index = {1}
      OBVIOUS
    <3>3. QED BY <1>1, <2>5, <3>1, <3>2 DEF Done
  <2>7. BindingTypes'
    BY <1>1, <1>2, <1>7, <2>1, <2>2 DEF BindingIInv, BindingTypes
  <2>8. Nested'
    BY <1>1, <1>4, <1>11, <2>1, <2>5 DEF Nested, Separate
  <2>9. Bound'
    BY <1>1, <1>2, <1>11, <2>1, <2>2, <2>6 DEF Bound
  <2>10. Dying'
    BY <1>9 DEF Dying
  <2>11. QED BY <1>5, <1>8, <2>7, <2>8, <2>9, <2>10 DEF BindingIInv
<1>12. QED BY <1>10, <1>11

LEMMA BindHelperKeeps ==
  ASSUME NoBindInBind, BindingIInv, NEW b \in Slot, NEW t \in Target, BG!BindHelper(b, t)
  PROVE  BindingIInv'
<1>1. /\ BG!MayCall /\ ~BG!InLoop /\ b \notin BG!Listed
      /\ lazy_bindings' = Append(lazy_bindings, b)
      /\ target' = [target EXCEPT ![b] = t]
      /\ watched' = [watched EXCEPT ![t] = @ + 1]
      /\ UNCHANGED <<source, dying>>
  BY DEF BG!BindHelper, BG!MayConnect, NoBindInBind, BG!ConstantsType, BG!Watch
<1>2. /\ IF source = None
         THEN UNCHANGED <<binding, bound, calls, failed>>
         ELSE BG!Connect("bind", 0, b, source, binding, bound, calls)
  BY DEF BG!BindHelper
<1>3. BG!Listed = Elements(lazy_bindings) /\ BG!Listed' = Elements(lazy_bindings')
  BY DEF BG!Listed, Elements
<1>4. BG!Listed' = BG!Listed \cup {b} /\ lazy_bindings' \in Seq(Slot) /\ Distinct(lazy_bindings')
  BY <1>1, <1>3, Appended DEF BindingIInv, Array
<1>5. target[b] = None /\ b \notin Pending /\ b \notin Done /\ binding[b] = None
  <2>1. Done = BG!Listed
    BY <1>1 DEF Done
  <2>2. Pending \subseteq BG!Listed
    BY DEF BindingIInv, Nested, Pending
  <2>3. QED BY <1>1, <2>1, <2>2 DEF BindingIInv, Array, Bound
<1>6. IsFiniteSet(BG!Listed')
  BY <1>4, FS_AddElement DEF BindingIInv, Array
<1>7. Array'
  BY <1>1, <1>4, <1>6 DEF BindingIInv, BindingTypes, Array, NoBindInBind, BG!ConstantsType
<1>8. Watching'
  <2>1. ASSUME NEW o \in Source \cup Target
        PROVE  watched'[o] = (IF o = source THEN 1 ELSE 0) + Cardinality(To(o)')
    <3>1. IsFiniteSet(To(o)) /\ Cardinality(To(o)) \in Nat
      BY ToFinite DEF BindingIInv
    <3>2. watched[o] = (IF o = source THEN 1 ELSE 0) + Cardinality(To(o))
      BY DEF BindingIInv, Watching
    <3>3. To(o)' = IF o = t THEN To(o) \cup {b} ELSE To(o)
      BY <1>1, <1>4 DEF To, BindingIInv, BindingTypes, Array
    <3>4. b \notin To(o)
      BY <1>1 DEF To
    <3>5. Cardinality(To(o)') = IF o = t THEN Cardinality(To(o)) + 1 ELSE Cardinality(To(o))
      BY <3>1, <3>3, <3>4, FS_AddElement
    <3>6. watched'[o] = IF o = t THEN watched[o] + 1 ELSE watched[o]
      BY <1>1 DEF BindingIInv, BindingTypes
    <3>7. watched[o] \in Nat
      BY DEF BindingIInv, BindingTypes
    <3>8. QED BY <3>1, <3>2, <3>5, <3>6, <3>7
  <2>2. QED BY <1>1, <2>1 DEF Watching
<1>9. Dying'
  BY <1>1 DEF BG!MayCall, Dying
<1>10. CASE source = None
  <2>1. UNCHANGED <<binding, bound, calls, failed>>
    BY <1>2, <1>10
  <2>2. calls = <<>>
    <3>1. DOMAIN calls = {} /\ calls \in Seq(Connects)
      BY <1>10 DEF BindingIInv, Nested, Separate
    <3>2. QED BY <3>1
  <2>3. BindingTypes'
    BY <1>1, <2>1 DEF BindingIInv, BindingTypes
  <2>4. Nested'
    BY <2>1, <2>2 DEF Nested, Separate
  <2>5. Bound'
    BY <1>1, <1>10, <2>1 DEF BindingIInv, Bound
  <2>6. QED BY <1>7, <1>8, <1>9, <2>3, <2>4, <2>5 DEF BindingIInv
<1>11. CASE source # None
  <2> DEFINE f == [at |-> "bind", index |-> 0, slot |-> b, from |-> source]
  <2>1. /\ failed' = FALSE /\ binding' = binding
        /\ bound' = bound \cup {<<source, b>>} /\ calls' = <<f>> \o calls
    BY <1>2, <1>5, <1>11 DEF BG!Connect
  <2>2. f \in Connects /\ Separate(calls) /\ \A i \in DOMAIN calls : calls[i].slot # f.slot
    BY <1>5 DEF Connects, BindingIInv, BindingTypes, Nested, Pending
  <2>3. /\ Separate(calls') /\ 1 \in DOMAIN calls' /\ calls'[1] = f
        /\ \A i \in DOMAIN calls : i + 1 \in DOMAIN calls' /\ calls'[i + 1] = calls[i]
        /\ \A i \in DOMAIN calls' : i = 1 \/ (i - 1 \in DOMAIN calls /\ calls'[i] = calls[i - 1])
    <3> HIDE DEF f
    <3>1. QED BY <2>1, <2>2, PushedConnect
  <2>4. f.at = "bind" /\ f.slot = b /\ f.from = source
    OBVIOUS
  <2> HIDE DEF f
  <2>5. ~BG!InLoop' /\ \A i \in DOMAIN calls' : calls'[i].at # "set_source"
    BY <1>1, <2>3, <2>4 DEF BG!InLoop
  <2>6. Pending' = Pending \cup {b}
    BY <2>3, <2>4 DEF Pending
  <2>7. Done = BG!Listed /\ Done' = BG!Listed \cup {b}
    BY <1>1, <1>4, <2>5 DEF Done
  <2>8. BindingTypes'
    BY <1>1, <2>1 DEF BindingIInv, BindingTypes
  <2>9. Nested'
    BY <1>1, <1>4, <1>11, <2>3, <2>4, <2>5 DEF BindingIInv, Nested
  <2>10. Bound'
    BY <1>1, <1>5, <1>11, <2>1, <2>6, <2>7 DEF BindingIInv, Bound
  <2>11. QED BY <1>7, <1>8, <1>9, <2>8, <2>9, <2>10 DEF BindingIInv
<1>12. QED BY <1>10, <1>11

(* The array and what is watched do not change. *)
LEMMA SameArray ==
  ASSUME UNCHANGED <<source, lazy_bindings, target, watched>>, Array, Watching
  PROVE  Array' /\ Watching' /\ BG!Listed' = BG!Listed
<1>1. BG!Listed' = BG!Listed /\ \A o : To(o)' = To(o)
  BY DEF BG!Listed, To
<1>2. QED BY <1>1 DEF Array, Watching

LEMMA ConnectedKeeps ==
  ASSUME NoBindInBind, BindingIInv, BG!Connected
  PROVE  BindingIInv'
<1> DEFINE h == Head(calls)
           i == h.index + 1
<1>1. /\ BG!MayCall /\ calls # <<>>
      /\ IF h.at = "set_source" /\ i <= Len(lazy_bindings)
         THEN BG!Connect("set_source", i, lazy_bindings[i], source, BG!Stored, bound, Tail(calls))
         ELSE binding' = BG!Stored /\ calls' = Tail(calls) /\ UNCHANGED <<bound, failed>>
      /\ UNCHANGED <<source, lazy_bindings, target, watched, dying>>
  BY DEF BG!Connected
<1>2. Separate(calls)
  BY DEF BindingIInv, Nested
<1>3. /\ Separate(Tail(calls)) /\ 1 \in DOMAIN calls /\ h = calls[1] /\ h \in Connects
      /\ Len(Tail(calls)) = Len(calls) - 1
      /\ \A j \in DOMAIN Tail(calls) :
           j + 1 \in DOMAIN calls /\ Tail(calls)[j] = calls[j + 1] /\ Tail(calls)[j].slot # h.slot
      /\ \A j \in DOMAIN calls : j = 1 \/ (j - 1 \in DOMAIN Tail(calls)
            /\ calls[j] = Tail(calls)[j - 1])
  BY <1>1, <1>2, PoppedConnect
<1>4. /\ h.slot \in Slot /\ h.slot \in BG!Listed /\ h.from = source /\ source # None
      /\ h.index \in Nat
      /\ h.at = "set_source" =>
           /\ Len(calls) = 1 /\ h.index \in DOMAIN lazy_bindings
           /\ lazy_bindings[h.index] = h.slot
  BY <1>3 DEF BindingIInv, Nested, Connects
<1>5. /\ BG!Stored = [binding EXCEPT ![h.slot] = source]
      /\ BG!Stored \in [Slot -> Source \cup {None}]
  BY <1>4 DEF BG!Stored, BindingIInv, BindingTypes
<1>6. Array' /\ Watching' /\ BG!Listed' = BG!Listed
  BY <1>1, SameArray DEF BindingIInv
<1>7. Dying'
  BY <1>1 DEF BG!MayCall, Dying
<1>8. h.slot \in Pending /\ Pending \subseteq BG!Listed
  BY <1>3 DEF BindingIInv, Nested, Pending
<1>9. CASE h.at = "set_source" /\ i <= Len(lazy_bindings)
  <2> DEFINE b == lazy_bindings[i]
             f == [at |-> "set_source", index |-> i, slot |-> b, from |-> source]
  <2>1. lazy_bindings \in Seq(Slot) /\ Distinct(lazy_bindings) /\ calls \in Seq(Connects)
    BY <1>2 DEF BindingIInv, Array, Separate
  <2>2. i \in DOMAIN lazy_bindings /\ b \in Slot /\ b \in BG!Listed
          /\ h.index \in 1..Len(lazy_bindings)
    BY <1>4, <1>9, <2>1 DEF BG!Listed
  <2>3. Tail(calls) = <<>> /\ Pending = {h.slot}
    <3>1. Len(calls) = 1 /\ DOMAIN calls = {1}
      BY <1>4, <1>9, <2>1
    <3>2. QED BY <1>3, <2>1, <3>1 DEF Pending
  <2>4. BG!InLoop /\ Done = {lazy_bindings[j] : j \in 1..h.index}
    BY <1>3, <1>9 DEF BG!InLoop, Done
  <2>5. b \notin Done /\ b # h.slot
    <3>1. ASSUME NEW j \in 1..h.index PROVE lazy_bindings[j] # b
      BY <1>4, <2>1, <2>2, <3>1 DEF Distinct
    <3>2. h.index \in 1..h.index
      BY <2>2
    <3>3. QED BY <1>4, <1>9, <2>4, <3>1, <3>2
  <2>6. BG!Stored[b] = None
    BY <1>5, <2>2, <2>5 DEF BindingIInv, BindingTypes, Bound
  <2>7. /\ failed' = FALSE /\ binding' = BG!Stored
        /\ bound' = bound \cup {<<source, b>>} /\ calls' = <<f>>
    <3>1. BG!Connect("set_source", i, b, source, BG!Stored, bound, Tail(calls))
      BY <1>1, <1>9
    <3>2. failed' = (source = None \/ BG!Stored[b] # None) /\ calls' = <<f>> \o Tail(calls)
          /\ binding' = BG!Stored /\ bound' = bound \cup {<<source, b>>}
      BY <3>1 DEF BG!Connect
    <3> HIDE DEF f, b, i, h
    <3>3. <<f>> \o <<>> = <<f>>
      OBVIOUS
    <3>4. QED BY <1>4, <2>3, <2>6, <3>2, <3>3
  <2>8. f \in Connects /\ f.at = "set_source" /\ f.index = i /\ f.slot = b /\ f.from = source
    BY <1>4, <2>2 DEF Connects, BindingIInv, BindingTypes
  <2>9. DOMAIN calls' = {1} /\ calls'[1] = f /\ Len(calls') = 1 /\ calls' \in Seq(Connects)
    <3> HIDE DEF f
    <3>1. QED BY <2>7, <2>8
  <2>10. BG!InLoop' /\ Pending' = {b} /\ Done' = Done \cup {b}
    <3>1. BG!InLoop' /\ Pending' = {b}
      BY <2>8, <2>9 DEF BG!InLoop, Pending
    <3>2. Done' = {lazy_bindings[j] : j \in 1..i}
      BY <1>1, <2>8, <2>9, <3>1 DEF Done
    <3>3. 1..i = (1..h.index) \cup {i}
      BY <1>4
    <3>4. {lazy_bindings[j] : j \in 1..i} = {lazy_bindings[j] : j \in 1..h.index} \cup {b}
      BY <3>3
    <3>5. QED BY <2>4, <3>1, <3>2, <3>4
  <2>11. BindingTypes'
    BY <1>1, <1>5, <2>2, <2>7 DEF BindingIInv, BindingTypes
  <2>12. Nested'
    BY <1>1, <1>4, <1>6, <2>2, <2>8, <2>9 DEF Nested, Separate
  <2>13. h.slot \in Done
    BY <1>4, <1>9, <2>2, <2>4
  <2>14. Bound'
    <3>1. ASSUME NEW s \in Source \cup {None}, NEW c \in Slot
          PROVE  <<s, c>> \in bound' <=> source # None /\ s = source /\ c \in Done'
      BY <1>4, <2>7, <2>10 DEF BindingIInv, Bound
    <3>2. ASSUME NEW c \in Slot
          PROVE  binding'[c] = IF c \in Done' /\ c \notin Pending' THEN source ELSE None
      BY <1>4, <1>5, <2>3, <2>5, <2>7, <2>10, <2>13 DEF BindingIInv, BindingTypes, Bound
    <3>3. QED BY <1>1, <3>1, <3>2 DEF Bound
  <2>15. QED BY <1>6, <1>7, <2>11, <2>12, <2>14 DEF BindingIInv
<1>10. CASE ~(h.at = "set_source" /\ i <= Len(lazy_bindings))
  <2>1. binding' = BG!Stored /\ calls' = Tail(calls) /\ UNCHANGED <<bound, failed>>
    BY <1>1, <1>10
  <2>2. Pending' = Pending \ {h.slot}
    <3>1. Pending' \subseteq Pending \ {h.slot}
      BY <1>3, <2>1 DEF Pending
    <3>2. ASSUME NEW j \in DOMAIN calls, calls[j].slot # h.slot
          PROVE  calls[j].slot \in Pending'
      BY <1>3, <2>1, <3>2 DEF Pending
    <3>3. QED BY <3>1, <3>2 DEF Pending
  <2>3. \A j \in DOMAIN calls' : calls'[j].at # "set_source"
    <3>1. ASSUME NEW j \in DOMAIN calls', calls'[j].at = "set_source" PROVE FALSE
      <4>1. j + 1 \in DOMAIN calls /\ calls[j + 1].at = "set_source"
        BY <1>3, <2>1, <3>1
      <4>2. Len(calls) = 1
        BY <4>1 DEF BindingIInv, Nested
      <4>3. calls \in Seq(Connects) /\ calls' \in Seq(Connects)
        BY <1>2, <1>3, <2>1 DEF Separate
      <4>4. QED BY <4>1, <4>2, <4>3, <3>1
    <3>2. QED BY <3>1
  <2>4. ~BG!InLoop' /\ Done' = BG!Listed
    BY <1>6, <2>3 DEF BG!InLoop, Done
  <2>5. Done = BG!Listed
    <3>1. CASE h.at = "set_source"
      <4>1. lazy_bindings \in Seq(Slot) /\ h.index = Len(lazy_bindings)
        BY <1>4, <1>10, <3>1 DEF BindingIInv, Array
      <4>2. BG!InLoop /\ Done = {lazy_bindings[j] : j \in 1..h.index}
        BY <1>3, <3>1 DEF BG!InLoop, Done
      <4>3. QED BY <4>1, <4>2 DEF BG!Listed
    <3>2. CASE h.at # "set_source"
      <4>1. ~BG!InLoop
        <5>1. ASSUME NEW j \in DOMAIN calls, calls[j].at = "set_source" PROVE FALSE
          <6>1. Len(calls) = 1 /\ calls \in Seq(Connects)
            BY <1>2, <5>1 DEF BindingIInv, Nested, Separate
          <6>2. j = 1
            BY <6>1
          <6>3. QED BY <1>3, <3>2, <5>1, <6>2
        <5>2. QED BY <5>1 DEF BG!InLoop
      <4>2. QED BY <4>1 DEF Done
    <3>3. QED BY <3>1, <3>2
  <2>6. BindingTypes'
    BY <1>1, <1>5, <2>1 DEF BindingIInv, BindingTypes
  <2>7. Nested'
    BY <1>1, <1>3, <1>6, <2>1, <2>3 DEF BindingIInv, Nested
  <2>8. Bound'
    BY <1>1, <1>4, <1>5, <1>8, <2>1, <2>2, <2>4, <2>5 DEF BindingIInv, BindingTypes, Bound
  <2>9. QED BY <1>6, <1>7, <2>6, <2>7, <2>8 DEF BindingIInv
<1>11. QED BY <1>9, <1>10

LEMMA SourceDiesKeeps ==
  ASSUME NoBindInBind, BindingIInv, NEW s \in Source, BG!SourceDies(s)
  PROVE  BindingIInv'
<1>1. /\ BG!MayCall /\ s \notin BG!Held /\ watched[s] > 0
      /\ watched' = [watched EXCEPT ![s] = 0]
      /\ source' = None /\ binding' = BG!Unbound /\ bound' = {p \in bound : p[1] # s}
      /\ UNCHANGED <<lazy_bindings, target, dying, calls, failed>>
  BY DEF BG!SourceDies
<1>2. /\ None \notin Source \cup Target /\ Source \cap Target = {}
  BY DEF NoBindInBind, BG!ConstantsType
<1>3. To(s) = {} /\ Cardinality(To(s)) = 0
  <2>1. \A b \in BG!Listed : b \in Slot
    BY DEF BindingIInv, Array, BG!Listed
  <2>2. To(s) = {}
    BY <1>2, <2>1 DEF To, BindingIInv, BindingTypes
  <2>3. QED BY <2>2, FS_EmptySet
<1>4. source = s
  <2>1. watched[s] = (IF s = source THEN 1 ELSE 0) + Cardinality(To(s))
    BY DEF BindingIInv, Watching
  <2>2. QED BY <1>1, <1>3, <2>1
<1>5. calls = <<>>
  <2>1. calls \in Seq(Connects) /\ DOMAIN calls = {}
    BY <1>1, <1>4 DEF BG!Held, BindingIInv, Nested, Separate
  <2>2. QED BY <2>1
<1>6. BG!Listed' = BG!Listed /\ \A o : To(o)' = To(o)
  BY <1>1 DEF BG!Listed, To
<1>7. BindingTypes'
  BY <1>1 DEF BindingIInv, BindingTypes, BG!Unbound
<1>8. Array'
  BY <1>1, <1>6 DEF BindingIInv, Array
<1>9. Nested'
  BY <1>1, <1>5 DEF Nested, Separate
<1>10. ~BG!InLoop' /\ Done' = BG!Listed /\ Pending' = {}
  BY <1>1, <1>5, <1>6 DEF BG!InLoop, Done, Pending
<1>11. Bound'
  <2>1. ASSUME NEW r \in Source \cup {None}, NEW b \in Slot PROVE <<r, b>> \notin bound'
    BY <1>1, <1>4 DEF BindingIInv, Bound
  <2>2. \A b \in Slot : binding'[b] = None
    BY <1>1 DEF BG!Unbound
  <2>3. QED BY <1>1, <2>1, <2>2 DEF Bound
<1>12. Watching'
  <2>1. ASSUME NEW o \in Source \cup Target
        PROVE  watched'[o] = (IF o = None THEN 1 ELSE 0) + Cardinality(To(o))
    <3>1. watched[o] = (IF o = s THEN 1 ELSE 0) + Cardinality(To(o)) /\ Cardinality(To(o)) \in Nat
      BY <1>4, ToFinite DEF BindingIInv, Watching
    <3>2. watched'[o] = IF o = s THEN 0 ELSE watched[o]
      BY <1>1 DEF BindingIInv, BindingTypes
    <3>3. o # None
      BY <1>2
    <3>4. CASE o = s
      BY <1>3, <3>2, <3>3, <3>4
    <3>5. CASE o # s
      BY <3>1, <3>2, <3>3, <3>5
    <3>6. QED BY <3>4, <3>5
  <2>2. QED BY <1>1, <1>6, <2>1 DEF Watching
<1>13. Dying'
  BY <1>1 DEF BG!MayCall, Dying
<1>14. QED BY <1>7, <1>8, <1>9, <1>11, <1>12, <1>13 DEF BindingIInv

LEMMA TargetDiesKeeps ==
  ASSUME NoBindInBind, BindingIInv, NEW t \in Target, BG!TargetDies(t)
  PROVE  BindingIInv'
<1>1. /\ t \notin BG!Held /\ watched[t] > 0 /\ ~BG!InLoop /\ dying' = t
      /\ UNCHANGED <<source, lazy_bindings, target, binding, bound, watched, calls, failed>>
  BY DEF BG!TargetDies, NoBindInBind
<1>2. /\ BG!Listed' = BG!Listed /\ Pending' = Pending /\ BG!InLoop' = BG!InLoop /\ Done' = Done
      /\ \A o : To(o)' = To(o)
  BY <1>1 DEF BG!Listed, Pending, BG!InLoop, Done, To
<1>3. BindingTypes'
  BY <1>1 DEF BindingIInv, BindingTypes
<1>4. Array' /\ Nested' /\ Bound' /\ Watching'
  BY <1>1, <1>2 DEF BindingIInv, Array, Nested, Bound, Watching
<1>5. \A b \in Pending : target[b] # t
  BY <1>1 DEF BG!Held, Pending
<1>6. Dying'
  BY <1>1, <1>2, <1>5 DEF Dying
<1>7. QED BY <1>3, <1>4, <1>6 DEF BindingIInv

LEMMA TargetNotifiedKeeps ==
  ASSUME NoBindInBind, BindingIInv, BG!TargetNotified
  PROVE  BindingIInv'
<1>1. PICK i \in DOMAIN lazy_bindings :
        /\ target[lazy_bindings[i]] = dying
        /\ lazy_bindings' = BG!RemoveFast(lazy_bindings, i)
        /\ target' = [target EXCEPT ![lazy_bindings[i]] = None]
        /\ binding' = [binding EXCEPT ![lazy_bindings[i]] = None]
        /\ bound' = {p \in bound : p[2] # lazy_bindings[i]}
  BY DEF BG!TargetNotified
<1>2. /\ dying # None /\ watched' = [watched EXCEPT ![dying] = @ - 1]
      /\ dying' = IF watched'[dying] = 0 THEN None ELSE dying
      /\ UNCHANGED <<source, calls, failed>>
  BY DEF BG!TargetNotified
<1> DEFINE b == lazy_bindings[i]
<1>3. b \in Slot /\ b \in BG!Listed
  BY DEF BindingIInv, Array, BG!Listed
<1>4. dying \in Target /\ watched[dying] > 0 /\ ~BG!InLoop /\ \A c \in Pending : target[c] # dying
  BY <1>2 DEF BindingIInv, BindingTypes, Dying
<1>5. BG!Listed' = BG!Listed \ {b} /\ lazy_bindings' \in Seq(Slot) /\ Distinct(lazy_bindings')
  <2>1. BG!Listed = Elements(lazy_bindings) /\ BG!Listed' = Elements(lazy_bindings')
    BY DEF BG!Listed, Elements
  <2>2. QED BY <1>1, <2>1, Removed DEF BindingIInv, Array
<1>6. b \notin Pending
  BY <1>1, <1>4
<1>7. Pending' = Pending /\ ~BG!InLoop' /\ Done = BG!Listed /\ Done' = BG!Listed'
  BY <1>2, <1>4 DEF Pending, BG!InLoop, Done
<1> HIDE DEF b
<1>8. /\ target' = [target EXCEPT ![b] = None]
      /\ binding' = [binding EXCEPT ![b] = None]
      /\ bound' = {p \in bound : p[2] # b}
      /\ target[b] = dying
  BY <1>1 DEF b
<1>9. Array'
  <2>1. IsFiniteSet(BG!Listed')
    BY <1>5, FS_RemoveElement DEF BindingIInv, Array
  <2>2. QED BY <1>3, <1>5, <1>8, <2>1 DEF BindingIInv, BindingTypes, Array
<1>10. watched' \in [Source \cup Target -> Nat] /\ watched'[dying] = watched[dying] - 1
       /\ \A o \in Source \cup Target : o # dying => watched'[o] = watched[o]
  <2>1. watched[dying] \in Nat /\ watched[dying] - 1 \in Nat
    BY <1>4 DEF BindingIInv, BindingTypes
  <2>2. QED BY <1>2, <1>4, <2>1 DEF BindingIInv, BindingTypes
<1>11. BindingTypes'
  BY <1>2, <1>8, <1>10 DEF BindingIInv, BindingTypes
<1>12. Nested'
  <2>1. \A j \in DOMAIN calls : calls[j].slot # b
    BY <1>6 DEF Pending
  <2>2. \A j \in DOMAIN calls : calls[j].at # "set_source"
    BY <1>4 DEF BG!InLoop
  <2>3. QED BY <1>2, <1>5, <2>1, <2>2 DEF BindingIInv, Nested
<1>13. Bound'
  BY <1>2, <1>3, <1>5, <1>7, <1>8 DEF BindingIInv, BindingTypes, Bound
<1>14. Watching'
  <2>1. ASSUME NEW o \in Source \cup Target
        PROVE  watched'[o] = (IF o = source THEN 1 ELSE 0) + Cardinality(To(o)')
    <3>1. IsFiniteSet(To(o)) /\ Cardinality(To(o)) \in Nat
      BY ToFinite DEF BindingIInv
    <3>2. watched[o] = (IF o = source THEN 1 ELSE 0) + Cardinality(To(o))
      BY DEF BindingIInv, Watching
    <3>3. To(o)' = To(o) \ {b}
      BY <1>5, <1>8 DEF To, BindingIInv, BindingTypes
    <3>4. b \in To(o) <=> o = dying
      BY <1>3, <1>8 DEF To
    <3>5. Cardinality(To(o)') = IF o = dying THEN Cardinality(To(o)) - 1 ELSE Cardinality(To(o))
      BY <3>1, <3>3, <3>4, FS_RemoveElement
    <3>6. CASE o = dying
      BY <1>10, <3>1, <3>2, <3>5, <3>6
    <3>7. CASE o # dying
      BY <1>10, <3>1, <3>2, <3>5, <3>7
    <3>8. QED BY <3>6, <3>7
  <2>2. QED BY <1>2, <2>1 DEF Watching
<1>15. Dying'
  <2>1. dying' # None => dying' = dying /\ watched'[dying] > 0
    <3>1. watched'[dying] \in Nat
      BY <1>4, <1>10
    <3>2. dying' = IF watched'[dying] = 0 THEN None ELSE dying
      BY <1>2
    <3>3. QED BY <3>1, <3>2
  <2>2. \A c \in Pending : target'[c] = target[c]
    BY <1>6, <1>8 DEF BindingIInv, BindingTypes
  <2>3. QED BY <1>4, <1>7, <2>1, <2>2 DEF Dying
<1>16. QED BY <1>9, <1>11, <1>12, <1>13, <1>14, <1>15 DEF BindingIInv

LEMMA GroupDisposeKeeps ==
  ASSUME NoBindInBind, BindingIInv, BG!Dispose
  PROVE  BindingIInv'
<1>1. /\ BG!MayCall /\ calls = <<>> /\ source' = None /\ lazy_bindings' = <<>>
      /\ target' = [b \in Slot |-> None] /\ binding' = BG!Unbound /\ bound' = BG!LeftBound
      /\ watched' = [o \in Source \cup Target |->
                       watched[o] - (IF o = source THEN 1 ELSE 0) - Cardinality(To(o))]
      /\ UNCHANGED <<dying, calls, failed>>
  BY SameCardinality DEF BG!Dispose, To
<1>2. bound' = {}
  BY <1>1, AllUnbound
<1>3. BG!Listed' = {} /\ IsFiniteSet({}) /\ Cardinality({}) = 0
  BY <1>1, FS_EmptySet DEF BG!Listed
<1>4. ~BG!InLoop' /\ Done' = {} /\ Pending' = {}
  BY <1>1, <1>3 DEF BG!InLoop, Done, Pending
<1>5. \A o \in Source \cup Target : watched'[o] = 0
  <2>1. ASSUME NEW o \in Source \cup Target PROVE watched'[o] = 0
    <3>1. watched[o] = (IF o = source THEN 1 ELSE 0) + Cardinality(To(o))
      BY DEF BindingIInv, Watching
    <3>2. Cardinality(To(o)) \in Nat
      BY ToFinite DEF BindingIInv
    <3>3. QED BY <1>1, <3>1, <3>2
  <2>2. QED BY <2>1
<1>6. BindingTypes'
  <2>1. watched' = [o \in Source \cup Target |-> watched'[o]]
    BY <1>1
  <2>2. watched' \in [Source \cup Target -> Nat]
    BY <1>5, <2>1
  <2>3. QED BY <1>1, <1>2, <2>2 DEF BindingIInv, BindingTypes, BG!Unbound
<1>7. Array'
  BY <1>1, <1>3 DEF Array, Distinct
<1>8. Nested'
  BY <1>1 DEF Nested, Separate
<1>9. Bound'
  BY <1>1, <1>2, <1>4 DEF Bound, BG!Unbound
<1>10. Watching'
  <2>1. \A o \in Source \cup Target : To(o)' = {} /\ o # None
    BY <1>3 DEF To, NoBindInBind, BG!ConstantsType
  <2>2. \A o \in Source \cup Target : Cardinality(To(o)') = 0
    BY <1>3, <2>1
  <2>3. \A o \in Source \cup Target :
          watched'[o] = (IF o = source' THEN 1 ELSE 0) + Cardinality(To(o)')
    <3>1. source' = None
      BY <1>1
    <3>2. QED BY <1>5, <2>1, <2>2, <3>1
  <2>4. QED BY <2>3 DEF Watching
<1>11. Dying'
  BY <1>1 DEF BG!MayCall, Dying
<1>12. QED BY <1>6, <1>7, <1>8, <1>9, <1>10, <1>11 DEF BindingIInv

LEMMA BindingStep == NoBindInBind /\ BindingIInv /\ [BG!Next]_(BG!vars) => BindingIInv'
<1> SUFFICES ASSUME NoBindInBind, BindingIInv, [BG!Next]_(BG!vars) PROVE BindingIInv'
  OBVIOUS
<1>1. CASE \E s \in Source \cup {None} : BG!SetSource(s)
  BY <1>1, SetSourceKeeps
<1>2. CASE \E b \in Slot, t \in Target : BG!BindHelper(b, t)
  BY <1>2, BindHelperKeeps
<1>3. CASE \E s \in Source : BG!SourceDies(s)
  BY <1>3, SourceDiesKeeps
<1>4. CASE \E t \in Target : BG!TargetDies(t)
  BY <1>4, TargetDiesKeeps
<1>5. CASE BG!Connected
  BY <1>5, ConnectedKeeps
<1>6. CASE BG!TargetNotified
  BY <1>6, TargetNotifiedKeeps
<1>7. CASE BG!Dispose
  BY <1>7, GroupDisposeKeeps
<1>8. CASE UNCHANGED BG!vars
  <2>1. UNCHANGED <<source, lazy_bindings, target, binding, bound, watched, dying, calls, failed>>
    BY <1>8 DEF BG!vars
  <2>2. /\ BG!Listed' = BG!Listed /\ Pending' = Pending /\ BG!InLoop' = BG!InLoop /\ Done' = Done
        /\ \A o : To(o)' = To(o)
    BY <2>1 DEF BG!Listed, Pending, BG!InLoop, Done, To
  <2>3. QED BY <2>1, <2>2 DEF BindingIInv, BindingTypes, Array, Nested, Bound, Watching, Dying
<1>9. QED BY <1>1, <1>2, <1>3, <1>4, <1>5, <1>6, <1>7, <1>8 DEF BG!Next

LEMMA BindingInvariance == ASSUME NoBindInBind PROVE BG!Spec => []BindingIInv
<1>1. BG!Init => BindingIInv
  BY BindingInit
<1>2. BindingIInv /\ [BG!Next]_(BG!vars) => BindingIInv'
  BY BindingStep
<1>3. QED BY <1>1, <1>2, PTL DEF BG!Spec

-----------------------------------------------------------------------------
(* Every variable keeps its type, the frames of the connects included.     *)
THEOREM BindingsTypeCorrect == ASSUME NoBindInBind PROVE BG!Spec => []BG!TypeOK
<1>1. BindingIInv => BG!TypeOK
  BY DEF BindingIInv, BindingTypes, Array, Nested, Separate, Connects, BG!TypeOK
<1>2. BG!Spec => []BindingIInv
  BY BindingInvariance
<1>3. QED BY <1>1, <1>2, PTL

(* Once the calls have returned, every bound property has one GBinding,    *)
(* from the source of the moment, and no other is left, whatever sources   *)
(* and targets have been replaced or died; and no lazy binding points to a *)
(* GBinding that is gone.                                                  *)
THEOREM BindingsFollowSource == ASSUME NoBindInBind PROVE BG!Spec => []BG!FollowsSource
<1>1. BindingIInv => BG!FollowsSource
  <2> SUFFICES ASSUME BindingIInv PROVE BG!FollowsSource
    OBVIOUS
  <2>1. ASSUME calls = <<>>
        PROVE  /\ bound = IF source = None THEN {} ELSE {source} \X BG!Listed
               /\ \A b \in BG!Listed : binding[b] = source
    <3>1. Done = BG!Listed /\ Pending = {} /\ BG!Listed \subseteq Slot
      BY <2>1, AtRest DEF BindingIInv, Array, BG!Listed
    <3>2. \A b \in BG!Listed : binding[b] = source
      BY <3>1 DEF BindingIInv, Bound
    <3>3. ASSUME NEW p \in bound PROVE source # None /\ p \in {source} \X BG!Listed
      <4>1. PICK s \in Source \cup {None}, b \in Slot : p = <<s, b>>
        BY <3>3 DEF BindingIInv, BindingTypes
      <4>2. QED BY <3>1, <3>3, <4>1 DEF BindingIInv, Bound
    <3>4. ASSUME source # None, NEW b \in BG!Listed PROVE <<source, b>> \in bound
      BY <3>1, <3>4 DEF BindingIInv, BindingTypes, Bound
    <3>5. CASE source = None
      BY <3>2, <3>3, <3>5
    <3>6. CASE source # None
      <4>1. bound \subseteq {source} \X BG!Listed
        BY <3>3
      <4>2. {source} \X BG!Listed \subseteq bound
        BY <3>4, <3>6
      <4>3. QED BY <3>2, <3>6, <4>1, <4>2
    <3>7. QED BY <3>5, <3>6
  <2>2. ASSUME NEW b \in Slot, binding[b] # None PROVE <<binding[b], b>> \in bound
    BY <2>2 DEF BindingIInv, BindingTypes, Bound
  <2>3. QED BY <2>1, <2>2 DEF BG!FollowsSource
<1>2. BG!Spec => []BindingIInv
  BY BindingInvariance
<1>3. QED BY <1>1, <1>2, PTL

(* The source holds one weak notify of the group, a target one for every   *)
(* lazy binding to it, and nothing else any, also between the notifies of  *)
(* a target that dies: none outlives the group.                            *)
THEOREM WatchesExactlyItsObjects == ASSUME NoBindInBind PROVE BG!Spec => []BG!WatchesItsObjects
<1>1. BindingIInv => BG!WatchesItsObjects
  BY SameCardinality DEF BindingIInv, Watching, To, BG!WatchesItsObjects
<1>2. BG!Spec => []BindingIInv
  BY BindingInvariance
<1>3. QED BY <1>1, <1>2, PTL

(* There is a source when a lazy binding is connected, and the lazy        *)
(* binding has no GBinding yet (dzl-binding-group.c:115, 117).             *)
THEOREM BindingAssertionsNeverFail == ASSUME NoBindInBind PROVE BG!Spec => []BG!AssertionsHold
<1>1. BindingIInv => BG!AssertionsHold
  BY DEF BindingIInv, BindingTypes, BG!AssertionsHold
<1>2. BG!Spec => []BindingIInv
  BY BindingInvariance
<1>3. QED BY <1>1, <1>2, PTL

(* All three at once, for every number of objects and bindings, and        *)
(* however deep the connects are nested.                                   *)
THEOREM BindingsAlwaysFollow == ASSUME NoBindInBind PROVE BG!Spec => []BG!BindingsFollow
<1>1. BG!FollowsSource /\ BG!WatchesItsObjects /\ BG!AssertionsHold => BG!BindingsFollow
  BY DEF BG!BindingsFollow
<1>2. QED
  BY <1>1, BindingsFollowSource, WatchesExactlyItsObjects, BindingAssertionsNeverFail, PTL

-----------------------------------------------------------------------------
(* State machines with any states, objects and depth of calls, and setters *)
(* that register, enter other states and destroy objects in the middle of  *)
(* a transition: whenever none is running, what the current state asks for *)
(* is in force, and nothing else but what overtaken states left behind.    *)
Transitions == [at : SM!Transition \cup {"notify"}, of : State \cup {None}, done : SUBSET SM!Entry]

Now == {state} \cup overtaken

StateTypes ==
  /\ state \in State \cup {None} /\ overtaken \subseteq State \cup {None}
  /\ entries \subseteq SM!Entry /\ sourced \subseteq SM!Groups /\ late \subseteq SM!Entry
  /\ value \in [Object -> State \cup {None}]
  /\ shown \subseteq Object
  /\ transitions \in Seq(Transitions)

(* A transition that runs is to the current state or to an overtaken one,  *)
(* and what is in force is of one of these.                                *)
NothingElse ==
  /\ \A i \in DOMAIN transitions :
       transitions[i].at \in SM!Transition => transitions[i].of \in Now
  /\ \A g \in sourced : g \in entries /\ g[2] \in Now
  /\ \A w \in shown : \E s \in Now : <<"style", s, w>> \in entries
  /\ \A e \in late : e[1] # "style"

(* The loops of frame f have still to come to entry e of its state. *)
Due(f, e) ==
  \/ f.at \in SM!Transition /\ e[1] = "style"
  \/ f.at \in {"entered", "bindings"} /\ e[1] \in {"signal", "property"}
  \/ f.at \in {"entered", "bindings"} /\ e[1] = "binding" /\ e \notin f.done
  \/ f.at \in {"signals", "properties"} /\ e[1] = "property" /\ e \notin f.done
Coming(e) == \E i \in DOMAIN transitions : transitions[i].of = state /\ Due(transitions[i], e)

Has(e) ==
  \/ e \in sourced
  \/ e[1] = "property" /\ \E s \in Now : value[e[3]] = s /\ <<"property", s, e[3]>> \in entries
  \/ e[1] = "style" /\ e[3] \in shown

(* What the current state asks for is in force, or a running transition    *)
(* has still to come to it, or it came too late.                           *)
AllComing == \A e \in entries : e[2] = state => e \in late \/ Coming(e) \/ Has(e)

StateIInv == StateTypes /\ NothingElse /\ AllComing

-----------------------------------------------------------------------------
LEMMA EntryType ==
  /\ SM!Groups \subseteq SM!Entry
  /\ \A e \in SM!Entry :
       /\ e[1] \in {"binding", "signal", "property", "style"} /\ e[2] \in State /\ e[3] \in Object
       /\ e = <<e[1], e[2], e[3]>>
       /\ e \in SM!Groups <=> e[1] \in {"binding", "signal"}
  BY DEF SM!Groups, SM!Entry

LEMMA Innermost ==
  ASSUME StateTypes, transitions # <<>>
  PROVE  /\ 1 \in DOMAIN transitions /\ SM!Frame = transitions[1] /\ SM!Frame \in Transitions
         /\ transitions \in Seq(Transitions) /\ Len(transitions) \in Nat
  BY DEF StateTypes, SM!Frame

(* A new frame above the others, and the innermost one gone. *)
LEMMA PushedTransition ==
  ASSUME NEW s \in Seq(Transitions), NEW f \in Transitions
  PROVE  /\ <<f>> \o s \in Seq(Transitions)
         /\ 1 \in DOMAIN (<<f>> \o s) /\ (<<f>> \o s)[1] = f
         /\ \A i \in DOMAIN (<<f>> \o s) :
              (i = 1 /\ (<<f>> \o s)[i] = f) \/ (i - 1 \in DOMAIN s /\ (<<f>> \o s)[i] = s[i - 1])
         /\ \A i \in DOMAIN s : i + 1 \in DOMAIN (<<f>> \o s) /\ (<<f>> \o s)[i + 1] = s[i]
  OBVIOUS

LEMMA PoppedTransition ==
  ASSUME NEW s \in Seq(Transitions), s # <<>>
  PROVE  /\ Tail(s) \in Seq(Transitions)
         /\ \A i \in DOMAIN Tail(s) : i + 1 \in DOMAIN s /\ i + 1 # 1 /\ Tail(s)[i] = s[i + 1]
         /\ \A i \in DOMAIN s : i # 1 => i - 1 \in DOMAIN Tail(s) /\ Tail(s)[i - 1] = s[i]
  OBVIOUS

(* The innermost frame goes on. *)
LEMMA Mark ==
  ASSUME StateTypes, transitions # <<>>, NEW a \in SM!Transition, NEW d \in SUBSET SM!Entry,
         transitions' = [transitions EXCEPT ![1] = [SM!Frame EXCEPT !.at = a, !.done = d]]
  PROVE  /\ transitions' \in Seq(Transitions) /\ DOMAIN transitions' = DOMAIN transitions
         /\ transitions'[1].at = a /\ transitions'[1].done = d
         /\ transitions'[1].of = SM!Frame.of
         /\ \A i \in DOMAIN transitions : i # 1 => transitions'[i] = transitions[i]
<1> DEFINE f == [SM!Frame EXCEPT !.at = a, !.done = d]
<1>1. f \in Transitions /\ f.at = a /\ f.done = d /\ f.of = SM!Frame.of
  BY Innermost DEF Transitions
<1> HIDE DEF f
<1>2. transitions' = [transitions EXCEPT ![1] = f]
  BY DEF f
<1>3. transitions \in Seq(Transitions) /\ 1 \in DOMAIN transitions /\ Len(transitions) \in Nat
  BY Innermost
<1>4. /\ transitions' \in Seq(Transitions) /\ DOMAIN transitions' = DOMAIN transitions
      /\ transitions'[1] = f
      /\ \A i \in DOMAIN transitions : i # 1 => transitions'[i] = transitions[i]
  BY <1>1, <1>2, <1>3
<1>5. QED BY <1>1, <1>4

(* While a setter of the innermost transition is done with, whatever was   *)
(* coming from the others still is.                                        *)
LEMMA MarkedStep ==
  ASSUME StateIInv, transitions # <<>>, NEW a \in SM!Transition, NEW d \in SUBSET SM!Entry,
         transitions' = [transitions EXCEPT ![1] = [SM!Frame EXCEPT !.at = a, !.done = d]],
         SM!Frame.at \in SM!Transition,
         UNCHANGED <<state, overtaken>>
  PROVE  /\ transitions' \in Seq(Transitions)
         /\ \A i \in DOMAIN transitions' :
              transitions'[i].at \in SM!Transition => transitions'[i].of \in Now'
         /\ \A e \in entries : Coming(e) =>
              \/ Coming(e)'
              \/ SM!Frame.of = state /\ Due(SM!Frame, e) /\ ~Due(transitions'[1], e)
<1>1. /\ transitions' \in Seq(Transitions) /\ DOMAIN transitions' = DOMAIN transitions
      /\ transitions'[1].at = a /\ transitions'[1].done = d /\ transitions'[1].of = SM!Frame.of
      /\ \A i \in DOMAIN transitions : i # 1 => transitions'[i] = transitions[i]
  BY Mark DEF StateIInv
<1>2. 1 \in DOMAIN transitions /\ SM!Frame = transitions[1]
  BY Innermost DEF StateIInv
<1>3. Now' = Now
  BY DEF Now
<1>4. \A i \in DOMAIN transitions' :
        transitions'[i].at \in SM!Transition => transitions'[i].of \in Now'
  BY <1>1, <1>2, <1>3 DEF StateIInv, NothingElse
<1>5. ASSUME NEW e \in entries, Coming(e)
      PROVE  Coming(e)' \/ (SM!Frame.of = state /\ Due(SM!Frame, e) /\ ~Due(transitions'[1], e))
  <2>1. PICK i \in DOMAIN transitions : transitions[i].of = state /\ Due(transitions[i], e)
    BY <1>5 DEF Coming
  <2>2. CASE i = 1
    BY <1>1, <1>2, <2>1, <2>2 DEF Coming, Due
  <2>3. CASE i # 1
    BY <1>1, <2>1, <2>3 DEF Coming, Due
  <2>4. QED BY <2>2, <2>3
<1>6. QED BY <1>1, <1>4, <1>5

-----------------------------------------------------------------------------
LEMMA StateInit == SM!ConstantsType /\ SM!Init => StateIInv
<1> SUFFICES ASSUME SM!ConstantsType, SM!Init PROVE StateIInv
  OBVIOUS
<1>1. StateTypes
  BY DEF SM!Init, StateTypes
<1>2. NothingElse
  BY DEF SM!Init, NothingElse
<1>3. AllComing
  BY DEF SM!Init, AllComing
<1>4. QED BY <1>1, <1>2, <1>3 DEF StateIInv

(* Entering a state leaves all that is its to come.  The state that is     *)
(* left is overtaken if a transition to it is still running.               *)
LEMMA SetStateKeeps ==
  ASSUME SM!ConstantsType, StateIInv, NEW s \in State \cup {None}, SM!SetState(s)
  PROVE  StateIInv'
<1> DEFINE f == SM!Enter(s)
<1>1. /\ state' = s /\ s # state
      /\ sourced' = {g \in sourced : g[2] # state}
      /\ shown' = {w \in shown : <<"style", state, w>> \notin entries}
      /\ overtaken' = IF SM!Frames(state) = {} THEN overtaken \ {state}
                      ELSE overtaken \cup {state}
      /\ late' = {} /\ transitions' = <<f>> \o transitions
      /\ UNCHANGED <<entries, value>>
  BY DEF SM!SetState
<1>2. f \in Transitions /\ f.at = "entered" /\ f.of = s /\ f.done = {}
  BY DEF Transitions, SM!Enter, SM!Transition
<1> HIDE DEF f
<1>3. /\ transitions' \in Seq(Transitions)
      /\ 1 \in DOMAIN transitions' /\ transitions'[1] = f
      /\ \A i \in DOMAIN transitions' :
           (i = 1 /\ transitions'[i] = f) \/ (i - 1 \in DOMAIN transitions
             /\ transitions'[i] = transitions[i - 1])
  BY <1>1, <1>2, PushedTransition DEF StateIInv, StateTypes
<1>4. StateTypes'
  BY <1>1, <1>3 DEF StateIInv, StateTypes
<1>5. \A t \in Now : t # state => t \in Now'
  BY <1>1 DEF Now
<1>6. \A i \in DOMAIN transitions' :
        transitions'[i].at \in SM!Transition => transitions'[i].of \in Now'
  <2> SUFFICES ASSUME NEW i \in DOMAIN transitions', transitions'[i].at \in SM!Transition
               PROVE  transitions'[i].of \in Now'
    OBVIOUS
  <2>1. CASE i = 1
    BY <1>1, <1>2, <1>3, <2>1 DEF Now
  <2>2. CASE i - 1 \in DOMAIN transitions /\ transitions'[i] = transitions[i - 1]
    <3>1. transitions[i - 1].of \in Now
      BY <2>2 DEF StateIInv, NothingElse
    <3>2. CASE transitions[i - 1].of = state
      BY <1>1, <2>2, <3>2 DEF SM!Frames, Now
    <3>3. QED BY <1>5, <2>2, <3>1, <3>2
  <2>3. QED BY <1>3, <2>1, <2>2
<1>7. \A g \in sourced' : g \in entries' /\ g[2] \in Now'
  BY <1>1, <1>5 DEF StateIInv, NothingElse
<1>8. \A w \in shown' : \E t \in Now' : <<"style", t, w>> \in entries'
  BY <1>1, <1>5 DEF StateIInv, NothingElse
<1>9. NothingElse'
  BY <1>1, <1>6, <1>7, <1>8 DEF NothingElse
<1>10. AllComing'
  <2> SUFFICES ASSUME NEW e \in entries', e[2] = state' PROVE Coming(e)'
    BY DEF AllComing
  <2>1. e[1] \in {"binding", "signal", "property", "style"}
    BY <1>1, EntryType DEF StateIInv, StateTypes
  <2>2. Due(f, e)
    BY <1>2, <2>1 DEF Due, SM!Transition
  <2>3. QED BY <1>1, <1>2, <1>3, <2>2 DEF Coming, Due
<1>11. QED BY <1>4, <1>9, <1>10 DEF StateIInv

LEMMA ApplyBindingKeeps ==
  ASSUME SM!ConstantsType, StateIInv, SM!ApplyBinding
  PROVE  StateIInv'
<1>1. /\ transitions # <<>> /\ SM!Frame.at \in {"entered", "bindings"}
      /\ SM!Frame.at \in SM!Transition
      /\ UNCHANGED <<state, entries, value, shown, late, overtaken>>
  BY DEF SM!ApplyBinding, SM!At, SM!Transition
<1>2. PICK g \in SM!Left("binding") :
        /\ sourced' = sourced \cup {g}
        /\ transitions' = [transitions EXCEPT ![1].at = "bindings", ![1].done = @ \cup {g}]
  BY DEF SM!ApplyBinding
<1>3. SM!Frame = transitions[1] /\ 1 \in DOMAIN transitions /\ SM!Frame \in Transitions
  BY <1>1, Innermost DEF StateIInv
<1>4. g \in entries /\ g \in SM!Groups /\ g \in SM!Entry /\ g[1] = "binding" /\ g[2] = SM!Frame.of
  BY <1>2, EntryType DEF SM!Left, SM!Of, StateIInv, StateTypes
<1>5. SM!Frame.of \in Now /\ Now' = Now
  BY <1>1, <1>3 DEF StateIInv, NothingElse, Now
<1> DEFINE d == SM!Frame.done \cup {g}
<1>6. /\ d \in SUBSET SM!Entry /\ "bindings" \in SM!Transition
      /\ transitions' = [transitions EXCEPT ![1] = [SM!Frame EXCEPT !.at = "bindings", !.done = d]]
  BY <1>2, <1>3, <1>4 DEF Transitions, SM!Transition
<1>7. transitions'[1].at = "bindings" /\ transitions'[1].done = d
  BY <1>1, <1>6, Mark DEF StateIInv
<1>8. /\ transitions' \in Seq(Transitions)
      /\ \A i \in DOMAIN transitions' :
           transitions'[i].at \in SM!Transition => transitions'[i].of \in Now'
      /\ \A e \in entries : Coming(e) =>
           \/ Coming(e)'
           \/ SM!Frame.of = state /\ Due(SM!Frame, e) /\ ~Due(transitions'[1], e)
  BY <1>1, <1>6, MarkedStep
<1>9. StateTypes'
  BY <1>1, <1>2, <1>4, <1>8 DEF StateIInv, StateTypes
<1>10. NothingElse'
  BY <1>1, <1>2, <1>4, <1>5, <1>8 DEF StateIInv, NothingElse
<1>11. AllComing'
  <2> SUFFICES ASSUME NEW e \in entries, e[2] = state PROVE e \in late \/ Coming(e)' \/ Has(e)'
    BY <1>1 DEF AllComing
  <2>1. Has(e) => Has(e)'
    BY <1>1, <1>2, <1>5 DEF Has
  <2>2. Due(SM!Frame, e) /\ ~Due(transitions'[1], e) => e = g
    BY <1>1, <1>6, <1>7 DEF Due, SM!Transition
  <2>3. QED BY <1>2, <1>8, <2>1, <2>2 DEF StateIInv, AllComing, Has
<1>12. QED BY <1>9, <1>10, <1>11 DEF StateIInv

LEMMA ApplySignalsKeeps ==
  ASSUME SM!ConstantsType, StateIInv, SM!ApplySignals
  PROVE  StateIInv'
<1>1. /\ transitions # <<>> /\ SM!Frame.at \in {"entered", "bindings"}
      /\ SM!Frame.at \in SM!Transition /\ SM!Left("binding") = {}
      /\ sourced' = sourced \cup SM!Of("signal", SM!Frame.of)
      /\ transitions' = [transitions EXCEPT ![1].at = "signals", ![1].done = {}]
      /\ UNCHANGED <<state, entries, value, shown, late, overtaken>>
  BY DEF SM!ApplySignals, SM!At, SM!Transition
<1>2. SM!Frame = transitions[1] /\ 1 \in DOMAIN transitions /\ SM!Frame \in Transitions
  BY <1>1, Innermost DEF StateIInv
<1>3. \A g \in SM!Of("signal", SM!Frame.of) : g \in entries /\ g \in SM!Groups /\ g[2] = SM!Frame.of
  BY EntryType DEF SM!Of, StateIInv, StateTypes
<1>4. SM!Frame.of \in Now /\ Now' = Now
  BY <1>1, <1>2 DEF StateIInv, NothingElse, Now
<1>5. /\ {} \in SUBSET SM!Entry /\ "signals" \in SM!Transition
      /\ transitions' = [transitions EXCEPT ![1] = [SM!Frame EXCEPT !.at = "signals", !.done = {}]]
  BY <1>1, <1>2 DEF Transitions, SM!Transition
<1>6. transitions'[1].at = "signals" /\ transitions'[1].done = {}
  BY <1>1, <1>5, Mark DEF StateIInv
<1>7. /\ transitions' \in Seq(Transitions)
      /\ \A i \in DOMAIN transitions' :
           transitions'[i].at \in SM!Transition => transitions'[i].of \in Now'
      /\ \A e \in entries : Coming(e) =>
           \/ Coming(e)'
           \/ SM!Frame.of = state /\ Due(SM!Frame, e) /\ ~Due(transitions'[1], e)
  BY <1>1, <1>5, MarkedStep
<1>8. StateTypes'
  BY <1>1, <1>3, <1>7 DEF StateIInv, StateTypes
<1>9. NothingElse'
  BY <1>1, <1>3, <1>4, <1>7 DEF StateIInv, NothingElse
<1>10. AllComing'
  <2> SUFFICES ASSUME NEW e \in entries, e[2] = state PROVE e \in late \/ Coming(e)' \/ Has(e)'
    BY <1>1 DEF AllComing
  <2>1. Has(e) => Has(e)'
    BY <1>1, <1>4 DEF Has
  <2>2. ASSUME SM!Frame.of = state, Due(SM!Frame, e), ~Due(transitions'[1], e)
        PROVE  e \in SM!Of("signal", state)
    <3>1. e[1] \in {"binding", "signal"}
      BY <1>1, <1>6, <2>2 DEF Due, SM!Transition
    <3>2. e[1] # "binding"
      BY <1>1, <2>2 DEF Due, SM!Left, SM!Of
    <3>3. QED BY <3>1, <3>2 DEF SM!Of
  <2>3. QED BY <1>1, <1>7, <2>1, <2>2 DEF StateIInv, AllComing, Has
<1>11. QED BY <1>8, <1>9, <1>10 DEF StateIInv

LEMMA ApplyPropertyKeeps ==
  ASSUME SM!ConstantsType, StateIInv, SM!ApplyProperty
  PROVE  StateIInv'
<1>1. /\ transitions # <<>> /\ SM!Frame.at \in {"signals", "properties"}
      /\ SM!Frame.at \in SM!Transition
      /\ UNCHANGED <<state, entries, sourced, shown, late, overtaken>>
  BY DEF SM!ApplyProperty, SM!At, SM!Transition
<1>2. PICK p \in SM!Left("property") :
        /\ value' = [value EXCEPT ![p[3]] = SM!Frame.of]
        /\ transitions' = [transitions EXCEPT ![1].at = "properties", ![1].done = @ \cup {p}]
  BY DEF SM!ApplyProperty
<1>3. SM!Frame = transitions[1] /\ 1 \in DOMAIN transitions /\ SM!Frame \in Transitions
  BY <1>1, Innermost DEF StateIInv
<1>4. /\ p \in entries /\ p \in SM!Entry /\ p[1] = "property" /\ p[2] = SM!Frame.of
      /\ p[3] \in Object /\ p = <<"property", SM!Frame.of, p[3]>>
  BY <1>2, EntryType DEF SM!Left, SM!Of, StateIInv, StateTypes
<1>5. SM!Frame.of \in Now /\ Now' = Now /\ SM!Frame.of \in State \cup {None}
  BY <1>1, <1>3 DEF StateIInv, NothingElse, Now, Transitions
<1> DEFINE d == SM!Frame.done \cup {p}
<1>6. /\ d \in SUBSET SM!Entry /\ "properties" \in SM!Transition
      /\ transitions' =
           [transitions EXCEPT ![1] = [SM!Frame EXCEPT !.at = "properties", !.done = d]]
  BY <1>2, <1>3, <1>4 DEF Transitions, SM!Transition
<1>7. transitions'[1].at = "properties" /\ transitions'[1].done = d
  BY <1>1, <1>6, Mark DEF StateIInv
<1>8. /\ transitions' \in Seq(Transitions)
      /\ \A i \in DOMAIN transitions' :
           transitions'[i].at \in SM!Transition => transitions'[i].of \in Now'
      /\ \A e \in entries : Coming(e) =>
           \/ Coming(e)'
           \/ SM!Frame.of = state /\ Due(SM!Frame, e) /\ ~Due(transitions'[1], e)
  BY <1>1, <1>6, MarkedStep
<1>9. /\ value \in [Object -> State \cup {None}] /\ value' \in [Object -> State \cup {None}]
      /\ value'[p[3]] = SM!Frame.of /\ \A o \in Object : o # p[3] => value'[o] = value[o]
  BY <1>2, <1>4, <1>5 DEF StateIInv, StateTypes
<1>10. StateTypes'
  BY <1>1, <1>8, <1>9 DEF StateIInv, StateTypes
<1>11. NothingElse'
  BY <1>1, <1>5, <1>8 DEF StateIInv, NothingElse
<1>12. AllComing'
  <2> SUFFICES ASSUME NEW e \in entries, e[2] = state PROVE e \in late \/ Coming(e)' \/ Has(e)'
    BY <1>1 DEF AllComing
  <2>1. e[3] \in Object
    BY EntryType DEF StateIInv, StateTypes
  <2>2. ASSUME e[3] = p[3], e[1] = "property" PROVE Has(e)'
    BY <1>1, <1>4, <1>5, <1>9, <2>2 DEF Has
  <2>3. Has(e) => Has(e)'
    BY <1>1, <1>5, <1>9, <2>1, <2>2 DEF Has
  <2>4. Due(SM!Frame, e) /\ ~Due(transitions'[1], e) => e = p
    BY <1>1, <1>6, <1>7 DEF Due, SM!Transition
  <2>5. QED BY <1>4, <1>8, <2>2, <2>3, <2>4 DEF StateIInv, AllComing
<1>13. QED BY <1>10, <1>11, <1>12 DEF StateIInv

(* The styles are the last loop.  What follows is the frame of the handlers *)
(* of notify::state, or nothing.                                            *)
LEMMA AppliedKeeps ==
  ASSUME SM!ConstantsType, StateIInv, SM!Applied
  PROVE  StateIInv'
<1> DEFINE f == [at |-> "notify", of |-> None, done |-> {}]
<1>1. /\ transitions # <<>> /\ SM!Frame.at \in {"signals", "properties"}
      /\ SM!Frame.at \in SM!Transition /\ SM!Left("property") = {}
      /\ shown' = shown \cup {e[3] : e \in SM!Of("style", SM!Frame.of)}
      /\ transitions' = Tail(transitions) \/ transitions' = <<f>> \o Tail(transitions)
      /\ UNCHANGED <<state, entries, sourced, value, late, overtaken>>
  BY DEF SM!Applied, SM!At, SM!Transition
<1>2. f \in Transitions /\ f.at \notin SM!Transition
  BY DEF Transitions, SM!Transition
<1> HIDE DEF f
<1>3. /\ SM!Frame = transitions[1] /\ 1 \in DOMAIN transitions /\ transitions \in Seq(Transitions)
      /\ SM!Frame.of \in Now /\ Now' = Now
  BY <1>1, Innermost DEF StateIInv, NothingElse, Now
<1>4. /\ Tail(transitions) \in Seq(Transitions)
      /\ \A i \in DOMAIN Tail(transitions) :
           i + 1 \in DOMAIN transitions /\ Tail(transitions)[i] = transitions[i + 1]
      /\ \A i \in DOMAIN transitions :
           i # 1 => i - 1 \in DOMAIN Tail(transitions) /\ Tail(transitions)[i - 1] = transitions[i]
  BY <1>1, <1>3, PoppedTransition
<1>5. /\ transitions' \in Seq(Transitions)
      /\ \A i \in DOMAIN transitions' : transitions'[i].at \in SM!Transition =>
           \E j \in DOMAIN transitions : transitions'[i] = transitions[j]
      /\ \A i \in DOMAIN transitions : i # 1 =>
           \E j \in DOMAIN transitions' : transitions'[j] = transitions[i]
  <2>1. CASE transitions' = Tail(transitions)
    BY <1>4, <2>1
  <2>2. CASE transitions' = <<f>> \o Tail(transitions)
    <3>1. /\ transitions' \in Seq(Transitions)
          /\ \A i \in DOMAIN transitions' :
               \/ transitions'[i] = f
               \/ i - 1 \in DOMAIN Tail(transitions) /\ transitions'[i] = Tail(transitions)[i - 1]
          /\ \A i \in DOMAIN Tail(transitions) :
               i + 1 \in DOMAIN transitions' /\ transitions'[i + 1] = Tail(transitions)[i]
      BY <1>2, <1>4, <2>2, PushedTransition
    <3>2. QED BY <1>2, <1>4, <3>1
  <2>3. QED BY <1>1, <2>1, <2>2
<1>6. \A e \in SM!Of("style", SM!Frame.of) :
        e \in entries /\ e[3] \in Object /\ e[2] = SM!Frame.of /\ e[1] = "style"
          /\ e = <<"style", SM!Frame.of, e[3]>>
  BY EntryType DEF SM!Of, StateIInv, StateTypes
<1>7. StateTypes'
  BY <1>1, <1>5, <1>6 DEF StateIInv, StateTypes
<1>8. NothingElse'
  <2>1. \A w \in shown' : \E s \in Now' : <<"style", s, w>> \in entries'
    BY <1>1, <1>3, <1>6 DEF StateIInv, NothingElse
  <2>2. QED BY <1>1, <1>3, <1>5, <2>1 DEF StateIInv, NothingElse
<1>9. AllComing'
  <2> SUFFICES ASSUME NEW e \in entries, e[2] = state PROVE e \in late \/ Coming(e)' \/ Has(e)'
    BY <1>1 DEF AllComing
  <2>1. Has(e) => Has(e)'
    BY <1>1, <1>3 DEF Has
  <2>2. ASSUME Coming(e) PROVE Coming(e)' \/ Has(e)'
    <3>1. PICK i \in DOMAIN transitions : transitions[i].of = state /\ Due(transitions[i], e)
      BY <2>2 DEF Coming
    <3>2. CASE i = 1
      <4>1. e[1] = "style"
        BY <1>1, <1>3, <3>1, <3>2 DEF Due, SM!Transition, SM!Left, SM!Of
      <4>2. e \in SM!Of("style", SM!Frame.of)
        BY <1>3, <3>1, <3>2, <4>1 DEF SM!Of
      <4>3. QED BY <1>1, <4>1, <4>2 DEF Has
    <3>3. CASE i # 1
      BY <1>1, <1>5, <3>1, <3>3 DEF Coming
    <3>4. QED BY <3>2, <3>3
  <2>3. QED BY <2>1, <2>2 DEF StateIInv, AllComing
<1>10. QED BY <1>7, <1>8, <1>9 DEF StateIInv

LEMMA NotifiedKeeps ==
  ASSUME SM!ConstantsType, StateIInv, SM!Notified
  PROVE  StateIInv'
<1>1. /\ transitions # <<>> /\ SM!Frame.at = "notify" /\ transitions' = Tail(transitions)
      /\ UNCHANGED <<state, entries, sourced, value, shown, late, overtaken>>
  BY DEF SM!Notified, SM!At
<1>2. SM!Frame = transitions[1] /\ transitions \in Seq(Transitions) /\ Now' = Now
  BY <1>1, Innermost DEF StateIInv, Now
<1>3. /\ transitions' \in Seq(Transitions)
      /\ \A i \in DOMAIN transitions' :
           i + 1 \in DOMAIN transitions /\ transitions'[i] = transitions[i + 1]
      /\ \A i \in DOMAIN transitions :
           i # 1 => i - 1 \in DOMAIN transitions' /\ transitions'[i - 1] = transitions[i]
  BY <1>1, <1>2, PoppedTransition
<1>4. StateTypes'
  BY <1>1, <1>3 DEF StateIInv, StateTypes
<1>5. NothingElse'
  BY <1>1, <1>2, <1>3 DEF StateIInv, NothingElse
<1>6. AllComing'
  <2> SUFFICES ASSUME NEW e \in entries, e[2] = state PROVE e \in late \/ Coming(e)' \/ Has(e)'
    BY <1>1 DEF AllComing
  <2>1. Has(e) => Has(e)'
    BY <1>1, <1>2 DEF Has
  <2>2. ASSUME Coming(e) PROVE Coming(e)'
    <3>1. PICK i \in DOMAIN transitions : transitions[i].of = state /\ Due(transitions[i], e)
      BY <2>2 DEF Coming
    <3>2. i # 1
      BY <1>1, <1>2, <3>1 DEF Due, SM!Transition
    <3>3. QED BY <1>1, <1>3, <3>1, <3>2 DEF Coming
  <2>3. QED BY <2>1, <2>2 DEF StateIInv, AllComing
<1>7. QED BY <1>4, <1>5, <1>6 DEF StateIInv

-----------------------------------------------------------------------------
(* Loops that go on with tables and arrays that have changed: what was     *)
(* coming still is, or is in force already, or comes too late.             *)
LEMMA Resumed ==
  ASSUME StateIInv, NEW seen \in [DOMAIN transitions -> SUBSET SM!Entry], SM!Resume(seen),
         UNCHANGED <<state, overtaken>>, SM!PassedOver(seen) \subseteq late'
  PROVE  /\ transitions' \in Seq(Transitions)
         /\ \A i \in DOMAIN transitions' :
              transitions'[i].at \in SM!Transition => transitions'[i].of \in Now'
         /\ \A e \in entries : e[2] = state /\ Coming(e) =>
              Coming(e)' \/ e \in late' \/ e \in sourced
<1>1. /\ transitions \in Seq(Transitions) /\ DOMAIN transitions = 1..Len(transitions)
      /\ Len(transitions) \in Nat
      /\ \A i \in DOMAIN transitions : transitions[i] \in Transitions
  BY DEF StateIInv, StateTypes
<1>2. transitions' = [i \in DOMAIN transitions |-> [transitions[i] EXCEPT !.done = seen[i]]]
  BY DEF SM!Resume
<1>3. \A i \in DOMAIN transitions :
        LET f == [transitions[i] EXCEPT !.done = seen[i]] IN
        f \in Transitions /\ f.at = transitions[i].at /\ f.of = transitions[i].of
          /\ f.done = seen[i]
  BY <1>1 DEF Transitions
<1>4. /\ DOMAIN transitions' = DOMAIN transitions
      /\ \A i \in DOMAIN transitions :
           /\ transitions'[i] \in Transitions
           /\ transitions'[i].at = transitions[i].at /\ transitions'[i].of = transitions[i].of
           /\ transitions'[i].done = seen[i]
  BY <1>2, <1>3
<1>5. transitions' \in Seq(Transitions)
  <2>1. transitions' \in [1..Len(transitions) -> Transitions]
    BY <1>1, <1>2, <1>3
  <2>2. QED BY <1>1, <2>1
<1>6. \A i \in DOMAIN transitions' :
        transitions'[i].at \in SM!Transition => transitions'[i].of \in Now'
  BY <1>4 DEF StateIInv, NothingElse, Now
<1>7. ASSUME NEW e \in entries, e[2] = state, Coming(e)
      PROVE  Coming(e)' \/ e \in late' \/ e \in sourced
  <2>1. PICK i \in DOMAIN transitions : transitions[i].of = state /\ Due(transitions[i], e)
    BY <1>7 DEF Coming
  <2>2. CASE e \in seen[i] \ transitions[i].done
    BY <1>7, <2>1, <2>2 DEF SM!PassedOver
  <2>3. CASE e \notin seen[i] \ transitions[i].done
    BY <1>4, <2>1, <2>3 DEF Coming, Due
  <2>4. QED BY <2>2, <2>3
<1>8. QED BY <1>5, <1>6, <1>7

(* What is registered in the middle of transitions takes effect at once,   *)
(* or comes, or is late; groups passed over when a table grows are late.   *)
LEMMA AddKeeps ==
  ASSUME SM!ConstantsType, StateIInv, NEW e \in SM!Entry, SM!Add(e)
  PROVE  StateIInv'
<1>1. /\ entries' = entries \cup {e}
      /\ value' = IF e[1] = "property" /\ e[2] = state THEN [value EXCEPT ![e[3]] = state]
            ELSE value
      /\ shown' = IF e[1] = "style" /\ e[2] = state THEN shown \cup {e[3]} ELSE shown
      /\ UNCHANGED <<state, sourced, overtaken>>
  BY DEF SM!Add
<1>2. PICK seen \in [DOMAIN transitions -> SUBSET (entries \cup {e})] :
        /\ \A i \in DOMAIN transitions : seen[i] \in SM!SeenAdded(transitions[i], e)
        /\ SM!Resume(seen)
        /\ late' = late \cup SM!PassedOver(seen)
                        \cup (IF e \in SM!Groups /\ e[2] = state THEN {e} ELSE {})
  BY DEF SM!Add
<1>3. /\ e[3] \in Object /\ e[2] \in State /\ e = <<e[1], e[2], e[3]>>
      /\ e[1] \in {"binding", "signal", "property", "style"}
      /\ e \in SM!Groups <=> e[1] \in {"binding", "signal"}
  BY EntryType
<1>4. seen \in [DOMAIN transitions -> SUBSET SM!Entry]
  BY DEF StateIInv, StateTypes
<1>5. /\ transitions' \in Seq(Transitions)
      /\ \A i \in DOMAIN transitions' :
           transitions'[i].at \in SM!Transition => transitions'[i].of \in Now'
      /\ \A d \in entries : d[2] = state /\ Coming(d) => Coming(d)' \/ d \in late' \/ d \in sourced
  BY <1>1, <1>2, <1>4, Resumed
<1>6. Now' = Now /\ state \in Now
  BY <1>1 DEF Now
<1>7. SM!PassedOver(seen) \subseteq entries
  BY DEF SM!PassedOver
<1>8. /\ value' \in [Object -> State \cup {None}] /\ shown' \subseteq Object
      /\ \A o \in Object : value'[o] = IF e[1] = "property" /\ e[2] = state /\ o = e[3]
                                       THEN state ELSE value[o]
  BY <1>1, <1>3 DEF StateIInv, StateTypes
<1>9. StateTypes'
  BY <1>1, <1>2, <1>5, <1>7, <1>8 DEF StateIInv, StateTypes
<1>10. NothingElse'
  <2>1. \A w \in shown' : \E s \in Now' : <<"style", s, w>> \in entries'
    BY <1>1, <1>3, <1>6 DEF StateIInv, NothingElse
  <2>2. ASSUME NEW d \in SM!PassedOver(seen) PROVE d[1] # "style"
    <3>1. PICK i \in DOMAIN transitions : d \in seen[i] \ transitions[i].done
      BY DEF SM!PassedOver
    <3>2. d \in entries /\ d # e
      BY <1>7 DEF SM!Add
    <3>3. d \in SM!Of("binding", transitions[i].of)
      BY <1>2, <3>1, <3>2 DEF SM!SeenAdded
    <3>4. QED BY <3>3 DEF SM!Of
  <2>3. \A d \in late' : d[1] # "style"
    BY <1>2, <1>3, <2>2 DEF StateIInv, NothingElse
  <2>4. QED BY <1>1, <1>5, <1>6, <2>1, <2>3 DEF StateIInv, NothingElse
<1>11. AllComing'
  <2> SUFFICES ASSUME NEW d \in entries', d[2] = state
               PROVE  d \in late' \/ Coming(d)' \/ Has(d)'
    BY <1>1 DEF AllComing
  <2>1. CASE d = e
    <3>1. CASE e[1] \in {"binding", "signal"}
      BY <1>2, <1>3, <2>1, <3>1
    <3>2. CASE e[1] = "property"
      BY <1>1, <1>3, <1>6, <1>8, <2>1, <3>2 DEF Has
    <3>3. CASE e[1] = "style"
      BY <1>1, <2>1, <3>3 DEF Has
    <3>4. QED BY <1>3, <3>1, <3>2, <3>3
  <2>2. CASE d # e
    <3>1. d \in entries /\ d[3] \in Object
      BY <1>1, <2>2, EntryType DEF StateIInv, StateTypes
    <3>2. Has(d) => Has(d)'
      <4>1. ASSUME d[1] = "property", NEW s \in Now, value[d[3]] = s,
                   <<"property", s, d[3]>> \in entries
            PROVE  Has(d)'
        <5>1. CASE value'[d[3]] = s
          BY <1>1, <1>6, <4>1, <5>1 DEF Has
        <5>2. CASE value'[d[3]] # s
          <6>1. e[1] = "property" /\ e[2] = state /\ d[3] = e[3] /\ value'[d[3]] = state
            BY <1>8, <3>1, <4>1, <5>2
          <6>2. QED BY <1>1, <1>3, <1>6, <4>1, <6>1 DEF Has
        <5>3. QED BY <5>1, <5>2
      <4>2. QED BY <1>1, <4>1 DEF Has
    <3>3. d \in sourced => Has(d)'
      BY <1>1 DEF Has
    <3>4. QED BY <1>2, <1>5, <2>2, <3>1, <3>2, <3>3 DEF StateIInv, AllComing
  <2>3. QED BY <2>1, <2>2
<1>12. QED BY <1>9, <1>10, <1>11 DEF StateIInv

(* What dies takes its entries with it, and nothing of the others. *)
LEMMA ObjectDiesKeeps ==
  ASSUME SM!ConstantsType, StateIInv, NEW o \in Object, SM!ObjectDies(o)
  PROVE  StateIInv'
<1>1. /\ entries' = entries \ SM!Lost(o) /\ sourced' = sourced \ SM!Lost(o)
      /\ value' = [value EXCEPT ![o] = None]
      /\ shown' = shown \ {o}
      /\ UNCHANGED <<state, overtaken>>
  BY DEF SM!ObjectDies
<1>2. PICK seen \in [DOMAIN transitions -> SUBSET (entries \ SM!Lost(o))] :
        /\ \A i \in DOMAIN transitions : seen[i] \in SM!SeenLost(transitions[i], o)
        /\ SM!Resume(seen)
        /\ late' = (late \ SM!Lost(o)) \cup SM!PassedOver(seen)
  BY DEF SM!ObjectDies
<1>3. seen \in [DOMAIN transitions -> SUBSET SM!Entry]
  BY DEF StateIInv, StateTypes
<1>4. /\ transitions' \in Seq(Transitions)
      /\ \A i \in DOMAIN transitions' :
           transitions'[i].at \in SM!Transition => transitions'[i].of \in Now'
      /\ \A d \in entries : d[2] = state /\ Coming(d) => Coming(d)' \/ d \in late' \/ d \in sourced
  BY <1>1, <1>2, <1>3, Resumed
<1>5. Now' = Now
  BY <1>1 DEF Now
<1>6. SM!PassedOver(seen) \subseteq entries
  BY DEF SM!PassedOver
<1>7. \A p \in Object : p # o => value'[p] = value[p]
  BY <1>1 DEF StateIInv, StateTypes
<1>8. StateTypes'
  BY <1>1, <1>2, <1>4, <1>6 DEF StateIInv, StateTypes
<1>9. \A d \in entries : d \notin entries' <=> d[3] = o
  BY <1>1 DEF SM!Lost
<1>10. NothingElse'
  <2>1. ASSUME NEW w \in shown' PROVE \E s \in Now' : <<"style", s, w>> \in entries'
    <3>1. w \in shown /\ w # o
      BY <1>1
    <3>2. PICK s \in Now : <<"style", s, w>> \in entries
      BY <3>1 DEF StateIInv, NothingElse
    <3>3. <<"style", s, w>>[3] = w
      OBVIOUS
    <3>4. QED BY <1>5, <1>9, <3>1, <3>2, <3>3
  <2>2. ASSUME NEW d \in SM!PassedOver(seen) PROVE d[1] # "style"
    <3>1. PICK i \in DOMAIN transitions : d \in seen[i] \ transitions[i].done
      BY DEF SM!PassedOver
    <3>2. seen[i] \in SM!SeenLost(transitions[i], o)
      BY <1>2
    <3>3. d \in SM!Of("binding", transitions[i].of) \/ d \in SM!Of("property", transitions[i].of)
      BY <3>1, <3>2 DEF SM!SeenLost
    <3>4. QED BY <3>3 DEF SM!Of
  <2>3. \A d \in late' : d[1] # "style"
    BY <1>2, <2>2 DEF StateIInv, NothingElse
  <2>4. \A g \in sourced' : g \in entries' /\ g[2] \in Now'
    BY <1>1, <1>5 DEF StateIInv, NothingElse
  <2>5. QED BY <1>4, <2>1, <2>3, <2>4 DEF NothingElse
<1>11. AllComing'
  <2> SUFFICES ASSUME NEW d \in entries', d[2] = state
               PROVE  d \in late' \/ Coming(d)' \/ Has(d)'
    BY <1>1 DEF AllComing
  <2>1. d \in entries /\ d[3] # o /\ d[3] \in Object /\ d \notin SM!Lost(o)
    BY <1>1, EntryType DEF StateIInv, StateTypes, SM!Lost
  <2>2. Has(d) => Has(d)'
    <3>1. ASSUME NEW s \in Now, <<"property", s, d[3]>> \in entries
          PROVE  <<"property", s, d[3]>> \in entries'
      <4>1. <<"property", s, d[3]>>[3] = d[3]
        OBVIOUS
      <4>2. QED BY <1>9, <2>1, <3>1, <4>1
    <3>2. QED BY <1>1, <1>5, <1>7, <2>1, <3>1 DEF Has
  <2>3. d \in sourced => Has(d)'
    BY <1>1, <2>1 DEF Has
  <2>4. QED BY <1>2, <1>4, <2>1, <2>2, <2>3 DEF StateIInv, AllComing
<1>12. QED BY <1>8, <1>10, <1>11 DEF StateIInv

LEMMA FinalizeKeeps ==
  ASSUME SM!ConstantsType, StateIInv, SM!Finalize
  PROVE  StateIInv'
<1>1. /\ transitions = <<>> /\ state' = None /\ entries' = {} /\ sourced' = {} /\ late' = {}
      /\ overtaken' = {}
      /\ value' = [o \in Object |-> None] /\ shown' = {} /\ UNCHANGED transitions
  BY DEF SM!Finalize
<1>2. StateTypes'
  BY <1>1 DEF StateIInv, StateTypes
<1>3. NothingElse' /\ AllComing'
  BY <1>1 DEF NothingElse, AllComing
<1>4. QED BY <1>2, <1>3 DEF StateIInv

LEMMA StateStep == SM!ConstantsType /\ StateIInv /\ [SM!Next]_(SM!vars) => StateIInv'
<1> SUFFICES ASSUME SM!ConstantsType, StateIInv, [SM!Next]_(SM!vars) PROVE StateIInv'
  OBVIOUS
<1>1. CASE \E s \in State \cup {None} : SM!SetState(s)
  BY <1>1, SetStateKeeps
<1>2. CASE SM!ApplyBinding \/ SM!ApplySignals \/ SM!ApplyProperty
  BY <1>2, ApplyBindingKeeps, ApplySignalsKeeps, ApplyPropertyKeeps
<1>3. CASE SM!Applied \/ SM!Notified
  BY <1>3, AppliedKeeps, NotifiedKeeps
<1>4. CASE \E e \in SM!Entry : SM!Add(e)
  BY <1>4, AddKeeps
<1>5. CASE \E o \in Object : SM!ObjectDies(o)
  BY <1>5, ObjectDiesKeeps
<1>6. CASE SM!Finalize
  BY <1>6, FinalizeKeeps
<1>7. CASE UNCHANGED SM!vars
  BY <1>7 DEF SM!vars, StateIInv, StateTypes, NothingElse, AllComing, Coming, Has, Now
<1>8. QED BY <1>1, <1>2, <1>3, <1>4, <1>5, <1>6, <1>7 DEF SM!Next

-----------------------------------------------------------------------------
(* Every variable keeps its type, the frames of the transitions included.  *)
THEOREM StatesTypeCorrect == ASSUME SM!ConstantsType PROVE SM!Spec => []SM!TypeOK
<1>1. SM!Init => StateIInv
  BY StateInit
<1>2. StateIInv /\ [SM!Next]_(SM!vars) => StateIInv'
  BY StateStep
<1>3. StateIInv => SM!TypeOK
  BY DEF StateIInv, StateTypes, Transitions, SM!TypeOK
<1>4. QED BY <1>1, <1>2, <1>3, PTL DEF SM!Spec

(* Whenever no transition is running, and for every handler of             *)
(* notify::state, what the current state asks for is in force, but for     *)
(* what came too late, and nothing else is but what overtaken states left  *)
(* behind, whatever setters register, enter and destroy meanwhile.         *)
THEOREM StateInForce == ASSUME SM!ConstantsType PROVE SM!Spec => []SM!InForce
<1>1. SM!Init => StateIInv
  BY StateInit
<1>2. StateIInv /\ [SM!Next]_(SM!vars) => StateIInv'
  BY StateStep
<1>3. StateIInv => SM!InForce
  <2> SUFFICES ASSUME StateIInv, ~SM!Applying PROVE SM!InForce
    BY DEF SM!InForce
  <2>1. \A e \in entries : e[2] = state => e \in late \/ Has(e)
    BY DEF StateIInv, AllComing, Coming, Due, SM!Applying, SM!Transition
  <2>2. \A e \in entries : e \in SM!Groups => e[1] # "property" /\ e[1] # "style"
    BY EntryType DEF StateIInv, StateTypes
  <2>3. \A e \in entries : e \in sourced => e[1] # "property" /\ e[1] # "style"
    BY <2>2 DEF StateIInv, StateTypes
  <2>4. {g \in entries \cap SM!Groups : g[2] = state} \ late \subseteq sourced
    BY <2>1, <2>2 DEF Has
  <2>5. \A e \in SM!Of("property", state) \ late :
          value[e[3]] \in {s \in Now : <<"property", s, e[3]>> \in entries}
    BY <2>1, <2>3 DEF Has, SM!Of
  <2>6. \A e \in SM!Of("style", state) : e[3] \in shown
    BY <2>1, <2>3 DEF Has, SM!Of, StateIInv, NothingElse
  <2>7. QED BY <2>4, <2>5, <2>6 DEF SM!InForce, Now, StateIInv, NothingElse
<1>4. QED BY <1>1, <1>2, <1>3, PTL DEF SM!Spec
=============================================================================

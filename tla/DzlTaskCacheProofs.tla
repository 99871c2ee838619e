------------------------- MODULE DzlTaskCacheProofs -------------------------
(***************************************************************************)
(* Proofs about DzlTaskCache for any number of keys, requests and          *)
(* cancellables and any time to live: no request is forgotten, none is     *)
(* answered twice, the heap and the table of items agree and the eviction  *)
(* source is armed for the earliest of them.                               *)
(***************************************************************************)
EXTENDS DzlTaskCache, WellFoundedInduction, TLAPS

(* The two loops user code may run inside of are never entered together,   *)
(* and what cancel_in_idle is about to remove has been answered.           *)
OneLoop ==
  /\ answer = "none" => answering = {}
  /\ removing # {} => answer = "none"
  /\ \A t \in removing : status[t] = "answered" /\ \A u \in removing : u = t

Waiting == TypeOK /\ OneLoop /\ NobodyForgotten

-----------------------------------------------------------------------------
(* Types *)

LEMMA ItemType == \A k \in Key, at \in Nat : Item(k, at) \in Items
  BY DEF Item, Items

(* The earliest item exists: some evict_at has none below it. *)
LEMMA EarliestExists ==
  ASSUME NEW heap, heap \subseteq Items, heap # {}
  PROVE  /\ Earliest(heap) \in heap
         /\ \A j \in heap : Earliest(heap).evict_at <= j.evict_at
<1> DEFINE times == {i.evict_at : i \in heap}
           lt == OpToRel(<, Nat)
<1>1. times \subseteq Nat /\ times # {}
  BY DEF Items
<1>2. IsWellFoundedOn(lt, Nat)
  BY NatLessThanWellFounded DEF OpToRel
<1>3. \A m, n \in Nat : n < m => <<n, m>> \in lt
  BY DEF OpToRel
<1>4. \E m \in times : \A n \in times : ~(<<n, m>> \in lt)
  <2> HIDE DEF times, lt
  <2> QED BY <1>1, <1>2, WFMin
<1>5. \E m \in times : \A n \in times : m <= n
  <2> HIDE DEF times, lt
  <2>1. PICK m \in times : \A n \in times : ~(<<n, m>> \in lt)
    BY <1>4
  <2>2. ASSUME NEW n \in times PROVE m <= n
    <3>1. m \in Nat /\ n \in Nat
      BY <1>1
    <3>2. ~(n < m)
      BY <1>3, <2>1, <3>1
    <3>3. QED BY <3>1, <3>2
  <2>3. QED BY <2>1, <2>2
<1>6. \E i \in heap : \A j \in heap : i.evict_at <= j.evict_at
  BY <1>5
<1>7. QED BY <1>6, Zenon DEF Earliest

LEMMA RearmType ==
  ASSUME NEW heap, heap \subseteq Items
  PROVE  /\ Rearm(heap) \in Nat \cup {-1}
         /\ TimeToLive > 0 /\ heap = {} => Rearm(heap) = -1
         /\ TimeToLive > 0 => \A i \in heap : Rearm(heap) # -1 /\ Rearm(heap) <= i.evict_at
<1>1. CASE heap = {}
  BY <1>1 DEF Rearm
<1>2. CASE heap # {}
  <2>1. Earliest(heap).evict_at \in Nat
    BY <1>2, EarliestExists DEF Items
  <2>2. QED BY <1>2, <2>1, EarliestExists, TimeType DEF Rearm
<1>3. QED BY <1>1, <1>2

(* Every action changes the tables in one of these ways. *)
LEMMA PopulateType ==
  ASSUME TypeOK, NEW k \in Key, Populate(k)
  PROVE  /\ cache' \in [Key -> Nat \cup {Absent}]
         /\ evict_heap' \subseteq Items
         /\ ready_time' \in Nat \cup {-1}
<1>1. cache' \in [Key -> Nat \cup {Absent}] /\ evict_heap' \subseteq Items
  BY TimeType, ItemType DEF TypeOK, Populate
<1>2. ready_time' = Rearm(evict_heap')
  BY DEF Populate
<1>3. QED BY <1>1, <1>2, RearmType

LEMMA TypeInductive ==
  ASSUME TypeOK, [Next]_vars
  PROVE  TypeOK'
<1> USE DEF vars, tables, queues, loops, tasks, cancel
<1>1. ASSUME NEW t \in Task, NEW k \in Key, NEW c \in Cancellable \cup {NoCancellable},
             GetCached(t, k, c)
      PROVE  TypeOK'
  BY <1>1 DEF TypeOK, GetCached, MakeTask, Results
<1>2. ASSUME NEW t \in Task, NEW k \in Key, NEW c \in Cancellable \cup {NoCancellable},
             NEW force \in BOOLEAN, GetQueued(t, k, force, c)
      PROVE  TypeOK'
  <2>1. idle' \subseteq Task /\ connected' \subseteq Task /\ failed' \in BOOLEAN
    BY <1>2 DEF TypeOK, GetQueued, Connect
  <2>2. queued' \in [Key -> SUBSET Task] /\ has_queue' \subseteq Key
    BY <1>2 DEF TypeOK, GetQueued
  <2>3. in_flight' \in [Key -> {"none", "running", "value", "error"}]
    BY <1>2 DEF TypeOK, GetQueued
  <2>4. QED BY <1>2, <2>1, <2>2, <2>3 DEF TypeOK, GetQueued, MakeTask, Results
<1>3. ASSUME NEW k \in Key, NEW what \in {"value", "error"}, FetchReturns(k, what)
      PROVE  TypeOK'
  BY <1>3 DEF TypeOK, FetchReturns
<1>4. ASSUME NEW k \in Key, FetchDone(k) PROVE TypeOK'
  <2>1. /\ cache' \in [Key -> Nat \cup {Absent}]
        /\ evict_heap' \subseteq Items
        /\ ready_time' \in Nat \cup {-1}
    BY <1>4, PopulateType DEF TypeOK, FetchDone
  <2>2. QED BY <1>4, <2>1 DEF TypeOK, FetchDone, Propagated, Results
<1>5. ASSUME NEW k \in Key, Evict(k) PROVE TypeOK'
  <2>1. cache' \in [Key -> Nat \cup {Absent}] /\ evict_heap' \subseteq Items
    BY <1>5 DEF TypeOK, Evict, Forgetting
  <2>2. ready_time' \in Nat \cup {-1}
    BY <1>5, <2>1, RearmType DEF Evict
  <2>3. QED BY <1>5, <2>1, <2>2 DEF TypeOK, Evict
<1>6. ASSUME NEW t \in Task, AnswerNext(t) PROVE TypeOK'
  BY <1>6 DEF TypeOK, AnswerNext
<1>7. ASSUME NEW t \in Task, Finalize(t) PROVE TypeOK'
  BY <1>7 DEF TypeOK, Finalize
<1>8. ASSUME NEW t \in Task, CancelInIdle(t) PROVE TypeOK'
  BY <1>8 DEF TypeOK, CancelInIdle, GiveUp, Results
<1>9. ASSUME NEW t \in Task, CancelRemoves(t) PROVE TypeOK'
  BY <1>9 DEF TypeOK, CancelRemoves, GiveUp
<1>10. ASSUME NEW c \in Cancellable, Cancel(c) PROVE TypeOK'
  BY <1>10 DEF TypeOK, Cancel
<1>11. ASSUME NEW c \in Cancellable, NewCancellable(c) PROVE TypeOK'
  BY <1>11 DEF TypeOK, NewCancellable
<1>12. CASE AnsweringEnds
  BY <1>12 DEF TypeOK, AnsweringEnds
<1>13. CASE EvictAll
  BY <1>13, RearmType DEF TypeOK, EvictAll
<1>14. CASE DoEviction
  <2>1. cache' \in [Key -> Nat \cup {Absent}] /\ evict_heap' \subseteq Items
    BY <1>14 DEF TypeOK, DoEviction
  <2>2. ready_time' \in Nat \cup {-1}
    BY <1>14, <2>1, RearmType DEF DoEviction
  <2>3. QED BY <1>14, <2>1, <2>2 DEF TypeOK, DoEviction
<1>15. CASE Tick
  BY <1>15 DEF TypeOK, Tick
<1>16. CASE Dispose
  BY <1>16 DEF TypeOK, Dispose
<1>17. CASE UNCHANGED vars
  BY <1>17 DEF TypeOK
<1>18. QED
  BY <1>1, <1>2, <1>3, <1>4, <1>5, <1>6, <1>7, <1>8, <1>9, <1>10, <1>11, <1>12,
     <1>13, <1>14, <1>15, <1>16, <1>17 DEF Next

-----------------------------------------------------------------------------
(* Requests *)

(* What a step that leaves the queues, the loops and the tasks alone, or   *)
(* only completes them, keeps.                                             *)
LEMMA UnmovedKept ==
  ASSUME Waiting, UNCHANGED <<queued, has_queue, loops, status, key>>,
         \A k \in Key : in_flight[k] # "none" => in_flight'[k] # "none"
  PROVE  OneLoop' /\ NobodyForgotten'
<1>1. OneLoop'
  BY DEF Waiting, OneLoop, loops
<1>2. ASSUME NEW t \in Task, status'[t] = "waiting" PROVE Waits(t)'
  BY <1>2 DEF Waiting, NobodyForgotten, Waits, TypeOK, loops
<1>3. QED BY <1>1, <1>2 DEF Waiting, NobodyForgotten, loops

LEMMA WaitingInductive ==
  ASSUME Waiting, [Next]_vars
  PROVE  OneLoop' /\ NobodyForgotten'
<1>0. /\ \A t \in Task : key[t] \in Key
      /\ \A t \in Task : status[t] = "waiting" => Waits(t)
      /\ \A k \in Key : queued[k] \subseteq Task
      /\ answering \subseteq Task /\ removing \subseteq Task
  BY DEF Waiting, TypeOK, NobodyForgotten
<1>1. ASSUME NEW t \in Task, NEW k \in Key, NEW c \in Cancellable \cup {NoCancellable},
             GetCached(t, k, c)
      PROVE  OneLoop' /\ NobodyForgotten'
  <2>1. /\ status[t] = "free"
        /\ status' = [status EXCEPT ![t] = "answered"]
        /\ key' = [key EXCEPT ![t] = k]
        /\ UNCHANGED <<queued, has_queue, in_flight, answering, answer, removing>>
    BY <1>1 DEF GetCached, MakeTask, queues, loops
  <2>2. t \notin answering /\ t \notin removing /\ \A j \in Key : t \notin queued[j]
    BY <2>1 DEF Waiting, NobodyForgotten, OneLoop
  <2>3. QED BY <1>0, <2>1, <2>2 DEF Waiting, TypeOK, NobodyForgotten, OneLoop, Waits
<1>2. ASSUME NEW t \in Task, NEW k \in Key, NEW c \in Cancellable \cup {NoCancellable},
             NEW force \in BOOLEAN, GetQueued(t, k, force, c)
      PROVE  OneLoop' /\ NobodyForgotten'
  <2>1. /\ status[t] = "free"
        /\ status' = [status EXCEPT ![t] = "waiting"]
        /\ key' = [key EXCEPT ![t] = k]
        /\ queued' = [queued EXCEPT ![k] = @ \cup {t}]
        /\ has_queue' = has_queue \cup {k}
        /\ in_flight' = [in_flight EXCEPT ![k] = IF @ = "none" THEN "running" ELSE @]
        /\ UNCHANGED <<answering, answer, removing>>
    BY <1>2 DEF GetQueued, MakeTask, loops
  <2>2. t \notin answering /\ t \notin removing /\ \A j \in Key : t \notin queued[j]
    BY <2>1 DEF Waiting, NobodyForgotten, OneLoop
  <2>3. OneLoop'
    BY <2>1, <2>2, <1>0 DEF Waiting, TypeOK, OneLoop
  <2>4. ASSUME NEW u \in Task, status'[u] = "waiting" PROVE Waits(u)'
    <3>1. CASE u = t
      BY <3>1, <2>1, <2>2 DEF Waiting, TypeOK, Waits
    <3>2. CASE u # t
      <4>1. Waits(u) /\ key'[u] = key[u] /\ key[u] \in Key
        BY <1>0, <2>1, <2>4, <3>2 DEF Waiting, TypeOK
      <4>2. in_flight[key[u]] # "none" => in_flight'[key[u]] # "none"
        BY <2>1, <4>1 DEF Waiting, TypeOK
      <4>3. u \in queued'[key[u]] <=> u \in queued[key[u]]
        BY <2>1, <3>2, <4>1 DEF Waiting, TypeOK
      <4>4. QED BY <2>1, <4>1, <4>2, <4>3 DEF Waits
    <3>3. QED BY <3>1, <3>2
  <2>5. ASSUME NEW j \in Key, NEW u \in queued'[j]
        PROVE  key'[u] = j /\ j \in has_queue' /\ (status'[u] = "waiting" \/ u \in removing')
    <3>1. u = t \/ u \in queued[j]
      BY <2>1 DEF Waiting, TypeOK
    <3>2. u = t => j = k
      BY <2>1, <2>2, <2>5 DEF Waiting, TypeOK
    <3>3. CASE u = t
      BY <2>1, <3>2, <3>3 DEF Waiting, TypeOK
    <3>4. CASE u # t /\ u \in queued[j]
      <4>1. key[u] = j /\ j \in has_queue /\ (status[u] = "waiting" \/ u \in removing) /\ u \in Task
        BY <3>4, <1>0 DEF Waiting, NobodyForgotten
      <4>2. QED BY <2>1, <3>4, <4>1 DEF Waiting, TypeOK
    <3>5. QED BY <3>1, <3>3, <3>4
  <2>6. \A u \in answering' : status'[u] = "waiting"
    BY <2>1, <2>2, <1>0 DEF Waiting, TypeOK, NobodyForgotten
  <2>7. QED BY <2>3, <2>4, <2>5, <2>6 DEF NobodyForgotten
<1>3. ASSUME NEW k \in Key, NEW what \in {"value", "error"}, FetchReturns(k, what)
      PROVE  OneLoop' /\ NobodyForgotten'
  <2>1. \A j \in Key : in_flight[j] # "none" => in_flight'[j] # "none"
    BY <1>3 DEF FetchReturns, Waiting, TypeOK
  <2>2. QED BY <1>3, <2>1, UnmovedKept DEF FetchReturns, tasks
<1>4. ASSUME NEW k \in Key, FetchDone(k) PROVE OneLoop' /\ NobodyForgotten'
  <2>1. /\ answer = "none" /\ removing = {} /\ answering = {}
        /\ in_flight' = [in_flight EXCEPT ![k] = "none"]
        /\ queued' = [queued EXCEPT ![k] = {}]
        /\ has_queue' = has_queue \ {k}
        /\ answering' = queued[k] /\ answer' # "none"
        /\ UNCHANGED <<status, key, removing>>
    BY <1>4 DEF FetchDone, LoopFree, Propagated, tasks, Waiting, OneLoop
  <2>2. OneLoop'
    BY <2>1 DEF OneLoop
  <2>3. \A j \in Key : \A u \in queued[j] : key[u] = j /\ j \in has_queue /\ status[u] = "waiting"
    BY <2>1 DEF Waiting, NobodyForgotten
  <2>4. ASSUME NEW u \in Task, status'[u] = "waiting" PROVE Waits(u)'
    <3>1. u \in queued[key[u]] /\ in_flight[key[u]] # "none" /\ key[u] \in Key
      BY <1>0, <2>1, <2>4 DEF Waits
    <3>2. CASE key[u] = k
      BY <3>1, <3>2, <2>1 DEF Waits, Waiting, TypeOK
    <3>3. CASE key[u] # k
      <4>1. u \notin queued[k]
        BY <3>3, <2>3
      <4>2. QED BY <3>1, <3>3, <4>1, <2>1 DEF Waits, Waiting, TypeOK
    <3>4. QED BY <3>2, <3>3
  <2>5. QED BY <2>1, <2>2, <2>3, <2>4 DEF NobodyForgotten, Waiting, TypeOK
<1>5. ASSUME NEW k \in Key, Evict(k) PROVE OneLoop' /\ NobodyForgotten'
  BY <1>5, UnmovedKept DEF Evict, queues, tasks
<1>6. ASSUME NEW t \in Task, AnswerNext(t) PROVE OneLoop' /\ NobodyForgotten'
  <2>1. /\ t \in answering /\ status[t] = "waiting" /\ t \notin queued[key[t]]
        /\ answering' = answering \ {t}
        /\ status' = [status EXCEPT ![t] = "answered"]
        /\ UNCHANGED <<queued, has_queue, in_flight, answer, removing, key>>
    BY <1>6, <1>0 DEF AnswerNext, queues, Waiting, NobodyForgotten, Waits
  <2>2. removing = {}
    BY <2>1 DEF Waiting, OneLoop
  <2>3. OneLoop'
    BY <2>1, <2>2 DEF Waiting, OneLoop
  <2>4. ASSUME NEW u \in Task, status'[u] = "waiting" PROVE Waits(u)'
    <3>1. u # t /\ status[u] = "waiting"
      BY <2>1, <2>4 DEF Waiting, TypeOK
    <3>2. QED BY <1>0, <2>1, <3>1 DEF Waits
  <2>5. \A j \in Key : t \notin queued[j]
    BY <2>1 DEF Waiting, NobodyForgotten
  <2>6. QED BY <1>0, <2>1, <2>3, <2>4, <2>5 DEF NobodyForgotten, Waiting, TypeOK
<1>7. ASSUME NEW t \in Task, Finalize(t) PROVE OneLoop' /\ NobodyForgotten'
  <2>1. /\ status[t] = "answered" /\ removing = {}
        /\ status' = [status EXCEPT ![t] = "free"]
        /\ UNCHANGED <<queued, has_queue, in_flight, answering, answer, removing, key>>
    BY <1>7 DEF Finalize, LoopFree, queues, loops
  <2>2. OneLoop'
    BY <2>1 DEF Waiting, OneLoop
  <2>3. ASSUME NEW u \in Task, status'[u] = "waiting" PROVE Waits(u)'
    <3>1. status[u] = "waiting"
      BY <2>1, <2>3 DEF Waiting, TypeOK
    <3>2. QED BY <1>0, <2>1, <3>1 DEF Waits
  <2>4. t \notin answering /\ \A j \in Key : t \notin queued[j]
    BY <2>1 DEF Waiting, NobodyForgotten
  <2>5. QED BY <1>0, <2>1, <2>2, <2>3, <2>4 DEF NobodyForgotten, Waiting, TypeOK
<1>8. ASSUME NEW t \in Task, CancelInIdle(t) PROVE OneLoop' /\ NobodyForgotten'
  <2>1. CASE t \in queued[key[t]]
    <3>1. /\ answer = "none" /\ answering = {} /\ removing = {}
          /\ status' = [status EXCEPT ![t] = "answered"] /\ removing' = {t}
          /\ UNCHANGED <<queued, has_queue, in_flight, answering, answer, key>>
      BY <1>8, <2>1 DEF CancelInIdle, LoopFree, Waiting, OneLoop
    <3>2. OneLoop'
      BY <3>1 DEF Waiting, TypeOK, OneLoop
    <3>3. ASSUME NEW u \in Task, status'[u] = "waiting" PROVE Waits(u)'
      <4>1. status[u] = "waiting"
        BY <3>1, <3>3 DEF Waiting, TypeOK
      <4>2. QED BY <1>0, <3>1, <4>1 DEF Waits
    <3>4. QED BY <1>0, <3>1, <3>2, <3>3 DEF NobodyForgotten, Waiting, TypeOK
  <2>2. CASE t \notin queued[key[t]]
    <3>1. UNCHANGED <<queued, has_queue, in_flight, loops, status, key>>
      BY <1>8, <2>2 DEF CancelInIdle, loops
    <3>2. QED BY <3>1, UnmovedKept
  <2>3. QED BY <2>1, <2>2
<1>9. ASSUME NEW t \in Task, CancelRemoves(t) PROVE OneLoop' /\ NobodyForgotten'
  <2>1. /\ t \in removing /\ status[t] = "answered" /\ removing = {t}
        /\ removing' = {} /\ queued' = [queued EXCEPT ![key[t]] = @ \ {t}]
        /\ UNCHANGED <<has_queue, in_flight, answering, answer, status, key>>
    BY <1>9 DEF CancelRemoves, tasks, Waiting, OneLoop
  <2>2. OneLoop'
    BY <2>1 DEF Waiting, OneLoop
  <2>3. ASSUME NEW u \in Task, status'[u] = "waiting" PROVE Waits(u)'
    <3>1. status[u] = "waiting" /\ u # t
      BY <2>1, <2>3
    <3>2. u \in queued'[key[u]] <=> u \in queued[key[u]]
      BY <1>0, <2>1, <3>1 DEF Waiting, TypeOK
    <3>3. QED BY <1>0, <2>1, <3>1, <3>2 DEF Waits
  <2>4. ASSUME NEW j \in Key, NEW u \in queued'[j]
        PROVE  key[u] = j /\ j \in has_queue /\ status[u] = "waiting"
    <3>1. u \in queued[j] /\ u # t
      <4>1. u \in queued[j]
        BY <2>1, <2>4 DEF Waiting, TypeOK
      <4>2. key[u] = j
        BY <4>1 DEF Waiting, NobodyForgotten
      <4>3. QED BY <1>0, <2>1, <2>4, <4>1, <4>2 DEF Waiting, TypeOK
    <3>2. QED BY <2>1, <3>1 DEF Waiting, NobodyForgotten
  <2>5. QED BY <2>1, <2>2, <2>3, <2>4 DEF NobodyForgotten, Waiting
<1>10. ASSUME NEW c \in Cancellable, Cancel(c) PROVE OneLoop' /\ NobodyForgotten'
  BY <1>10, UnmovedKept DEF Cancel, queues, tasks
<1>11. ASSUME NEW c \in Cancellable, NewCancellable(c) PROVE OneLoop' /\ NobodyForgotten'
  BY <1>11, UnmovedKept DEF NewCancellable, queues, tasks
<1>12. CASE AnsweringEnds
  BY <1>12, <1>0 DEF AnsweringEnds, queues, tasks, Waiting, OneLoop, NobodyForgotten, Waits
<1>13. CASE EvictAll
  BY <1>13, UnmovedKept DEF EvictAll, queues, tasks
<1>14. CASE DoEviction
  BY <1>14, UnmovedKept DEF DoEviction, queues, tasks
<1>15. CASE Tick
  BY <1>15, UnmovedKept DEF Tick, queues, tasks
<1>16. CASE Dispose
  BY <1>16 DEF Dispose, loops, tasks, Waiting, OneLoop, NobodyForgotten, LoopFree, Waits
<1>17. CASE UNCHANGED vars
  BY <1>17, UnmovedKept DEF vars, queues, tasks
<1>18. QED
  BY <1>1, <1>2, <1>3, <1>4, <1>5, <1>6, <1>7, <1>8, <1>9, <1>10, <1>11, <1>12,
     <1>13, <1>14, <1>15, <1>16, <1>17 DEF Next

-----------------------------------------------------------------------------
(* Items *)

(* HeapMatchesTable by elements. *)
InStep == \A i \in Items : i \in evict_heap <=> cache[i.key] = i.evict_at

LEMMA HeapElements ==
  ASSUME TypeOK
  PROVE  HeapMatchesTable <=> InStep
<1>1. \A k \in Key : cache[k] # Absent => cache[k] \in Nat /\ Item(k, cache[k]) \in Items
  BY ItemType DEF TypeOK
<1>2. \A i \in Items : i.key \in Key /\ i.evict_at \in Nat /\ i = Item(i.key, i.evict_at)
  BY DEF Items, Item
<1>3. \A n \in Nat : n # Absent
  BY DEF Absent
<1>4. \A k, n : Item(k, n).key = k /\ Item(k, n).evict_at = n
  BY DEF Item
<1>5. evict_heap \subseteq Items
  BY DEF TypeOK
<1> USE DEF InStep
<1>6. ASSUME HeapMatchesTable, NEW i \in Items
      PROVE  i \in evict_heap <=> cache[i.key] = i.evict_at
  BY <1>2, <1>3, <1>4, <1>6 DEF HeapMatchesTable
<1>7. ASSUME \A i \in Items : i \in evict_heap <=> cache[i.key] = i.evict_at
      PROVE  HeapMatchesTable
  <2>1. ASSUME NEW i \in evict_heap
        PROVE  \E k \in Key : cache[k] # Absent /\ i = Item(k, cache[k])
    BY <1>2, <1>3, <1>5, <1>7
  <2>2. ASSUME NEW k \in Key, cache[k] # Absent PROVE Item(k, cache[k]) \in evict_heap
    BY <1>1, <1>4, <1>7, <2>2
  <2>3. QED BY <2>1, <2>2 DEF HeapMatchesTable
<1>8. QED BY <1>6, <1>7

(* Storing a value replaces the item of its key in the table and the heap. *)
LEMMA PopulateMatches ==
  ASSUME TypeOK, InStep, NEW k \in Key, Populate(k)
  PROVE  InStep'
<1>1. PICK at \in Nat : /\ cache' = [cache EXCEPT ![k] = at]
                        /\ evict_heap' = (evict_heap \ {Item(k, cache[k])}) \cup {Item(k, at)}
  <2> DEFINE at == IF TimeToLive > 0 THEN now + TimeToLive ELSE 0
  <2>1. at \in Nat
    BY TimeType DEF TypeOK
  <2>2. /\ cache' = [cache EXCEPT ![k] = at]
        /\ evict_heap' = (evict_heap \ {Item(k, cache[k])}) \cup {Item(k, at)}
    BY Zenon DEF Populate
  <2> HIDE DEF at
  <2>3. QED BY <2>1, <2>2
<1>2. \A i \in Items : i.key \in Key /\ i = Item(i.key, i.evict_at)
  BY DEF Items, Item
<1>3. \A n : Item(k, n).key = k /\ Item(k, n).evict_at = n
  BY DEF Item
<1>4. ASSUME NEW i \in Items PROVE i \in evict_heap' <=> cache'[i.key] = i.evict_at
  <2>1. i \in evict_heap <=> cache[i.key] = i.evict_at
    BY DEF InStep
  <2>2. CASE i.key = k
    BY <1>1, <1>2, <1>3, <2>1, <2>2 DEF TypeOK
  <2>3. CASE i.key # k
    BY <1>1, <1>2, <1>3, <2>1, <2>3 DEF TypeOK
  <2>4. QED BY <2>2, <2>3
<1>5. QED BY <1>4 DEF InStep

(* What every step does to the tables: nothing, or one of these. *)
TablesStep ==
  \/ UNCHANGED tables
  \/ \E k \in Key : Populate(k)
  \/ \E k \in Key : Forgetting(k) /\ ready_time' = Rearm(evict_heap')
  \/ /\ cache' = [k \in Key |-> Absent]
     /\ evict_heap' = {}
     /\ ready_time' = -1
  \/ DoEviction

LEMMA TablesSteps ==
  ASSUME [Next]_vars
  PROVE  TablesStep
<1>1. ASSUME NEW t \in Task, NEW k \in Key, NEW c \in Cancellable \cup {NoCancellable},
             GetCached(t, k, c) \/ \E force \in BOOLEAN : GetQueued(t, k, force, c)
      PROVE  TablesStep
  BY <1>1 DEF GetCached, GetQueued, TablesStep
<1>2. ASSUME NEW k \in Key,
             \/ \E what \in {"value", "error"} : FetchReturns(k, what)
             \/ FetchDone(k)
             \/ Evict(k)
      PROVE  TablesStep
  BY <1>2 DEF FetchReturns, FetchDone, Evict, TablesStep
<1>3. ASSUME NEW t \in Task,
             AnswerNext(t) \/ Finalize(t) \/ CancelInIdle(t) \/ CancelRemoves(t)
      PROVE  TablesStep
  BY <1>3 DEF AnswerNext, Finalize, CancelInIdle, CancelRemoves, TablesStep
<1>4. ASSUME NEW c \in Cancellable, Cancel(c) \/ NewCancellable(c)
      PROVE  TablesStep
  BY <1>4 DEF Cancel, NewCancellable, TablesStep
<1>5. CASE AnsweringEnds \/ DoEviction \/ Tick \/ Dispose \/ UNCHANGED vars
  BY <1>5 DEF AnsweringEnds, Tick, Dispose, vars, TablesStep
<1>6. CASE EvictAll
  BY <1>6 DEF EvictAll, Rearm, TablesStep
<1>7. QED
  BY <1>1, <1>2, <1>3, <1>4, <1>5, <1>6 DEF Next

LEMMA MatchInductive ==
  ASSUME TypeOK, InStep, [Next]_vars
  PROVE  InStep'
<1>1. \A i \in Items : i.key \in Key /\ i.evict_at \in Nat /\ i = Item(i.key, i.evict_at)
  BY DEF Items, Item
<1>2. \A n \in Nat : n # Absent
  BY DEF Absent
<1>3. \A k, n : Item(k, n).key = k /\ Item(k, n).evict_at = n
  BY DEF Item
<1>4. CASE UNCHANGED tables
  BY <1>4 DEF InStep, tables
<1>5. ASSUME NEW k \in Key, Populate(k) PROVE InStep'
  BY <1>5, PopulateMatches
<1>6. ASSUME NEW k \in Key, Forgetting(k) PROVE InStep'
  <2>1. ASSUME NEW i \in Items PROVE i \in evict_heap' <=> cache'[i.key] = i.evict_at
    <3>1. i \in evict_heap <=> cache[i.key] = i.evict_at
      BY DEF InStep
    <3>2. CASE i.key = k
      BY <1>1, <1>2, <1>3, <1>6, <3>1, <3>2 DEF Forgetting, TypeOK
    <3>3. CASE i.key # k
      BY <1>1, <1>3, <1>6, <3>1, <3>3 DEF Forgetting, TypeOK
    <3>4. QED BY <3>2, <3>3
  <2>2. QED BY <2>1 DEF InStep
<1>7. CASE cache' = [k \in Key |-> Absent] /\ evict_heap' = {}
  BY <1>1, <1>2, <1>7 DEF InStep
<1>8. CASE DoEviction
  <2>1. ASSUME NEW i \in Items PROVE i \in evict_heap' <=> cache'[i.key] = i.evict_at
    <3>1. i \in evict_heap <=> cache[i.key] = i.evict_at
      BY DEF InStep
    <3>2. CASE \E j \in evict_heap : Expired(j) /\ j.key = i.key
      <4>1. PICK j \in evict_heap : Expired(j) /\ j.key = i.key
        BY <3>2
      <4>2. cache[i.key] = j.evict_at
        BY <4>1 DEF InStep, TypeOK
      <4>3. i \in evict_heap => i = j
        BY <3>1, <4>1, <4>2, <1>1 DEF TypeOK
      <4>4. cache'[i.key] = Absent
        BY <1>1, <1>8, <3>2 DEF DoEviction
      <4>5. QED BY <1>1, <1>2, <1>8, <4>1, <4>3, <4>4 DEF DoEviction
    <3>3. CASE ~\E j \in evict_heap : Expired(j) /\ j.key = i.key
      <4>1. cache'[i.key] = cache[i.key]
        BY <1>1, <1>8, <3>3 DEF DoEviction
      <4>2. i \in evict_heap' <=> i \in evict_heap
        BY <1>8, <3>3 DEF DoEviction
      <4>3. QED BY <3>1, <4>1, <4>2
    <3>4. QED BY <3>2, <3>3
  <2>2. QED BY <2>1 DEF InStep
<1>9. QED BY <1>4, <1>5, <1>6, <1>7, <1>8, TablesSteps DEF TablesStep

(* Every change of the heap rearms the source. *)
LEMMA ArmedInductive ==
  ASSUME TypeOK, TypeOK', Armed, [Next]_vars
  PROVE  Armed'
<1>1. evict_heap' \subseteq Items
  BY DEF TypeOK
<1>2. CASE UNCHANGED tables
  BY <1>2 DEF Armed, tables
<1>3. CASE ready_time' = Rearm(evict_heap')
  BY <1>1, <1>3, RearmType DEF Armed
<1>4. CASE evict_heap' = {} /\ ready_time' = -1
  BY <1>4 DEF Armed
<1>5. QED BY <1>2, <1>3, <1>4, TablesSteps DEF TablesStep, Populate, DoEviction

(* An answered task stays as it was answered until it is released. *)
LEMMA AnsweredStep ==
  ASSUME Waiting, [Next]_vars, NEW u \in Task, status[u] = "answered"
  PROVE  status'[u] = "free" \/ (status'[u] = "answered" /\ result'[u] = result[u])
<1>1. status \in [Task -> {"free", "waiting", "answered"}] /\ result \in [Task -> Results \cup {"none"}]
  BY DEF Waiting, TypeOK
<1>2. \A t \in answering : status[t] = "waiting"
  BY DEF Waiting, NobodyForgotten
<1>3. ASSUME NEW t \in Task, NEW k \in Key, NEW c, NEW state, NEW what, MakeTask(t, k, c, state, what)
      PROVE  status'[u] = "answered" /\ result'[u] = result[u]
  BY <1>1, <1>3 DEF MakeTask
<1>4. ASSUME NEW t \in Task, CancelInIdle(t)
      PROVE  status'[u] = "answered" /\ result'[u] = result[u]
  <2>1. t \in queued[key[t]] => status[t] = "waiting"
    BY <1>4 DEF CancelInIdle, LoopFree, Waiting, TypeOK, NobodyForgotten
  <2>2. QED BY <1>1, <1>4, <2>1 DEF CancelInIdle
<1>5. ASSUME NEW t \in Task, AnswerNext(t) PROVE status'[u] = "answered" /\ result'[u] = result[u]
  BY <1>1, <1>2, <1>5 DEF AnswerNext
<1>6. ASSUME NEW t \in Task, Finalize(t)
      PROVE  status'[u] = "free" \/ (status'[u] = "answered" /\ result'[u] = result[u])
  BY <1>1, <1>6 DEF Finalize
<1>7. CASE UNCHANGED tasks
  BY <1>7 DEF tasks
<1>8. QED
  BY <1>3, <1>4, <1>5, <1>6, <1>7 DEF Next, vars, GetCached, GetQueued, FetchReturns, FetchDone, Evict,
     CancelRemoves, Cancel, NewCancellable, AnsweringEnds, EvictAll, DoEviction, Tick, Dispose

-----------------------------------------------------------------------------
(* The refinement of CoalescedFetch *)

(* A request that waits has no result yet, a pending idle source belongs   *)
(* to a cancelled request, only a fetch in flight can be abandoned.        *)
Bookkeeping ==
  /\ \A t \in Task : status[t] \in {"free", "waiting"} => result[t] = "none"
  /\ \A t \in idle : status[t] # "free" /\ cancellable[t] \in cancelled
  /\ \A t \in connected : status[t] # "free"
  /\ \A k \in abandoned : in_flight[k] # "none"

LEMMA BookkeepingInductive ==
  ASSUME Waiting, Waiting', Bookkeeping, [Next]_vars
  PROVE  Bookkeeping'
<1> USE DEF vars, tables, queues, loops, tasks, cancel, Bookkeeping
<1>0. TypeOK
  BY DEF Waiting
<1>1. ASSUME NEW t \in Task, NEW k \in Key, NEW c \in Cancellable \cup {NoCancellable},
             GetCached(t, k, c)
      PROVE  Bookkeeping'
  BY <1>0, <1>1 DEF TypeOK, GetCached, MakeTask
<1>2. ASSUME NEW t \in Task, NEW k \in Key, NEW c \in Cancellable \cup {NoCancellable},
             NEW force \in BOOLEAN, GetQueued(t, k, force, c)
      PROVE  Bookkeeping'
  <2>1. MakeTask(t, k, c, "waiting", "none") /\ Connect(t, c) /\ UNCHANGED <<abandoned, cancelled>>
    BY <1>2 DEF GetQueued
  <2>2. \A u \in Task : status'[u] \in {"free", "waiting"} => result'[u] = "none"
    BY <1>0, <2>1 DEF TypeOK, MakeTask
  <2>3. \A u \in idle' : status'[u] # "free" /\ cancellable'[u] \in cancelled'
    BY <1>0, <2>1 DEF TypeOK, MakeTask, Connect
  <2>4. \A u \in connected' : status'[u] # "free"
    BY <1>0, <2>1 DEF TypeOK, MakeTask, Connect
  <2>5. \A j \in abandoned' : in_flight'[j] # "none"
    BY <1>0, <1>2 DEF TypeOK, GetQueued
  <2>6. QED BY <2>2, <2>3, <2>4, <2>5
<1>3. ASSUME NEW k \in Key, NEW what \in {"value", "error"}, FetchReturns(k, what)
      PROVE  Bookkeeping'
  BY <1>0, <1>3 DEF TypeOK, FetchReturns
<1>4. ASSUME NEW k \in Key, FetchDone(k) PROVE Bookkeeping'
  BY <1>0, <1>4 DEF TypeOK, FetchDone
<1>5. ASSUME NEW k \in Key, Evict(k) PROVE Bookkeeping'
  BY <1>5 DEF Evict
<1>6. ASSUME NEW t \in Task, AnswerNext(t) PROVE Bookkeeping'
  BY <1>0, <1>6 DEF TypeOK, AnswerNext
<1>7. ASSUME NEW t \in Task, Finalize(t) PROVE Bookkeeping'
  BY <1>0, <1>7 DEF TypeOK, Finalize
<1>8. ASSUME NEW t \in Task, CancelInIdle(t) PROVE Bookkeeping'
  BY <1>0, <1>8 DEF TypeOK, CancelInIdle, GiveUp
<1>9. ASSUME NEW t \in Task, CancelRemoves(t) PROVE Bookkeeping'
  BY <1>0, <1>9 DEF TypeOK, CancelRemoves, GiveUp
<1>10. ASSUME NEW c \in Cancellable, Cancel(c) PROVE Bookkeeping'
  BY <1>0, <1>10 DEF TypeOK, Cancel
<1>11. ASSUME NEW c \in Cancellable, NewCancellable(c) PROVE Bookkeeping'
  BY <1>0, <1>11 DEF TypeOK, NewCancellable
<1>12. CASE AnsweringEnds \/ EvictAll \/ DoEviction \/ Tick \/ Dispose \/ UNCHANGED vars
  BY <1>12 DEF AnsweringEnds, EvictAll, DoEviction, Tick, Dispose
<1>13. QED
  BY <1>1, <1>2, <1>3, <1>4, <1>5, <1>6, <1>7, <1>8, <1>9, <1>10, <1>11, <1>12 DEF Next

PromiseStep ==
  Promise!Next \/ UNCHANGED <<status, key, Outcome, Withdrawn, Fetch, Known>>

(* In terms of the promise, whoever waits without an outcome is queued. *)
LEMMA WaitingIsQueued ==
  ASSUME Waiting, Bookkeeping, NEW k \in Key
  PROVE  Promise!Waiting(k) = {t \in queued[k] : status[t] = "waiting"}
<1>1. \A t \in Task : Outcome[t] = IF t \in answering THEN answer ELSE result[t]
  BY DEF Outcome
<1>2. \A t \in answering : answer # "none"
  BY DEF Waiting, OneLoop
<1>3. ASSUME NEW t \in Promise!Waiting(k) PROVE t \in queued[k] /\ status[t] = "waiting"
  BY <1>1, <1>2 DEF Promise!Waiting, Waiting, NobodyForgotten, Waits
<1>4. ASSUME NEW t \in queued[k], status[t] = "waiting" PROVE t \in Promise!Waiting(k)
  <2>1. t \in Task /\ key[t] = k /\ t \notin answering
    BY <1>4 DEF Waiting, TypeOK, NobodyForgotten, Waits
  <2>2. Outcome[t] = "none"
    BY <1>1, <1>4, <2>1 DEF Bookkeeping
  <2>3. QED BY <1>4, <2>1, <2>2 DEF Promise!Waiting
<1>5. QED BY <1>3, <1>4

(* A result given to a task outside the loop is its outcome, and no more. *)
LEMMA OutcomeOfOne ==
  ASSUME NEW t \in Task, NEW what, t \notin answering, DOMAIN result = Task,
         answering' = answering, answer' = answer, result' = [result EXCEPT ![t] = what]
  PROVE  Outcome' = [Outcome EXCEPT ![t] = what]
<1>1. Outcome' = [u \in Task |-> IF u \in answering THEN answer ELSE result'[u]]
  BY DEF Outcome
<1>2. \A u \in Task : result'[u] = IF u = t THEN what ELSE result[u]
  OBVIOUS
<1>3. \A u \in Task : u \in answering => u # t
  OBVIOUS
<1>4. Outcome' = [u \in Task |-> IF u = t THEN what ELSE IF u \in answering THEN answer ELSE result[u]]
  BY <1>1, <1>2, <1>3, Zenon
<1>5. [Outcome EXCEPT ![t] = what]
        = [u \in Task |-> IF u = t THEN what ELSE IF u \in answering THEN answer ELSE result[u]]
  BY DEF Outcome
<1>6. QED BY <1>4, <1>5

LEMMA StepRefines ==
  ASSUME Waiting, Bookkeeping, Waiting', Bookkeeping', [Next]_vars
  PROVE  PromiseStep
<1>0. TypeOK /\ TypeOK'
  BY DEF Waiting
<1>1. ASSUME NEW t \in Task, NEW k \in Key, NEW c \in Cancellable \cup {NoCancellable},
             GetCached(t, k, c)
      PROVE  PromiseStep
  <2>1. /\ cache[k] # Absent /\ MakeTask(t, k, c, "answered", "value")
        /\ UNCHANGED <<tables, queues, loops, cancel>>
    BY <1>1 DEF GetCached
  <2>2. t \notin answering
    BY <2>1 DEF MakeTask, Waiting, NobodyForgotten
  <2>3. Outcome' = [Outcome EXCEPT ![t] = "value"]
    <3>1. /\ answering' = answering /\ answer' = answer
          /\ result' = [result EXCEPT ![t] = "value"]
      BY <2>1 DEF MakeTask, loops
    <3>2. DOMAIN result = Task
      BY <1>0 DEF TypeOK
    <3>3. QED BY <2>2, <3>1, <3>2, OutcomeOfOne, Zenon
  <2>4. Withdrawn' \in {Withdrawn, Withdrawn \cup {t}}
    BY <1>0, <2>1 DEF Withdrawn, MakeTask, TypeOK, cancel
  <2>5. Fetch' = Fetch /\ Known' = Known
    BY <2>1 DEF Fetch, Known, queues, tables
  <2>6. k \in Known
    BY <2>1 DEF Known
  <2>7. Promise!AnswerFromCache(t, k)
    BY <2>1, <2>3, <2>4, <2>5, <2>6, Zenon DEF Promise!AnswerFromCache, Promise!Made, MakeTask
  <2>8. QED BY <2>7, Zenon DEF PromiseStep, Promise!Next
<1>2. ASSUME NEW t \in Task, NEW k \in Key, NEW c \in Cancellable \cup {NoCancellable},
             NEW force \in BOOLEAN, GetQueued(t, k, force, c)
      PROVE  PromiseStep
  <2>1. /\ MakeTask(t, k, c, "waiting", "none")
        /\ in_flight' = [in_flight EXCEPT ![k] = IF @ = "none" THEN "running" ELSE @]
        /\ UNCHANGED <<tables, abandoned, loops, cancelled>>
    BY <1>2 DEF GetQueued
  <2>2. t \notin answering
    BY <2>1 DEF MakeTask, Waiting, NobodyForgotten
  <2>3. Outcome' = [Outcome EXCEPT ![t] = "none"]
    <3>1. /\ answering' = answering /\ answer' = answer
          /\ result' = [result EXCEPT ![t] = "none"]
      BY <2>1 DEF MakeTask, loops
    <3>2. DOMAIN result = Task
      BY <1>0 DEF TypeOK
    <3>3. QED BY <2>2, <3>1, <3>2, OutcomeOfOne, Zenon
  <2>4. Withdrawn' \in {Withdrawn, Withdrawn \cup {t}}
    BY <1>0, <2>1 DEF Withdrawn, MakeTask, TypeOK
  <2>5. Fetch' = [Fetch EXCEPT ![k] = IF @ = "none" THEN "wanted" ELSE @]
    <3>1. /\ abandoned' = abandoned
          /\ in_flight' = [in_flight EXCEPT ![k] = IF @ = "none" THEN "running" ELSE @]
          /\ in_flight \in [Key -> {"none", "running", "value", "error"}]
      BY <1>0, <2>1 DEF TypeOK
    <3>2. CASE in_flight[k] = "none"
      <4>1. in_flight' = [in_flight EXCEPT ![k] = "running"] /\ k \notin abandoned
        BY <3>1, <3>2 DEF Bookkeeping
      <4>2. Fetch[k] = "none"
        BY <3>2 DEF Fetch
      <4>3. Fetch' = [Fetch EXCEPT ![k] = "wanted"]
        BY <3>1, <4>1 DEF Fetch
      <4>4. QED BY <4>2, <4>3
    <3>3. CASE in_flight[k] # "none"
      <4>1. in_flight' = in_flight
        BY <3>1, <3>3
      <4>2. Fetch' = Fetch /\ Fetch[k] # "none"
        BY <3>1, <3>3, <4>1 DEF Fetch
      <4>3. Fetch = [Fetch EXCEPT ![k] = Fetch[k]]
        BY DEF Fetch
      <4>4. QED BY <4>2, <4>3
    <3>4. QED BY <3>2, <3>3
  <2>6. Known' = Known
    BY <2>1 DEF Known, tables
  <2>7. Promise!Ask(t, k)
    BY <2>1, <2>3, <2>4, <2>5, <2>6, Zenon DEF Promise!Ask, Promise!Made, MakeTask
  <2>8. QED BY <2>7, Zenon DEF PromiseStep, Promise!Next
<1>3. ASSUME NEW k \in Key, NEW what \in {"value", "error"}, FetchReturns(k, what)
      PROVE  PromiseStep
  <2>1. Fetch' = Fetch
    BY <1>0, <1>3 DEF FetchReturns, Fetch, TypeOK
  <2>2. Outcome' = Outcome /\ Withdrawn' = Withdrawn /\ Known' = Known
    BY <1>3 DEF FetchReturns, Outcome, Withdrawn, Known, tables, loops, tasks, cancel
  <2>3. UNCHANGED <<status, key>>
    BY <1>3 DEF FetchReturns, tasks
  <2>4. QED BY <2>1, <2>2, <2>3, Zenon DEF PromiseStep
<1>4. ASSUME NEW k \in Key, FetchDone(k) PROVE PromiseStep
  <2>1. /\ answer = "none" /\ removing = {} /\ answering = {}
        /\ in_flight[k] \in {"value", "error"}
        /\ in_flight' = [in_flight EXCEPT ![k] = "none"]
        /\ abandoned' = abandoned \ {k}
        /\ answering' = queued[k] /\ answer' = Propagated(k)
        /\ UNCHANGED <<status, key, result, cancellable, cancelled>>
    BY <1>4 DEF FetchDone, LoopFree, tasks, cancel, Waiting, OneLoop
  <2> PICK what : what = Propagated(k)
    OBVIOUS
  <2>2. /\ what \in Promise!Outcomes
        /\ k \in abandoned <=> what = "cancelled"
    BY <2>1 DEF Propagated, Promise!Outcomes
  <2>3. Fetch[k] = IF k \in abandoned THEN "abandoned" ELSE "wanted"
    BY <2>1 DEF Fetch
  <2>4. Fetch' = [Fetch EXCEPT ![k] = "none"]
    BY <1>0, <2>1 DEF Fetch, TypeOK
  <2>5. Promise!Waiting(k) = queued[k]
    <3>1. \A t \in queued[k] : status[t] = "waiting"
      BY <2>1 DEF Waiting, NobodyForgotten
    <3>2. QED BY <3>1, WaitingIsQueued
  <2>6. Outcome' = [t \in Task |-> IF t \in Promise!Waiting(k) THEN what ELSE Outcome[t]]
    BY <2>1, <2>5 DEF Outcome
  <2>7. Known' = IF what = "value" THEN Known \cup {k} ELSE Known
    <3>1. CASE what = "value"
      <4>1. PICK at \in Nat : cache' = [cache EXCEPT ![k] = at]
        <5>1. now + TimeToLive \in Nat /\ 0 \in Nat
          BY <1>0, TimeType DEF TypeOK
        <5>2. Populate(k)
          BY <1>4, <3>1 DEF FetchDone
        <5>3. QED BY <5>1, <5>2 DEF Populate
      <4>2. QED BY <1>0, <3>1, <4>1 DEF Known, TypeOK, Absent
    <3>2. CASE what # "value"
      <4>1. UNCHANGED cache
        BY <1>4, <3>2 DEF FetchDone, tables
      <4>2. QED BY <3>2, <4>1 DEF Known
    <3>3. QED BY <3>1, <3>2
  <2>8. Withdrawn' = Withdrawn
    BY <2>1 DEF Withdrawn
  <2>9. Fetch[k] # "none" /\ (Fetch[k] = "abandoned" <=> what = "cancelled")
    BY <2>2, <2>3
  <2>10. Promise!Complete(k, what)
    BY <2>1, <2>4, <2>6, <2>7, <2>8, <2>9, Zenon DEF Promise!Complete
  <2>11. QED BY <2>2, <2>10, Zenon DEF PromiseStep, Promise!Next
<1>5. ASSUME UNCHANGED <<queues, loops, tasks, cancel>>, Known' \subseteq Known
      PROVE  PromiseStep
  <2>1. UNCHANGED <<status, key>>
    BY <1>5 DEF tasks
  <2>2. Outcome' = Outcome /\ Withdrawn' = Withdrawn /\ Fetch' = Fetch
    BY <1>5 DEF Outcome, Withdrawn, Fetch, queues, loops, tasks, cancel
  <2>3. Known' \in SUBSET Known
    BY <1>5
  <2>4. Promise!Forget
    BY <2>1, <2>2, <2>3, Zenon DEF Promise!Forget
  <2>5. QED BY <2>4, Zenon DEF PromiseStep, Promise!Next
<1>6. CASE (\E k \in Key : Evict(k)) \/ EvictAll \/ DoEviction \/ Tick \/ UNCHANGED vars
  <2>1. UNCHANGED <<queues, loops, tasks, cancel>>
    BY <1>6 DEF Evict, EvictAll, DoEviction, Tick, vars
  <2>2. \A k \in Key : cache'[k] = cache[k] \/ cache'[k] = Absent
    BY <1>0, <1>6 DEF Evict, Forgetting, EvictAll, DoEviction, Tick, vars, tables, TypeOK
  <2>3. Known' \subseteq Known
    BY <2>2 DEF Known
  <2>4. QED BY <1>5, <2>1, <2>3
<1>7. CASE Dispose
  <2>1. UNCHANGED <<status, key>> /\ Outcome' = Outcome /\ Withdrawn' = Withdrawn
    BY <1>7 DEF Dispose, loops, tasks, cancel, Outcome, Withdrawn
  <2>2. Fetch' = Fetch /\ Known' \in SUBSET Known
    BY <1>7 DEF Dispose, Fetch, Known
  <2>3. Promise!Forget
    BY <2>1, <2>2, Zenon DEF Promise!Forget
  <2>4. QED BY <2>3, Zenon DEF PromiseStep, Promise!Next
<1>8. ASSUME NEW t \in Task, AnswerNext(t) PROVE PromiseStep
  <2>1. /\ t \in answering /\ answer # "none" /\ status[t] = "waiting"
        /\ answering' = answering \ {t}
        /\ status' = [status EXCEPT ![t] = "answered"]
        /\ result' = [result EXCEPT ![t] = answer]
        /\ UNCHANGED <<tables, queues, answer, key, cancellable, cancelled>>
    BY <1>8 DEF AnswerNext, cancel, Waiting, OneLoop, NobodyForgotten
  <2>2. Outcome[t] # "none" /\ Outcome' = Outcome
    BY <1>0, <2>1 DEF Outcome, TypeOK
  <2>3. Withdrawn' = Withdrawn
    BY <1>0, <2>1 DEF Withdrawn, TypeOK
  <2>4. Fetch' = Fetch /\ Known' = Known
    BY <2>1 DEF Fetch, Known, queues, tables
  <2>5. Promise!Answer(t)
    BY <2>1, <2>2, <2>3, <2>4, Zenon DEF Promise!Answer
  <2>6. QED BY <2>5, Zenon DEF PromiseStep, Promise!Next
<1>9. ASSUME NEW t \in Task, Finalize(t) PROVE PromiseStep
  <2>1. /\ status[t] = "answered" /\ answering = {} /\ answering' = {}
        /\ status' = [status EXCEPT ![t] = "free"]
        /\ result' = [result EXCEPT ![t] = "none"]
        /\ cancellable' = [cancellable EXCEPT ![t] = NoCancellable]
        /\ UNCHANGED <<tables, queues, key, cancelled>>
    BY <1>9 DEF Finalize, LoopFree, loops, Waiting, OneLoop
  <2>2. Outcome' = [Outcome EXCEPT ![t] = "none"]
    BY <1>0, <2>1 DEF Outcome, TypeOK
  <2>3. Withdrawn' = Withdrawn \ {t}
    BY <1>0, <2>1 DEF Withdrawn, TypeOK
  <2>4. Fetch' = Fetch /\ Known' = Known
    BY <2>1 DEF Fetch, Known, queues, tables
  <2>5. Promise!Release(t)
    BY <2>1, <2>2, <2>3, <2>4, Zenon DEF Promise!Release
  <2>6. QED BY <2>5, Zenon DEF PromiseStep, Promise!Next
<1>10. ASSUME NEW k \in Key, GiveUp(k, {t \in queued[k] : status[t] = "waiting"}),
              UNCHANGED <<tables, in_flight, answering, answer, tasks, cancelled>>
       PROVE  PromiseStep
  <2>1. UNCHANGED <<status, key>> /\ Outcome' = Outcome /\ Withdrawn' = Withdrawn /\ Known' = Known
    BY <1>10 DEF tables, tasks, Outcome, Withdrawn, Known
  <2>2. CASE abandoned' = abandoned
    <3>1. Fetch' = Fetch
      BY <1>10, <2>2 DEF Fetch
    <3>2. QED BY <2>1, <3>1, Zenon DEF PromiseStep
  <2>3. CASE abandoned' # abandoned
    <3>1. /\ {t \in queued[k] : status[t] = "waiting"} = {} /\ in_flight[k] # "none"
          /\ abandoned' = abandoned \cup {k} /\ k \notin abandoned
      BY <1>10, <2>3 DEF GiveUp
    <3>2. Promise!Waiting(k) = {}
      BY <3>1, WaitingIsQueued
    <3>3. Fetch[k] = "wanted" /\ Fetch' = [Fetch EXCEPT ![k] = "abandoned"]
      BY <1>0, <1>10, <3>1 DEF Fetch, TypeOK
    <3>4. Promise!Abandon(k)
      BY <2>1, <3>2, <3>3, Zenon DEF Promise!Abandon
    <3>5. QED BY <3>4, Zenon DEF PromiseStep, Promise!Next
  <2>4. QED BY <2>2, <2>3
<1>11. ASSUME NEW t \in Task, CancelInIdle(t) PROVE PromiseStep
  <2>1. CASE t \in queued[key[t]]
    <3>1. /\ answering = {} /\ answering' = {} /\ status[t] = "waiting"
          /\ t \in Withdrawn
          /\ status' = [status EXCEPT ![t] = "answered"]
          /\ result' = [result EXCEPT ![t] = "cancelled"]
          /\ UNCHANGED <<tables, in_flight, abandoned, key, cancellable, cancelled>>
      BY <1>0, <1>11, <2>1 DEF CancelInIdle, LoopFree, Waiting, OneLoop, NobodyForgotten, TypeOK,
         Bookkeeping, Withdrawn
    <3>2. Outcome[t] = "none" /\ Outcome' = [Outcome EXCEPT ![t] = "cancelled"]
      BY <1>0, <3>1 DEF Outcome, TypeOK, Bookkeeping
    <3>3. Withdrawn' = Withdrawn
      BY <1>0, <3>1 DEF Withdrawn, TypeOK
    <3>4. Fetch' = Fetch /\ Known' = Known
      BY <3>1 DEF Fetch, Known, tables
    <3>5. Promise!AnswerWithdrawn(t)
      BY <3>1, <3>2, <3>3, <3>4, Zenon DEF Promise!AnswerWithdrawn
    <3>6. QED BY <3>5, Zenon DEF PromiseStep, Promise!Next
  <2>2. CASE t \notin queued[key[t]]
    <3>1. /\ removing = {} /\ key[t] \in Key
          /\ UNCHANGED <<tables, in_flight, answering, answer, tasks, cancelled>>
          /\ abandoned' = abandoned \/ GiveUp(key[t], queued[key[t]])
      BY <1>0, <1>11, <2>2 DEF CancelInIdle, LoopFree, tasks, TypeOK
    <3>2. queued[key[t]] = {u \in queued[key[t]] : status[u] = "waiting"}
      BY <3>1 DEF Waiting, NobodyForgotten
    <3>3. CASE abandoned' = abandoned
      <4>1. UNCHANGED <<status, key>> /\ Outcome' = Outcome /\ Withdrawn' = Withdrawn
            /\ Known' = Known /\ Fetch' = Fetch
        BY <3>1, <3>3 DEF tables, tasks, Outcome, Withdrawn, Known, Fetch
      <4>2. QED BY <4>1, Zenon DEF PromiseStep
    <3>4. CASE GiveUp(key[t], queued[key[t]])
      BY <1>10, <3>1, <3>2, <3>4
    <3>5. QED BY <3>1, <3>3, <3>4
  <2>3. QED BY <2>1, <2>2
<1>12. ASSUME NEW t \in Task, CancelRemoves(t) PROVE PromiseStep
  <2>1. /\ t \in removing /\ status[t] = "answered" /\ removing = {t} /\ key[t] \in Key
        /\ GiveUp(key[t], queued[key[t]] \ {t})
        /\ UNCHANGED <<tables, in_flight, answering, answer, tasks, cancelled>>
    BY <1>0, <1>12 DEF CancelRemoves, cancel, Waiting, OneLoop, TypeOK
  <2>2. queued[key[t]] \ {t} = {u \in queued[key[t]] : status[u] = "waiting"}
    BY <2>1 DEF Waiting, NobodyForgotten
  <2>3. QED BY <1>10, <2>1, <2>2
<1>13. ASSUME NEW c \in Cancellable, Cancel(c) PROVE PromiseStep
  <2>1. /\ cancelled' = cancelled \cup {c}
        /\ UNCHANGED <<tables, queues, loops, tasks>>
    BY <1>13 DEF Cancel
  <2>2. UNCHANGED <<status, key>> /\ Outcome' = Outcome /\ Fetch' = Fetch /\ Known' = Known
    BY <2>1 DEF tables, queues, loops, tasks, Outcome, Fetch, Known
  <2>3. Withdrawn' \in SUBSET Task /\ Withdrawn \subseteq Withdrawn'
    BY <2>1 DEF Withdrawn, tasks
  <2>4. Promise!Withdraw
    BY <2>2, <2>3, Zenon DEF Promise!Withdraw
  <2>5. QED BY <2>4, Zenon DEF PromiseStep, Promise!Next
<1>14. ASSUME NEW c \in Cancellable, NewCancellable(c) PROVE PromiseStep
  <2>1. /\ cancelled' = cancelled \ {c} /\ \A t \in Task : cancellable[t] # c
        /\ UNCHANGED <<tables, queues, loops, tasks>>
    BY <1>14 DEF NewCancellable
  <2>2. UNCHANGED <<status, key>> /\ Outcome' = Outcome /\ Fetch' = Fetch /\ Known' = Known
    BY <2>1 DEF tables, queues, loops, tasks, Outcome, Fetch, Known
  <2>3. Withdrawn' = Withdrawn
    BY <2>1 DEF Withdrawn, tasks
  <2>4. QED BY <2>2, <2>3, Zenon DEF PromiseStep
<1>15. CASE AnsweringEnds
  <2>1. answering = {} /\ answering' = {} /\ UNCHANGED <<tables, queues, tasks, cancelled>>
    BY <1>15 DEF AnsweringEnds, cancel
  <2>2. UNCHANGED <<status, key>> /\ Outcome' = Outcome /\ Withdrawn' = Withdrawn
        /\ Fetch' = Fetch /\ Known' = Known
    BY <2>1 DEF tables, queues, tasks, Outcome, Withdrawn, Fetch, Known
  <2>3. QED BY <2>2, Zenon DEF PromiseStep
<1>16. QED
  BY <1>1, <1>2, <1>3, <1>4, <1>6, <1>7, <1>8, <1>9, <1>11, <1>12, <1>13, <1>14, <1>15 DEF Next

-----------------------------------------------------------------------------
LEMMA InitHolds == Init => Waiting /\ InStep /\ Armed /\ Bookkeeping /\ Promise!Init
<1> SUFFICES ASSUME Init PROVE Waiting /\ InStep /\ Armed /\ Bookkeeping /\ Promise!Init
  OBVIOUS
<1>1. TypeOK
  BY DEF Init, TypeOK, Absent, Results
<1>2. OneLoop /\ NobodyForgotten
  BY DEF Init, OneLoop, NobodyForgotten
<1>3. \A i \in Items : i.key \in Key /\ i.evict_at \in Nat
  BY DEF Items
<1>4. InStep
  BY <1>3 DEF Init, InStep, Absent
<1>5. Armed
  BY DEF Init, Armed
<1>6. Bookkeeping
  BY DEF Init, Bookkeeping
<1>7. Promise!Init
  <2>1. Outcome = [t \in Task |-> "none"] /\ Withdrawn = {}
    BY DEF Init, Outcome, Withdrawn
  <2>2. Fetch = [k \in Key |-> "none"] /\ Known = {}
    BY DEF Init, Fetch, Known, Absent
  <2>3. status = [t \in Task |-> "free"] /\ key \in [Task -> Key]
    BY DEF Init
  <2>4. QED BY <2>1, <2>2, <2>3, Zenon DEF Promise!Init
<1>8. QED BY <1>1, <1>2, <1>4, <1>5, <1>6, <1>7 DEF Waiting

(* The typing of the tables, queues and tasks. *)
THEOREM TypeSafe == Spec => []TypeOK
<1>1. Init => TypeOK
  BY InitHolds DEF Waiting
<1>2. TypeOK /\ [Next]_vars => TypeOK'
  BY TypeInductive
<1>3. QED BY <1>1, <1>2, PTL DEF Spec

LEMMA AlwaysWaiting == Spec => []Waiting
<1>1. Init => Waiting
  BY InitHolds
<1>2. Waiting /\ [Next]_vars => Waiting'
  <2>1. SUFFICES ASSUME Waiting, [Next]_vars PROVE Waiting'
    OBVIOUS
  <2>2. TypeOK'
    BY <2>1, TypeInductive DEF Waiting
  <2>3. QED BY <2>1, <2>2, WaitingInductive DEF Waiting
<1>3. QED BY <1>1, <1>2, PTL DEF Spec

(* No request of dzl_task_cache_get_async() is left behind: each is in the *)
(* queue of a key that is being fetched, or in the array being answered.   *)
THEOREM NoRequestForgotten == Spec => []NobodyForgotten
<1>1. Waiting => NobodyForgotten
  BY DEF Waiting
<1>2. QED BY <1>1, AlwaysWaiting, PTL

(* No request is answered a second time, whatever the callbacks of the     *)
(* others do in between.                                                   *)
THEOREM NoSecondAnswer == Spec => AnsweredOnce
<1>1. Waiting /\ [Next]_vars =>
        [\A t \in Task : status[t] = "answered" =>
           status'[t] = "free" \/ (status'[t] = "answered" /\ result'[t] = result[t])]_vars
  BY AnsweredStep
<1>2. QED BY <1>1, AlwaysWaiting, PTL DEF Spec, AnsweredOnce

(* The eviction heap points to exactly the items the table owns. *)
THEOREM HeapIsTable == Spec => []HeapMatchesTable
<1>1. Init => InStep
  BY InitHolds
<1>2. TypeOK /\ InStep /\ [Next]_vars => InStep'
  BY MatchInductive
<1>3. TypeOK => (HeapMatchesTable <=> InStep)
  BY HeapElements
<1>4. QED BY <1>1, <1>2, <1>3, TypeSafe, PTL DEF Spec

(* The eviction source is armed for the item that expires first. *)
THEOREM AlwaysArmed == Spec => []Armed
<1>1. Init => Armed
  BY InitHolds
<1>2. TypeOK /\ TypeOK' /\ Armed /\ [Next]_vars => Armed'
  BY ArmedInductive
<1>3. QED BY <1>1, <1>2, TypeSafe, PTL DEF Spec

LEMMA AlwaysBookkeeping == Spec => []Bookkeeping
<1>1. Init => Bookkeeping
  BY InitHolds
<1>2. Waiting /\ Waiting' /\ Bookkeeping /\ [Next]_vars => Bookkeeping'
  BY BookkeepingInductive
<1>3. QED BY <1>1, <1>2, AlwaysWaiting, PTL DEF Spec

(* get_async, fetch_cb and cancel_in_idle together coalesce requests: one  *)
(* fetch per key, its outcome to exactly those who asked before it ended.  *)
THEOREM ImplementsPromise == Spec => KeepsPromise
<1>1. Init => Promise!Init
  BY InitHolds
<1>2. /\ Waiting /\ Waiting' /\ Bookkeeping /\ Bookkeeping' /\ [Next]_vars
      => [Promise!Next]_<<status, key, Outcome, Withdrawn, Fetch, Known>>
  BY StepRefines DEF PromiseStep
<1>3. QED BY <1>1, <1>2, AlwaysWaiting, AlwaysBookkeeping, PTL DEF Spec, KeepsPromise, Promise!Spec
=============================================================================

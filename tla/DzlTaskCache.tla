--------------------------- MODULE DzlTaskCache ---------------------------
(***************************************************************************)
(* cache/dzl-task-cache.c: a cache filled by asynchronous fetches.  A call *)
(* that misses queues a GTask for its key; the first of them starts the    *)
(* fetch of that key, whose completion stores the value and answers the    *)
(* queue.  Values are evicted by a timed source, requests leave the queue  *)
(* through an idle source when their cancellable is cancelled.             *)
(*                                                                         *)
(* Everything runs on one main loop, so interleaving means two things: the *)
(* order in which sources are dispatched, and user code that runs inside   *)
(* g_task_return_*() and calls back into the cache.  The two places where  *)
(* that happens, the loop of propagate_pointer/_error and the middle of    *)
(* cancel_in_idle, are steps of their own between which any call may come. *)
(* A fetch completes from the main loop, never inside such a callback.     *)
(*                                                                         *)
(* Arrays of tasks are sets: every call queues a task of its own, and the  *)
(* order of the answers is not promised.  Values are not told apart; the   *)
(* heap of items is the set of its elements, as PriorityQueue justifies.   *)
(***************************************************************************)
EXTENDS Integers, FiniteSets

CONSTANTS
  Key,
  Task,              \* the GTasks of get_async calls that can be alive at once
  Cancellable,       \* the GCancellables callers pass ...
  NoCancellable,     \* ... or NULL
  TimeToLive,        \* self->time_to_live_usec; 0 is no eviction
  MaxTime,           \* bound on the clock
  CancelledUpFront   \* do callers pass cancellables that are already cancelled?

ASSUME TimeType == TimeToLive \in Nat /\ MaxTime \in Nat
ASSUME NullType == NoCancellable \notin Cancellable
ASSUME CallerType == CancelledUpFront \in BOOLEAN

VARIABLES
  cache,             \* self->cache: evict_at of the item of each key, or Absent
  evict_heap,        \* self->evict_heap: the items it points to
  ready_time,        \* the ready time of self->evict_source, -1 when unarmed
  queued,            \* self->queued: the tasks in the array of each key ...
  has_queue,         \* ... for the keys that have one, even an empty one
  in_flight,         \* self->in_flight: the fetch of each key, and what it returned
  abandoned,         \* the keys whose fetch_cancellable is cancelled
  answering,         \* the array propagate_* is looping over ...
  answer,            \* ... and what it answers; "none" when no loop runs
  status,            \* each task: not made, waiting, or answered
  key,               \* data->key of each task
  result,            \* what it was returned
  cancellable,       \* the cancellable it was made with
  connected,         \* the tasks whose cancelled_cb is connected to it
  cancelled,         \* the cancellables that are cancelled
  idle,              \* the tasks with a pending cancel_in_idle source
  removing,          \* the tasks cancel_in_idle has returned but not yet removed
  now,               \* the monotonic clock
  failed             \* a g_assert of cancelled_cb has failed; a build without
                     \* G_DISABLE_ASSERT ends there, any other goes on

tables == <<cache, evict_heap, ready_time>>
queues == <<queued, has_queue, in_flight, abandoned>>
loops  == <<answering, answer, removing>>
tasks  == <<status, key, result, cancellable>>
cancel == <<connected, cancelled, idle>>
vars   == <<tables, queues, loops, tasks, cancel, now, failed>>

Absent == -1
Results == {"value", "error", "cancelled"}

(* The requests and fetches as CoalescedFetch sees them. *)
Outcome   == [t \in Task |-> IF t \in answering THEN answer ELSE result[t]]
Withdrawn == {t \in Task : status[t] # "free" /\ cancellable[t] \in cancelled}
Fetch     == [k \in Key |-> IF in_flight[k] = "none" THEN "none"
                            ELSE IF k \in abandoned THEN "abandoned" ELSE "wanted"]
Known     == {k \in Key : cache[k] # Absent}

Promise == INSTANCE CoalescedFetch WITH
  Request <- Task, request <- status, about <- key, outcome <- Outcome,
  withdrawn <- Withdrawn, fetch <- Fetch, known <- Known

-----------------------------------------------------------------------------
(* The item table and its eviction source *)

Item(k, at) == [key |-> k, evict_at |-> at]
Items == [key : Key, evict_at : Nat]

(* dzl_heap_peek (heap): cache_item_compare_evict_at() puts the earliest first. *)
Earliest(heap) == CHOOSE i \in heap : \A j \in heap : i.evict_at <= j.evict_at

(* evict_source_rearm; there is a source only with a time to live. *)
Rearm(heap) == IF TimeToLive = 0 \/ heap = {} THEN -1 ELSE Earliest(heap).evict_at

(* What dzl_task_cache_evict_full (.., TRUE) leaves of the table and the heap. *)
Forgetting_HeapKept(k) ==
  /\ cache' = [cache EXCEPT ![k] = Absent]
  /\ evict_heap' = evict_heap
Forgetting(k) ==
  /\ cache' = [cache EXCEPT ![k] = Absent]
  /\ evict_heap' = evict_heap \ {Item(k, cache[k])}

(* dzl_task_cache_populate with cache_item_new: replaces an item of that key. *)
Populate_Unarmed(k) ==
  LET at == IF TimeToLive > 0 THEN now + TimeToLive ELSE 0
  IN  /\ cache' = [cache EXCEPT ![k] = at]
      /\ evict_heap' = (evict_heap \ {Item(k, cache[k])}) \cup {Item(k, at)}
      /\ ready_time' = ready_time
Populate(k) ==
  LET at == IF TimeToLive > 0 THEN now + TimeToLive ELSE 0
  IN  /\ cache' = [cache EXCEPT ![k] = at]
      /\ evict_heap' = (evict_heap \ {Item(k, cache[k])}) \cup {Item(k, at)}
      /\ ready_time' = Rearm(evict_heap')

-----------------------------------------------------------------------------
(* dzl_task_cache_constructed with dzl_task_cache_init *)
Init ==
  /\ cache = [k \in Key |-> Absent]
  /\ evict_heap = {}
  /\ ready_time = -1
  /\ queued = [k \in Key |-> {}]
  /\ has_queue = {}
  /\ in_flight = [k \in Key |-> "none"]
  /\ abandoned = {}
  /\ answering = {} /\ answer = "none"
  /\ status = [t \in Task |-> "free"]
  /\ key \in [Task -> Key]
  /\ result = [t \in Task |-> "none"]
  /\ cancellable = [t \in Task |-> NoCancellable]
  /\ connected = {} /\ cancelled = {}
  /\ idle = {}
  /\ removing = {}
  /\ now = 0
  /\ failed = FALSE

(* No source is being dispatched: the main loop may pick the next one. *)
LoopFree == answer = "none" /\ removing = {}

MakeTask(t, k, c, state, what) ==
  /\ status[t] = "free"
  /\ status' = [status EXCEPT ![t] = state]
  /\ key' = [key EXCEPT ![t] = k]
  /\ result' = [result EXCEPT ![t] = what]
  /\ cancellable' = [cancellable EXCEPT ![t] = c]

(* dzl_task_cache_get_async on a hit; g_task_return_pointer() defers the   *)
(* callback of a task made in this very call.                              *)
GetCached(t, k, c) ==
  /\ cache[k] # Absent
  /\ MakeTask(t, k, c, "answered", "value")
  /\ UNCHANGED <<tables, queues, loops, cancel, now, failed>>

(* g_cancellable_connect() runs cancelled_cb at once, before the task has  *)
(* its data, when the cancellable is already cancelled.                    *)
Connect(t, c) ==
  IF c \in cancelled
  THEN /\ CancelledUpFront
       /\ failed' = TRUE
       /\ idle' = idle \cup {t}
       /\ UNCHANGED connected
  ELSE /\ connected' = IF c = NoCancellable THEN connected ELSE connected \cup {t}
       /\ UNCHANGED <<idle, failed>>

(* dzl_task_cache_get_async on a miss, or with force_update: queue the     *)
(* request, and start a fetch unless one is in flight.                     *)
GetQueued(t, k, force, c) ==
  /\ force \/ cache[k] = Absent
  /\ MakeTask(t, k, c, "waiting", "none")
  /\ queued' = [queued EXCEPT ![k] = @ \cup {t}]
  /\ has_queue' = has_queue \cup {k}
  /\ in_flight' = [in_flight EXCEPT ![k] = IF @ = "none" THEN "running" ELSE @]
  /\ Connect(t, c)
  /\ UNCHANGED <<tables, abandoned, loops, cancelled, now>>

(* The populate callback of the user completes its task (external). *)
FetchReturns(k, what) ==
  /\ in_flight[k] = "running"
  /\ in_flight' = [in_flight EXCEPT ![k] = what]
  /\ UNCHANGED <<tables, queued, has_queue, abandoned, loops, tasks, cancel, now, failed>>

(* What g_task_propagate_pointer() gives: a fetch whose cancellable is     *)
(* cancelled fails with CANCELLED whatever it returned.                    *)
Propagated(k) == IF k \in abandoned THEN "cancelled" ELSE in_flight[k]

(* dzl_task_cache_fetch_cb, up to the loop over the queue it detaches. *)
FetchDone_QueueKept(k) ==
  /\ LoopFree
  /\ in_flight[k] \in {"value", "error"}
  /\ in_flight' = [in_flight EXCEPT ![k] = "none"]
  /\ abandoned' = abandoned \ {k}
  /\ IF Propagated(k) = "value" THEN Populate(k) ELSE UNCHANGED tables
  /\ answering' = queued[k] /\ answer' = Propagated(k)
  /\ UNCHANGED <<queued, has_queue, removing, tasks, cancel, now, failed>>
FetchDone_ErrorDropped(k) ==
  /\ LoopFree
  /\ in_flight[k] \in {"value", "error"}
  /\ in_flight' = [in_flight EXCEPT ![k] = "none"]
  /\ abandoned' = abandoned \ {k}
  /\ IF Propagated(k) = "value" THEN Populate(k) ELSE UNCHANGED tables
  /\ queued' = [queued EXCEPT ![k] = {}]
  /\ has_queue' = has_queue \ {k}
  /\ answering' = IF Propagated(k) = "value" THEN queued[k] ELSE {}
  /\ answer' = Propagated(k)
  /\ UNCHANGED <<removing, tasks, cancel, now, failed>>
FetchDone(k) ==
  /\ LoopFree
  /\ in_flight[k] \in {"value", "error"}
  /\ in_flight' = [in_flight EXCEPT ![k] = "none"]
  /\ abandoned' = abandoned \ {k}
  /\ IF Propagated(k) = "value" THEN Populate(k) ELSE UNCHANGED tables
  /\ queued' = [queued EXCEPT ![k] = {}]
  /\ has_queue' = has_queue \ {k}
  /\ answering' = queued[k] /\ answer' = Propagated(k)
  /\ UNCHANGED <<removing, tasks, cancel, now, failed>>

(* One iteration of propagate_pointer or propagate_error. *)
AnswerNext(t) ==
  /\ t \in answering
  /\ answering' = answering \ {t}
  /\ status' = [status EXCEPT ![t] = "answered"]
  /\ result' = [result EXCEPT ![t] = answer]
  /\ UNCHANGED <<tables, queues, answer, removing, key, cancellable, cancel, now, failed>>

AnsweringEnds ==
  /\ answer # "none" /\ answering = {}
  /\ answer' = "none"
  /\ UNCHANGED <<tables, queues, answering, removing, tasks, cancel, now, failed>>

(* The last reference to a task goes, and cancelled_data_free() runs. *)
Finalize(t) ==
  /\ LoopFree
  /\ status[t] = "answered" /\ t \notin idle
  /\ status' = [status EXCEPT ![t] = "free"]
  /\ result' = [result EXCEPT ![t] = "none"]
  /\ cancellable' = [cancellable EXCEPT ![t] = NoCancellable]
  /\ connected' = connected \ {t}
  /\ UNCHANGED <<tables, queues, loops, key, cancelled, idle, now, failed>>

(* A caller cancels: dzl_task_cache_cancelled_cb runs for every task made  *)
(* with that cancellable, and attaches an idle source for it.              *)
Cancel(c) ==
  /\ c \notin cancelled
  /\ cancelled' = cancelled \cup {c}
  /\ idle' = idle \cup {t \in connected : cancellable[t] = c}
  /\ UNCHANGED <<tables, queues, loops, tasks, connected, now, failed>>

(* ... and replaces a used one with a new one (external). *)
NewCancellable(c) ==
  /\ c \in cancelled
  /\ \A t \in Task : cancellable[t] # c
  /\ cancelled' = cancelled \ {c}
  /\ UNCHANGED <<tables, queues, loops, tasks, connected, idle, now, failed>>

(* What cancel_in_idle does last: give up a fetch no one waits for. *)
GiveUp(k, waiting) ==
  abandoned' = IF waiting = {} /\ in_flight[k] # "none" THEN abandoned \cup {k} ELSE abandoned

(* dzl_task_cache_cancel_in_idle, up to g_task_return_error_if_cancelled() *)
(* when it finds its task in the queue; otherwise all of it.               *)
CancelInIdle(t) ==
  /\ LoopFree
  /\ t \in idle
  /\ idle' = idle \ {t}
  /\ IF t \in queued[key[t]]
     THEN /\ status' = [status EXCEPT ![t] = "answered"]
          /\ result' = [result EXCEPT ![t] = "cancelled"]
          /\ removing' = {t}
          /\ UNCHANGED abandoned
     ELSE /\ IF key[t] \in has_queue THEN GiveUp(key[t], queued[key[t]]) ELSE UNCHANGED abandoned
          /\ UNCHANGED <<status, result, removing>>
  /\ UNCHANGED <<tables, queued, has_queue, in_flight, answering, answer,
                 key, cancellable, connected, cancelled, now, failed>>

(* ... and the rest of it, once the caller's callback has run. *)
CancelRemoves_OthersIgnored(t) ==
  /\ t \in removing
  /\ removing' = {}
  /\ queued' = [queued EXCEPT ![key[t]] = @ \ {t}]
  /\ GiveUp(key[t], {})
  /\ UNCHANGED <<tables, has_queue, in_flight, answering, answer, tasks, cancel, now, failed>>
CancelRemoves(t) ==
  /\ t \in removing
  /\ removing' = {}
  /\ queued' = [queued EXCEPT ![key[t]] = @ \ {t}]
  /\ GiveUp(key[t], queued[key[t]] \ {t})
  /\ UNCHANGED <<tables, has_queue, in_flight, answering, answer, tasks, cancel, now, failed>>

(* dzl_task_cache_evict *)
Evict(k) ==
  /\ cache[k] # Absent
  /\ Forgetting(k)
  /\ ready_time' = Rearm(evict_heap')
  /\ UNCHANGED <<queues, loops, tasks, cancel, now, failed>>

(* dzl_task_cache_evict_all *)
EvictAll ==
  /\ cache' = [k \in Key |-> Absent]
  /\ evict_heap' = {}
  /\ ready_time' = Rearm(evict_heap')
  /\ UNCHANGED <<queues, loops, tasks, cancel, now, failed>>

(* dzl_task_cache_do_eviction in evict_source_dispatch, which the loop     *)
(* calls when the ready time has come or evict_source_check() says so.     *)
Expired(i) == i.evict_at <= now
Alarmed == ready_time # -1 /\ ready_time <= now

DoEviction ==
  /\ LoopFree
  /\ TimeToLive > 0
  /\ Alarmed \/ \E i \in evict_heap : Expired(i)
  /\ evict_heap' = {i \in evict_heap : ~Expired(i)}
  /\ cache' = [k \in Key |-> IF \E i \in evict_heap : Expired(i) /\ i.key = k
                             THEN Absent ELSE cache[k]]
  /\ ready_time' = Rearm(evict_heap')
  /\ UNCHANGED <<queues, loops, tasks, cancel, now, failed>>

Tick ==
  /\ now < MaxTime
  /\ now' = now + 1
  /\ UNCHANGED <<tables, queues, loops, tasks, cancel, failed>>

(* dzl_task_cache_dispose: every task holds a reference to the cache, so   *)
(* none is left by then.  What follows is a new object.                    *)
Dispose ==
  /\ LoopFree
  /\ \A t \in Task : status[t] = "free"
  /\ \A k \in Key : in_flight[k] = "none"
  /\ cache' = [k \in Key |-> Absent]
  /\ evict_heap' = {}
  /\ ready_time' = -1
  /\ queued' = [k \in Key |-> {}]
  /\ has_queue' = {}
  /\ UNCHANGED <<in_flight, abandoned, loops, tasks, cancel, now, failed>>

Next ==
  \/ \E t \in Task, k \in Key, c \in Cancellable \cup {NoCancellable} :
       \/ GetCached(t, k, c)
       \/ \E force \in BOOLEAN : GetQueued(t, k, force, c)
  \/ \E k \in Key :
       \/ \E what \in {"value", "error"} : FetchReturns(k, what)
       \/ FetchDone(k)
       \/ Evict(k)
  \/ \E t \in Task : \/ AnswerNext(t) \/ Finalize(t)
                    \/ CancelInIdle(t) \/ CancelRemoves(t)
  \/ \E c \in Cancellable : Cancel(c) \/ NewCancellable(c)
  \/ AnsweringEnds \/ EvictAll \/ DoEviction \/ Tick \/ Dispose

Spec == Init /\ [][Next]_vars

(* A step of code that has been entered is finished. *)
CodeFairness ==
  /\ WF_vars(AnsweringEnds)
  /\ \A t \in Task : WF_vars(AnswerNext(t)) /\ WF_vars(CancelRemoves(t))

(* The main loop gets to every source that stays ready: other sources may  *)
(* be dispatched in between, again and again, but not for ever instead.    *)
LoopFairness ==
  /\ \A t \in Task : SF_vars(CancelInIdle(t))
  /\ \A k \in Key : SF_vars(FetchDone(k))
  /\ SF_vars(Alarmed /\ DoEviction)

(* "the callee [..] MUST return": DzlTaskCacheCallback, dzl-task-cache.h:46 *)
PopulateFairness ==
  \A k \in Key : WF_vars(\E what \in {"value", "error"} : FetchReturns(k, what))

FairSpec == Spec /\ CodeFairness /\ LoopFairness

-----------------------------------------------------------------------------
(* Properties *)

TypeOK ==
  /\ cache \in [Key -> Nat \cup {Absent}]
  /\ evict_heap \subseteq Items
  /\ ready_time \in Nat \cup {-1}
  /\ queued \in [Key -> SUBSET Task]
  /\ has_queue \subseteq Key
  /\ in_flight \in [Key -> {"none", "running", "value", "error"}]
  /\ abandoned \subseteq Key
  /\ answering \subseteq Task
  /\ answer \in Results \cup {"none"}
  /\ status \in [Task -> {"free", "waiting", "answered"}]
  /\ key \in [Task -> Key]
  /\ result \in [Task -> Results \cup {"none"}]
  /\ cancellable \in [Task -> Cancellable \cup {NoCancellable}]
  /\ connected \subseteq Task
  /\ cancelled \subseteq Cancellable
  /\ idle \subseteq Task
  /\ removing \subseteq Task
  /\ now \in Nat
  /\ failed \in BOOLEAN

(* The heap holds pointers to items the hash table owns: an item that left *)
(* one and not the other would be read after it was freed, or never leave. *)
HeapMatchesTable ==
  evict_heap = {Item(k, cache[k]) : k \in {j \in Key : cache[j] # Absent}}

(* The eviction source wakes the main loop for the item that expires first *)
(* and for nothing when the cache is empty, whatever was added or evicted. *)
Armed ==
  TimeToLive > 0 =>
    /\ evict_heap = {} => ready_time = -1
    /\ \A i \in evict_heap : ready_time # -1 /\ ready_time <= i.evict_at

(* Every request not yet answered is in the queue of its key with a fetch  *)
(* on its way, or in the one array being answered now: none can be left    *)
(* behind, by a cancellation or by a call from another request's callback. *)
Waits(t) ==
  \/ t \in queued[key[t]] /\ t \notin answering /\ in_flight[key[t]] # "none"
  \/ t \notin queued[key[t]] /\ t \in answering

NobodyForgotten ==
  /\ \A t \in Task : status[t] = "waiting" => Waits(t)
  /\ \A k \in Key : \A t \in queued[k] :
       key[t] = k /\ k \in has_queue /\ (status[t] = "waiting" \/ t \in removing)
  /\ \A t \in answering : status[t] = "waiting"

(* A task is returned once: no second g_task_return_*() replaces what the  *)
(* caller was already told, by either propagate loop or by cancel_in_idle. *)
AnsweredOnce ==
  [][\A t \in Task : status[t] = "answered" =>
       status'[t] = "free" \/ (status'[t] = "answered" /\ result'[t] = result[t])]_vars

(* Requests are coalesced as CoalescedFetch says: one fetch per key, whose *)
(* outcome answers exactly those who asked before it; cancelled requests   *)
(* leave alone, and a fetch is given up only while nobody waits for it.    *)
KeepsPromise == Promise!Spec

(* Every dzl_task_cache_get_async() is answered, if populate callbacks do  *)
(* as they must.                                                           *)
AnsweredEventually ==
  PopulateFairness => \A t \in Task : status[t] = "waiting" ~> status[t] = "answered"

(* A cancelled request is answered even if its fetch never returns. *)
CancelIsPrompt ==
  \A t \in Task :
    (status[t] = "waiting" /\ cancellable[t] \in cancelled) ~> status[t] = "answered"

(* Items leave after their time to live, with no further call to the cache. *)
ExpiredLeave ==
  \A k \in Key :
    (TimeToLive > 0 /\ cache[k] # Absent /\ cache[k] <= now)
      ~> (cache[k] = Absent \/ cache[k] > now)

(* g_assert (data != NULL), dzl-task-cache.c:511, never fails. *)
DataIsSet == ~failed
=============================================================================

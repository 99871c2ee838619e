----------------------------- MODULE DzlCounter -----------------------------
(***************************************************************************)
(* util/dzl-counter.c and .h: counters that are split into one cell per    *)
(* CPU and updated without synchronization, in an arena that is shared     *)
(* with other processes, which find the counters in it and read them.      *)
(*                                                                         *)
(* An update is three steps of its thread: it asks on which CPU it runs,   *)
(* loads the cell of that CPU and stores it.  A CPU runs one thread at a   *)
(* time; `disturbed' is history: a thread was taken from its CPU, or the   *)
(* counter reset, in the middle of an update, or a reset met a reading.    *)
(***************************************************************************)
EXTENDS Integers, FiniteSetsExt, SequencesExt

CONSTANTS
  Thread,
  CPU,                 \* the numbers of the CPUs the process may run on
  ncpu,                \* g_get_num_processors(), how many these are
  Counter,             \* 1..N, numbered in the order they are registered in
  None,
  COUNTERS_PER_GROUP,
  CELLS_PER_INFO,
  MaxAdds              \* bound on the updates of all counters together

ConstantsType ==
  /\ CPU \subseteq Nat /\ ncpu \in Nat \ {0}
  /\ COUNTERS_PER_GROUP \in Nat \ {0} /\ CELLS_PER_INFO \in Nat \ {0}
  /\ Counter \subseteq Nat /\ None \notin Thread

VARIABLES
  running,     \* the thread each CPU runs
  at,          \* where each thread is
  counters,    \* arena->counters
  index,       \* which of the infos counter->values was set with
  info,        \* the counter in each CounterInfo that was written
  n_counters,  \* that of the header, which other processes read
  reglock,     \* the thread that has it
  values,      \* the value at each position of a cell, where it is not 0
  remote,      \* the counters another process finds, None when it has not looked
  added,       \* history: the updates of each counter that were stored
  disturbed

vars == <<running, at, counters, index, info, n_counters, reglock, values, remote, added,
          disturbed>>

-----------------------------------------------------------------------------
(* The layout: groups of infos followed by one cell for each CPU.          *)
CELLS_PER_HEADER == 2
CELLS_PER_GROUP == CELLS_PER_INFO * COUNTERS_PER_GROUP + ncpu

InfoOf(i) ==
  [cell |-> CELLS_PER_HEADER + CELLS_PER_GROUP * (i \div COUNTERS_PER_GROUP)
              + CELLS_PER_INFO * COUNTERS_PER_GROUP,
   position |-> i % COUNTERS_PER_GROUP]

(* counter->values[cpu].value, of the counter that was registered as i     *)
Place(where, cpu) == <<where.cell + cpu, where.position>>
Stored(place) == IF place \in DOMAIN values THEN values[place] ELSE 0
Store(place, n) ==
  values' = [p \in {q \in DOMAIN values \cup {place} : n # 0 \/ q # place} |->
               IF p = place THEN n ELSE values[p]]

Registered == {counters[i] : i \in DOMAIN counters}
Where(c) == InfoOf(index[c])

Idle == [at |-> "idle"]
Runs(t) == \E cpu \in CPU : running[cpu] = t
Move(t, to) == at' = [at EXCEPT ![t] = to]
Calls(c, what) == \E t \in Thread : at[t].at \in what /\ at[t].counter = c
Updating(t) == at[t].at \in {"load", "store"}

-----------------------------------------------------------------------------
(* dzl_counter_arena_get_default *)
Init ==
  /\ running = [cpu \in CPU |-> None]
  /\ at = [t \in Thread |-> Idle]
  /\ counters = <<>>
  /\ index = [c \in Counter |-> 0]
  /\ info = [i \in {} |-> None]
  /\ n_counters = 0
  /\ reglock = None
  /\ values = <<>>
  /\ remote = None
  /\ added = [c \in Counter |-> 0]
  /\ disturbed = FALSE

(* The scheduler gives a CPU to another thread, or to none.                *)
Schedule(cpu, t) ==
  /\ t # running[cpu] /\ ~(t # None /\ Runs(t))
  /\ running' = [running EXCEPT ![cpu] = t]
  /\ disturbed' = (disturbed \/ (running[cpu] # None /\ Updating(running[cpu])))
  /\ UNCHANGED <<at, counters, index, info, n_counters, reglock, values, remote, added>>

(* dzl_counter_arena_register, by the constructor of a module: the place   *)
(* is taken from the number of counters there are ...                      *)
Started == Registered \cup {at[t].counter : t \in {u \in Thread : at[u].at = "register"}}

Register_Unlocked(t, c) ==
  /\ Runs(t) /\ at[t] = Idle
  /\ c \notin Started /\ \A d \in Counter : d < c => d \in Started
  /\ Move(t, [at |-> "register", counter |-> c, index |-> Len(counters)])
  /\ UNCHANGED <<running, counters, index, info, n_counters, reglock, values, remote, added,
                 disturbed>>
Register(t, c) ==
  /\ Runs(t) /\ at[t] = Idle
  /\ c \notin Started /\ \A d \in Counter : d < c => d \in Started
  /\ reglock = None
  /\ reglock' = t
  /\ Move(t, [at |-> "register", counter |-> c, index |-> Len(counters)])
  /\ UNCHANGED <<running, counters, index, info, n_counters, values, remote, added, disturbed>>

(* ... filled in, with counter->values and the list ...                    *)
FillIn(t) ==
  /\ Runs(t) /\ at[t].at = "register"
  /\ info' = [i \in DOMAIN info \cup {at[t].index} |->
                IF i = at[t].index THEN at[t].counter ELSE info[i]]
  /\ index' = [index EXCEPT ![at[t].counter] = at[t].index]
  /\ counters' = Append(counters, at[t].counter)
  /\ Move(t, [at |-> "notify", counter |-> at[t].counter])
  /\ UNCHANGED <<running, n_counters, reglock, values, remote, added, disturbed>>

(* ... and published: "Now notify remote processes of the counter."        *)
Notify(t) ==
  /\ Runs(t) /\ at[t].at = "notify"
  /\ n_counters' = n_counters + 1
  /\ reglock' = None
  /\ Move(t, Idle)
  /\ UNCHANGED <<running, counters, index, info, values, remote, added, disturbed>>

-----------------------------------------------------------------------------
(* A loss is documented for a thread that is taken from its CPU in the     *)
(* middle of an update; what a reset makes of calls under way is not said. *)
Usable(c) == c \in Registered /\ ~Calls(c, {"notify"})   \* its constructor has returned
Disturbs(c, what) == disturbed' = (disturbed \/ Calls(c, what))

(* Readings and resets that follow one another show as much as those that  *)
(* overlap: one thread at a time is about either.                          *)
Alone == \A t \in Thread : at[t].at \notin {"get", "reset"}

TotalAdded == MapThenSumSet(LAMBDA c : added[c], Counter)

(* DZL_COUNTER_ADD of 1: values[dzl_get_current_cpu()].value += 1          *)
Add(t, c) ==
  /\ Runs(t) /\ at[t] = Idle
  /\ Usable(c) /\ remote = None
  /\ TotalAdded < MaxAdds
  /\ \E cpu \in CPU : running[cpu] = t /\ Move(t, [at |-> "load", counter |-> c, cpu |-> cpu])
  /\ Disturbs(c, {"reset"})
  /\ UNCHANGED <<running, counters, index, info, n_counters, reglock, values, remote, added>>

Load(t) ==
  /\ Runs(t) /\ at[t].at = "load"
  /\ Move(t, [at |-> "store", counter |-> at[t].counter, cpu |-> at[t].cpu,
              value |-> Stored(Place(Where(at[t].counter), at[t].cpu))])
  /\ UNCHANGED <<running, counters, index, info, n_counters, reglock, values, remote, added, disturbed>>

AddEnd(t) ==
  /\ Runs(t) /\ at[t].at = "store"
  /\ Store(Place(Where(at[t].counter), at[t].cpu), at[t].value + 1)
  /\ added' = [added EXCEPT ![at[t].counter] = @ + 1]
  /\ Move(t, Idle)
  /\ UNCHANGED <<running, counters, index, info, n_counters, reglock, remote, disturbed>>

(* dzl_counter_get reads the cells one by one.                             *)
Get(t, c) ==
  /\ Runs(t) /\ at[t] = Idle
  /\ Usable(c) /\ remote = None
  /\ Alone
  /\ Move(t, [at |-> "get", counter |-> c, next |-> 0, value |-> 0, before |-> added[c]])
  /\ UNCHANGED <<running, counters, index, info, n_counters, reglock, values, remote, added, disturbed>>

Read(t) ==
  /\ Runs(t) /\ at[t].at = "get"
  /\ IF at[t].next = ncpu THEN Move(t, Idle)
     ELSE Move(t, [at[t] EXCEPT !.next = @ + 1,
                     !.value = @ + Stored(Place(Where(at[t].counter), at[t].next))])
  /\ UNCHANGED <<running, counters, index, info, n_counters, reglock, values, remote, added, disturbed>>

(* dzl_counter_reset, likewise: the count starts anew with the call.       *)
Reset(t, c) ==
  /\ Runs(t) /\ at[t] = Idle
  /\ Usable(c) /\ remote = None
  /\ Alone
  /\ Disturbs(c, {"load", "store"})
  /\ added' = [added EXCEPT ![c] = 0]
  /\ Move(t, [at |-> "reset", counter |-> c, next |-> 0])
  /\ UNCHANGED <<running, counters, index, info, n_counters, reglock, values, remote>>

Clear(t) ==
  /\ Runs(t) /\ at[t].at = "reset"
  /\ IF at[t].next = ncpu THEN Move(t, Idle) /\ UNCHANGED values
     ELSE /\ Store(Place(Where(at[t].counter), at[t].next), 0)
          /\ Move(t, [at[t] EXCEPT !.next = @ + 1])
  /\ UNCHANGED <<running, counters, index, info, n_counters, reglock, remote, added, disturbed>>

-----------------------------------------------------------------------------
(* dzl_counter_arena_new_for_pid, in another process: the header is read   *)
(* once, the infos it speaks of, which never change, later.  Neither has   *)
(* to do with updates, so it looks before there are any.                   *)
OpenRemote ==
  /\ remote = None
  /\ \A t \in Thread : at[t].at \in {"idle", "register", "notify"}
  /\ TotalAdded = 0
  /\ remote' = [n |-> n_counters, found |-> <<>>]
  /\ UNCHANGED <<running, at, counters, index, info, n_counters, reglock, values, added,
                 disturbed>>

Discover ==
  /\ remote # None /\ Len(remote.found) < remote.n
  /\ remote' = [remote EXCEPT !.found =
                  [i \in 1..remote.n |-> [counter |-> IF i - 1 \in DOMAIN info THEN info[i - 1] ELSE None,
                                          place |-> InfoOf(i - 1)]]]
  /\ UNCHANGED <<running, at, counters, index, info, n_counters, reglock, values, added,
                 disturbed>>

(* What follows a disturbance is not followed.                             *)
Next ==
  /\ ~disturbed
  /\ \/ \E cpu \in CPU, t \in Thread \cup {None} : Schedule(cpu, t)
     \/ \E t \in Thread :
          \/ FillIn(t) \/ Notify(t) \/ Load(t) \/ AddEnd(t) \/ Read(t) \/ Clear(t)
          \/ \E c \in Counter : Register(t, c) \/ Add(t, c) \/ Get(t, c) \/ Reset(t, c)
     \/ OpenRemote \/ Discover

Spec == Init /\ [][Next]_vars

-----------------------------------------------------------------------------
(* Properties *)

At ==
  [at : {"idle"}]
    \cup [at : {"register"}, counter : Counter, index : Nat]
    \cup [at : {"notify"}, counter : Counter]
    \cup [at : {"load"}, counter : Counter, cpu : CPU]
    \cup [at : {"store"}, counter : Counter, cpu : CPU, value : Nat]
    \cup [at : {"get"}, counter : Counter, next : 0..ncpu, value : Nat, before : Nat]
    \cup [at : {"reset"}, counter : Counter, next : 0..ncpu]

TypeOK ==
  /\ running \in [CPU -> Thread \cup {None}]
  /\ at \in [Thread -> At]
  /\ counters \in Seq(Counter) /\ IsInjective(counters)
  /\ index \in [Counter -> Nat]
  /\ n_counters \in 0..Len(counters)
  /\ reglock \in Thread \cup {None}
  /\ \A place \in DOMAIN values : values[place] \in Nat \ {0}
  /\ added \in [Counter -> Nat]
  /\ disturbed \in BOOLEAN

(* "Adds @Count to @Identifier", with a loss only when a thread is swapped *)
(* in the middle: the cells of a counter together hold what was added, and *)
(* what a reading returns lies between what had been added when it began   *)
(* and what has been by its end.                                           *)
Cells(c) == [cpu \in 0..(ncpu - 1) |-> Stored(Place(Where(c), cpu))]
SumTo(cells) ==
  LET sum[n \in 0..ncpu] == IF n = 0 THEN 0 ELSE sum[n - 1] + cells[n - 1] IN sum
Held(c) == SumTo(Cells(c))[ncpu]

CountsWhatWasAdded ==
  ~disturbed =>
    /\ \A c \in Registered : Calls(c, {"reset"}) \/ Held(c) = added[c]
    /\ \A t \in Thread :
         at[t].at = "get" /\ at[t].next = ncpu =>
           at[t].value \in at[t].before..added[at[t].counter]

(* What another process finds are counters that are registered, each at    *)
(* the place its own process counts it at.                                 *)
RemoteFindsCounters ==
  remote # None =>
    \A i \in DOMAIN remote.found :
      /\ i <= Len(counters)
      /\ remote.found[i] = [counter |-> counters[i], place |-> Where(counters[i])]

(* Both: what the counters tell their own process and others.              *)
CountersAreRight == CountsWhatWasAdded /\ RemoteFindsCounters
=============================================================================

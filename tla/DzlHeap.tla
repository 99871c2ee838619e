------------------------------ MODULE DzlHeap ------------------------------
(***************************************************************************)
(* util/dzl-heap.c: a max-heap kept in a growable array.  The sift loops   *)
(* are modelled one iteration at a time, so that their loop invariants     *)
(* can be stated and proved for heaps of every size.                       *)
(*                                                                         *)
(* The array is a function from its live slots, 0-based as in C.  An       *)
(* element is a name and the caller's GCompareFunc the order of Prio:      *)
(* compare(a, b) has the sign of Prio[a] - Prio[b].                        *)
(***************************************************************************)
EXTENDS Integers, FiniteSets

CONSTANTS
  Elem,           \* the values callers store
  Prio,           \* their order: a function Elem -> Int
  MIN_HEAP_SIZE,  \* smallest allocation, in elements
  MaxLen          \* bound on the number of elements held

ASSUME PrioType == Prio \in [Elem -> Int]
ASSUME MinSizeType == MIN_HEAP_SIZE \in Nat \ {0}
ASSUME MaxLenType == MaxLen \in Nat

VARIABLES
  data,           \* the slots in use, [0..n-1 -> Elem]
  len,            \* real->len
  allocated_len,  \* real->allocated_len
  loop,           \* which sift loop is running, "none" between calls
  ipos,           \* the position that loop is repairing
  index_,          \* the index_ argument of extract_index
  result          \* what the last extraction handed to its caller

vars == <<data, len, allocated_len, loop, ipos, index_, result>>

Abstract == INSTANCE PriorityQueue
              WITH held <- [e \in Elem |->
                              Cardinality({i \in DOMAIN data : data[i] = e})],
                   taken <- result

-----------------------------------------------------------------------------
(* Index arithmetic.  heap_parent(0) is (0 - 1) / 2, which C truncates to  *)
(* 0 and TLA+'s \div would round down to -1.                               *)

heap_parent(npos) == IF npos = 0 THEN 0 ELSE (npos - 1) \div 2
heap_left(npos)   == npos * 2 + 1
heap_right(npos)  == npos * 2 + 2

Above_OrEqual(a, b) == Prio[data[a]] >= Prio[data[b]]
Above(a, b) == Prio[data[a]] > Prio[data[b]]   \* heap_compare (real, a, b) > 0

(* The slot the loops that move down continue with: the larger child when *)
(* one is larger than ipos, ipos itself when none is.                     *)
LargestOf_LeftOnly(n) ==
  LET lpos == heap_left(ipos)
  IN  IF lpos < n /\ Above(lpos, ipos) THEN lpos ELSE ipos
LargestOf(n) ==
  LET lpos == heap_left(ipos)
      rpos == heap_right(ipos)
      mpos == IF lpos < n /\ Above(lpos, ipos) THEN lpos ELSE ipos
  IN  IF rpos < n /\ Above(rpos, mpos) THEN rpos ELSE mpos

Swap(a, b) == data' = [data EXCEPT ![a] = data[b], ![b] = data[a]]

(* Shrinking happens once fewer than half of the allocation is used. *)
Larger(a, b) == IF a >= b THEN a ELSE b
Grown == Larger(MIN_HEAP_SIZE, allocated_len * 2)
Shrunk_OneTooFar(n) ==
  IF n > MIN_HEAP_SIZE /\ allocated_len \div 2 >= n - 1
  THEN Larger(MIN_HEAP_SIZE, allocated_len \div 2)
  ELSE allocated_len
Shrunk(n) ==
  IF n > MIN_HEAP_SIZE /\ allocated_len \div 2 >= n
  THEN Larger(MIN_HEAP_SIZE, allocated_len \div 2)
  ELSE allocated_len

-----------------------------------------------------------------------------
(* dzl_heap_new *)
Init ==
  /\ data = [i \in {} |-> 0]
  /\ len = 0
  /\ allocated_len = 0
  /\ loop = "none"
  /\ ipos = 0
  /\ index_ = 0
  /\ result = Abstract!Nothing

Return == loop' = "none" /\ ipos' = 0 /\ index_' = 0

(* dzl_heap_insert_val: the element goes behind the last one ...          *)
(* dzl_heap_insert_vals is this call once per element.                    *)
InsertVal(e) ==
  /\ loop = "none"
  /\ len < MaxLen
  /\ allocated_len' = IF len = allocated_len THEN Grown ELSE allocated_len
  /\ data' = [i \in 0..len |-> IF i = len THEN e ELSE data[i]]
  /\ loop' = "insert"
  /\ ipos' = len
  /\ result' = Abstract!Nothing
  /\ UNCHANGED <<len, index_>>

(* ... and moves up while it is above its parent.  len counts it last.    *)
InsertStep ==
  /\ loop = "insert"
  /\ ipos > 0 /\ Above(ipos, heap_parent(ipos))
  /\ Swap(ipos, heap_parent(ipos))
  /\ ipos' = heap_parent(ipos)
  /\ UNCHANGED <<len, allocated_len, loop, index_, result>>

InsertEnd_Uncounted ==
  /\ loop = "insert"
  /\ ~(ipos > 0 /\ Above(ipos, heap_parent(ipos)))
  /\ Return
  /\ UNCHANGED <<data, len, allocated_len, result>>
InsertEnd ==
  /\ loop = "insert"
  /\ ~(ipos > 0 /\ Above(ipos, heap_parent(ipos)))
  /\ len' = len + 1
  /\ Return
  /\ UNCHANGED <<data, allocated_len, result>>

(* The array without its last element, which takes the place of slot i.   *)
MoveLastTo_Forgotten(i) == data' = [k \in 0..len-2 |-> data[k + 1]]
MoveLastTo(i) ==
  data' = [k \in 0..len-2 |-> IF k = i THEN data[len - 1] ELSE data[k]]

(* dzl_heap_extract: takes the head; the last element sinks from its place. *)
Extract ==
  /\ loop = "none"
  /\ len > 0
  /\ result' = Abstract!Taken("extract", data[0])
  /\ len' = len - 1
  /\ MoveLastTo(0)
  /\ IF len - 1 > 0
     THEN loop' = "down" /\ ipos' = 0 /\ UNCHANGED <<allocated_len, index_>>
     ELSE Return /\ allocated_len' = Shrunk(len - 1)

DownStep ==
  /\ loop = "down"
  /\ LargestOf(len) # ipos
  /\ Swap(LargestOf(len), ipos)
  /\ ipos' = LargestOf(len)
  /\ UNCHANGED <<len, allocated_len, loop, index_, result>>

DownEnd ==
  /\ loop = "down"
  /\ LargestOf(len) = ipos
  /\ allocated_len' = Shrunk(len)
  /\ Return
  /\ UNCHANGED <<data, len, result>>

(* dzl_heap_extract_index: the last element takes the place of slot i, and *)
(* may have to move either way from there.                                 *)
ExtractIndex(i) ==
  /\ loop = "none"
  /\ i < len
  /\ result' = Abstract!Taken("extract_index", data[i])
  /\ len' = len - 1
  /\ MoveLastTo(i)
  /\ IF len - 1 > 0 /\ i # len - 1
     THEN loop' = "up" /\ ipos' = i /\ index_' = i /\ UNCHANGED allocated_len
     ELSE Return /\ allocated_len' = Shrunk(len - 1)

UpStep ==
  /\ loop = "up"
  /\ Above(ipos, heap_parent(ipos))
  /\ Swap(ipos, heap_parent(ipos))
  /\ ipos' = heap_parent(ipos)
  /\ UNCHANGED <<len, allocated_len, loop, index_, result>>

(* Only an element that did not move up may have to move down. *)
UpEnd_NeverDown ==
  /\ loop = "up"
  /\ ~Above(ipos, heap_parent(ipos))
  /\ Return /\ allocated_len' = Shrunk(len)
  /\ UNCHANGED <<data, len, result>>

UpEnd ==
  /\ loop = "up"
  /\ ~Above(ipos, heap_parent(ipos))
  /\ IF ipos = index_
     THEN loop' = "down" /\ UNCHANGED <<ipos, allocated_len, index_>>
     ELSE Return /\ allocated_len' = Shrunk(len)
  /\ UNCHANGED <<data, len, result>>

Next ==
  \/ \E e \in Elem : InsertVal(e)
  \/ InsertStep \/ InsertEnd
  \/ Extract
  \/ DownStep \/ DownEnd
  \/ \E i \in 0..len-1 : ExtractIndex(i)
  \/ UpStep \/ UpEnd

Spec == Init /\ [][Next]_vars

(* The loops of one call run to their end: the code has no way out. *)
FairSpec == Spec /\ WF_vars(InsertStep \/ InsertEnd \/ DownStep \/ DownEnd
                              \/ UpStep \/ UpEnd)

-----------------------------------------------------------------------------
(* Properties *)

(* The slots in use: dzl_heap_real_insert_val() counts its element last. *)
Loops == {"none", "insert", "down", "up"}
Uncounted == [l \in Loops |-> IF l = "insert" THEN 1 ELSE 0]
Live == len + Uncounted[loop]

TypeOK ==
  /\ len \in Nat
  /\ allocated_len \in Nat
  /\ loop \in Loops
  /\ data \in [0..Live-1 -> Elem]
  /\ ipos \in Nat /\ (loop # "none" => ipos < Live)
  /\ index_ \in Nat
  /\ result \in {Abstract!Nothing} \cup
                [how : {"extract", "extract_index"}, elem : Elem]

(* The loop invariant: every edge from a parent to its child is in order   *)
(* except those at the slot a loop is still repairing, and its children    *)
(* are in order with its parent, so that moving it away repairs them.      *)
Ordered(p, c) == Prio[data[p]] >= Prio[data[c]]

Unrepaired(i, running, at, start) ==
  \/ running = "insert" /\ i = at
  \/ running = "down" /\ heap_parent(i) = at
  \/ running = "up" /\ (i = at \/ (heap_parent(i) = at /\ at = start))

HeapOrder ==
  \A i \in 1..Live-1 :
    ~Unrepaired(i, loop, ipos, index_) => Ordered(heap_parent(i), i)

Bypass ==
  loop # "none" /\ ipos > 0 =>
    \A i \in 1..Live-1 : heap_parent(i) = ipos => Ordered(heap_parent(ipos), i)

LoopInvariant == HeapOrder /\ Bypass

(* dzl_heap_peek() after every call, and dzl_heap_extract() at its start,  *)
(* read slot 0 as the element of highest priority: none is above it.       *)
HeadIsHighest ==
  loop = "none" => \A i \in 0..len-1 : Prio[data[0]] >= Prio[data[i]]

(* No call writes behind the allocation, and shrinking never cuts off      *)
(* elements in use (what dzl_heap_real_shrink() asserts).                  *)
FitsAllocation == Live <= allocated_len \/ Live = 0

(* Every call is a step of the abstract queue: no element is lost, none is *)
(* duplicated by the moves, and extract takes one of the highest.          *)
ImplementsQueue == Abstract!Spec

(* The sift loops end: a call that was started returns. *)
CallsReturn == loop # "none" ~> loop = "none"
=============================================================================

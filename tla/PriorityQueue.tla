--------------------------- MODULE PriorityQueue ---------------------------
(***************************************************************************)
(* What DzlHeap promises (the SECTION comment of util/dzl-heap.c): a       *)
(* collection of elements from which dzl_heap_extract() always takes one   *)
(* of the highest priority, and dzl_heap_extract_index() an arbitrary one. *)
(* No array, no index: only how many copies of each element are held.      *)
(***************************************************************************)
EXTENDS Integers

CONSTANTS
  Elem,    \* what can be stored
  Prio     \* Prio[e]: the place of e in the order of the GCompareFunc

VARIABLES
  held,    \* held[e]: how many copies of e the queue holds
  taken    \* what the last call extracted, and how

Nothing == [how |-> "nothing"]
Taken(how, e) == [how |-> how, elem |-> e]

Init ==
  /\ held = [e \in Elem |-> 0]
  /\ taken = Nothing

Insert(e) ==
  /\ held' = [held EXCEPT ![e] = @ + 1]
  /\ taken' = Nothing

Remove(e, how) ==
  /\ held[e] > 0
  /\ held' = [held EXCEPT ![e] = @ - 1]
  /\ taken' = Taken(how, e)

ExtractHighest ==
  \E e \in Elem :
    /\ \A f \in Elem : held[f] > 0 => Prio[f] <= Prio[e]
    /\ Remove(e, "extract")

Next ==
  \/ \E e \in Elem : Insert(e)
  \/ \E e \in Elem : Remove(e, "extract_index")
  \/ ExtractHighest

Spec == Init /\ [][Next]_<<held, taken>>
=============================================================================

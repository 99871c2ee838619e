-------------------------- MODULE CoalescedFetch --------------------------
(***************************************************************************)
(* What DzlTaskCache promises those who ask it for a key: requests for one *)
(* key share one fetch, the outcome of a fetch goes to everyone who asked  *)
(* before it completed and to no one who asks afterwards, and a fetch is   *)
(* given up only while nobody waits for it.  No queues, no clock, no main  *)
(* loop.                                                                   *)
(***************************************************************************)
CONSTANTS
  Key,       \* what can be asked for
  Request    \* the calls that can be outstanding

VARIABLES
  request,   \* where each request is: not made, waiting, or answered
  about,     \* the key it is for
  outcome,   \* what it was, or is about to be, answered
  withdrawn, \* the requests whose caller no longer wants them
  fetch,     \* the fetch of each key
  known      \* the keys whose value is held

Outcomes == {"value", "error", "cancelled"}

Init ==
  /\ request = [r \in Request |-> "free"]
  /\ about \in [Request -> Key]
  /\ outcome = [r \in Request |-> "none"]
  /\ withdrawn = {}
  /\ fetch = [k \in Key |-> "none"]
  /\ known = {}

(* A request may be made by a caller that has already given up on it. *)
Made(r, k, status, what) ==
  /\ request[r] = "free"
  /\ request' = [request EXCEPT ![r] = status]
  /\ about' = [about EXCEPT ![r] = k]
  /\ outcome' = [outcome EXCEPT ![r] = what]
  /\ withdrawn' \in {withdrawn, withdrawn \cup {r}}

AnswerFromCache(r, k) ==
  /\ k \in known
  /\ Made(r, k, "answered", "value")
  /\ UNCHANGED <<fetch, known>>

Ask(r, k) ==
  /\ Made(r, k, "waiting", "none")
  /\ fetch' = [fetch EXCEPT ![k] = IF @ = "none" THEN "wanted" ELSE @]
  /\ UNCHANGED known

Waiting(k) == {r \in Request : request[r] = "waiting" /\ about[r] = k /\ outcome[r] = "none"}

Complete(k, what) ==
  /\ fetch[k] # "none"
  /\ fetch[k] = "abandoned" => what = "cancelled"
  /\ what = "cancelled" => fetch[k] = "abandoned"
  /\ fetch' = [fetch EXCEPT ![k] = "none"]
  /\ outcome' = [r \in Request |-> IF r \in Waiting(k) THEN what ELSE outcome[r]]
  /\ known' = IF what = "value" THEN known \cup {k} ELSE known
  /\ UNCHANGED <<request, about, withdrawn>>

Answer(r) ==
  /\ request[r] = "waiting" /\ outcome[r] # "none"
  /\ request' = [request EXCEPT ![r] = "answered"]
  /\ UNCHANGED <<about, outcome, withdrawn, fetch, known>>

AnswerWithdrawn(r) ==
  /\ request[r] = "waiting" /\ outcome[r] = "none" /\ r \in withdrawn
  /\ request' = [request EXCEPT ![r] = "answered"]
  /\ outcome' = [outcome EXCEPT ![r] = "cancelled"]
  /\ UNCHANGED <<about, withdrawn, fetch, known>>

Abandon(k) ==
  /\ fetch[k] = "wanted"
  /\ Waiting(k) = {}
  /\ fetch' = [fetch EXCEPT ![k] = "abandoned"]
  /\ UNCHANGED <<request, about, outcome, withdrawn, known>>

Withdraw ==
  /\ withdrawn' \in SUBSET Request
  /\ withdrawn \subseteq withdrawn'
  /\ UNCHANGED <<request, about, outcome, fetch, known>>

Forget ==
  /\ known' \in SUBSET known
  /\ UNCHANGED <<request, about, outcome, withdrawn, fetch>>

Release(r) ==
  /\ request[r] = "answered"
  /\ request' = [request EXCEPT ![r] = "free"]
  /\ outcome' = [outcome EXCEPT ![r] = "none"]
  /\ withdrawn' = withdrawn \ {r}
  /\ UNCHANGED <<about, fetch, known>>

Next ==
  \/ \E r \in Request, k \in Key : AnswerFromCache(r, k) \/ Ask(r, k)
  \/ \E k \in Key, what \in Outcomes : Complete(k, what)
  \/ \E r \in Request : Answer(r) \/ AnswerWithdrawn(r) \/ Release(r)
  \/ \E k \in Key : Abandon(k)
  \/ Withdraw
  \/ Forget

Spec == Init /\ [][Next]_<<request, about, outcome, withdrawn, fetch, known>>
=============================================================================

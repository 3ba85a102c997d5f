------------------------------ MODULE SlotPool ------------------------------
(***************************************************************************)
(* What a bulkhead promises: a pool of MaxConcurrentRequests slots for     *)
(* each backend.  A request takes a free slot, gives its slot back, or     *)
(* passes it on to another request.  A slot may also be lost for good; the *)
(* pool then goes on with one slot less.                                   *)
(***************************************************************************)
EXTENDS Integers, FiniteSets

CONSTANTS Requests, Backends, MaxConcurrentRequests

VARIABLES
  users,     \* users[b]: the requests that have a slot of b
  lost       \* lost[b]: the slots of b that are lost

Init ==
  /\ users = [b \in Backends |-> {}]
  /\ lost = [b \in Backends |-> 0]

HasSlot(r) == \E b \in Backends : r \in users[b]

Take(r, b) ==
  /\ ~ HasSlot(r)
  /\ Cardinality(users[b]) + lost[b] < MaxConcurrentRequests
  /\ users' = [users EXCEPT ![b] = @ \cup {r}]
  /\ UNCHANGED lost

GiveBack(r, b) ==
  /\ r \in users[b]
  /\ users' = [users EXCEPT ![b] = @ \ {r}]
  /\ UNCHANGED lost

PassOn(r, s, b) ==
  /\ r \in users[b]
  /\ ~ HasSlot(s)
  /\ users' = [users EXCEPT ![b] = (@ \ {r}) \cup {s}]
  /\ UNCHANGED lost

Lose(r, b) ==
  /\ r \in users[b]
  /\ users' = [users EXCEPT ![b] = @ \ {r}]
  /\ lost' = [lost EXCEPT ![b] = @ + 1]

Next ==
  \E r \in Requests, b \in Backends :
    \/ Take(r, b)
    \/ GiveBack(r, b)
    \/ \E s \in Requests : PassOn(r, s, b)
    \/ Lose(r, b)

Spec == Init /\ [][Next]_<<users, lost>>
=============================================================================

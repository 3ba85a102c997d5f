--------------------------- MODULE Bulkhead_proofs ---------------------------
(***************************************************************************)
(* Proofs about Bulkhead, for every finite set of requests, every set of   *)
(* backends and every capacity: type correctness, the accounting of the    *)
(* semaphore, the concurrency limit, the place of parked senders, and that *)
(* the bulkhead implements SlotPool.                                       *)
(*                                                                         *)
(* The accounting is not inductive by itself: that a hand-over moves a     *)
(* slot from one request to exactly one other needs to know that a parked  *)
(* sender is parked once, and that an entry of the queue, or in the hands  *)
(* of a Release, belongs to a request that waits at that bulkhead without  *)
(* a grant and has no second entry.  Structure says this.                  *)
(***************************************************************************)
EXTENDS Bulkhead, FiniteSetTheorems, TLAPS

InsideOrIdle ==
  \A r \in Requests : pc[r] = "idle" <=> at[r] = None

GrantsWhileWaiting ==
  \A r \in Requests : response[r] => pc[r] \in {"queued", "waiting"}

\* Every request in the list of parked senders is parked there, once.
ParkedKnown ==
  \A b \in Backends : \A i \in 1..Len(sendq[b]) :
    /\ pc[sendq[b][i]] = "blocked"
    /\ at[sendq[b][i]] = b
    /\ \A j \in 1..Len(sendq[b]) : sendq[b][j] = sendq[b][i] => j = i

WaitsAt(q, b) == /\ pc[q] \in {"queued", "waiting"}
                 /\ at[q] = b
                 /\ ~ response[q]

\* A live entry of a queue has its waiter, and is the waiter's only entry.
QueueKnown ==
  \A b \in Backends : \A i \in 1..Len(queue[b]) :
    queue[b][i] # None =>
      /\ WaitsAt(queue[b][i], b)
      /\ \A j \in 1..Len(queue[b]) : queue[b][j] = queue[b][i] => j = i
      /\ \A s \in Requests : popped[s] # queue[b][i]

\* The same of a live entry in the hands of a Release.
PoppedKnown ==
  \A s \in Requests :
    popped[s] # None =>
      /\ pc[s] \in {"refill", "blocked", "refilled", "granting"}
      /\ WaitsAt(popped[s], at[s])
      /\ \A t \in Requests : popped[t] = popped[s] => t = s

Structure == /\ InsideOrIdle
             /\ GrantsWhileWaiting
             /\ ParkedKnown
             /\ QueueKnown
             /\ PoppedKnown

\* The inductive invariant.
Inv == TypeOK /\ Structure /\ SlotsAccounted

----------------------------------------------------------------------------
(* Abandoned relabels entries and changes nothing else about them.         *)
LEMMA AbandonedEntries ==
  ASSUME NEW s \in Seq(Entry), NEW r \in Requests
  PROVE  /\ Abandoned(s, r) \in Seq(Entry)
         /\ Len(Abandoned(s, r)) = Len(s)
         /\ \A i \in 1..Len(s) :
              Abandoned(s, r)[i] = IF s[i] = r THEN None ELSE s[i]
<1>1. DOMAIN s = 1..Len(s) /\ Len(s) \in Nat
  OBVIOUS
<1>2. \A i \in 1..Len(s) : s[i] \in Entry
  OBVIOUS
<1>3. Abandoned(s, r) = [i \in 1..Len(s) |-> IF s[i] = r THEN None ELSE s[i]]
  BY <1>1 DEF Abandoned
<1>4. \A i \in 1..Len(s) : (IF s[i] = r THEN None ELSE s[i]) \in Entry
  BY <1>2 DEF Entry
<1> QED
  BY <1>1, <1>3, <1>4

(* The same of the map popped.                                             *)
LEMMA AbandonedPopped ==
  ASSUME popped \in [Requests -> Entry], NEW r \in Requests
  PROVE  /\ Abandoned(popped, r) \in [Requests -> Entry]
         /\ \A s \in Requests :
              Abandoned(popped, r)[s] =
                IF popped[s] = r THEN None ELSE popped[s]
BY DEF Abandoned, Entry

(* A request that is not idle is at some bulkhead.                         *)
LEMMA WhereInside ==
  ASSUME TypeOK, InsideOrIdle, NEW r \in Requests, pc[r] # "idle"
  PROVE  at[r] \in Backends
BY DEF TypeOK, InsideOrIdle

(* The first parked sender: who it is, and where.                          *)
LEMMA FirstParked ==
  ASSUME TypeOK, ParkedKnown, NEW b \in Backends, sendq[b] # <<>>
  PROVE  /\ Head(sendq[b]) \in Requests
         /\ Head(sendq[b]) = sendq[b][1]
         /\ pc[Head(sendq[b])] = "blocked"
         /\ at[Head(sendq[b])] = b
         /\ \A i \in 2..Len(sendq[b]) : sendq[b][i] # Head(sendq[b])
<1>1. sendq[b] \in Seq(Requests)
  BY DEF TypeOK
<1>2. 1 \in 1..Len(sendq[b]) /\ Head(sendq[b]) = sendq[b][1]
      /\ Head(sendq[b]) \in Requests
  BY <1>1
<1>3. \A i \in 2..Len(sendq[b]) : i \in 1..Len(sendq[b]) /\ i # 1
  BY <1>1
<1> QED
  BY <1>2, <1>3 DEF ParkedKnown

----------------------------------------------------------------------------

(* Every step keeps the types.                                             *)
LEMMA TypeStep ==
  ASSUME TypeOK, Structure, [Next]_vars
  PROVE  TypeOK'
<1>0. InsideOrIdle /\ ParkedKnown
  BY DEF Structure
<1>1. ASSUME NEW r \in Requests, NEW b \in Backends, Acquire(r, b)
      PROVE  TypeOK'
  BY <1>1, BulkheadAssumption DEF TypeOK, Acquire, Goto, Locations
<1>2. ASSUME NEW r \in Requests, NEW b \in Backends, FindFull(r, b)
      PROVE  TypeOK'
  BY <1>2, BulkheadAssumption DEF TypeOK, FindFull, Goto, Locations
<1>3. ASSUME NEW r \in Requests, CountActive(r)
      PROVE  TypeOK'
  <2>1. at[r] \in Backends
    BY <1>0, <1>3, WhereInside DEF CountActive
  <2> QED
    BY <1>3, <2>1, BulkheadAssumption
       DEF TypeOK, CountActive, Goto, Exit, Locations, Entry
<1>4. ASSUME NEW r \in Requests, Enqueue(r)
      PROVE  TypeOK'
  <2>1. at[r] \in Backends
    BY <1>0, <1>4, WhereInside DEF Enqueue
  <2> QED
    BY <1>4, <2>1, BulkheadAssumption
       DEF TypeOK, Enqueue, Goto, Exit, Locations, Entry
<1>5. ASSUME NEW r \in Requests, Reject(r)
      PROVE  TypeOK'
  <2>1. at[r] \in Backends
    BY <1>0, <1>5, WhereInside DEF Reject
  <2> QED
    BY <1>5, <2>1, BulkheadAssumption
       DEF TypeOK, Reject, Goto, Exit, Locations, Entry
<1>6. ASSUME NEW r \in Requests, CountQueued(r)
      PROVE  TypeOK'
  <2>1. at[r] \in Backends
    BY <1>0, <1>6, WhereInside DEF CountQueued
  <2> QED
    BY <1>6, <2>1, BulkheadAssumption
       DEF TypeOK, CountQueued, Goto, Exit, Locations, Entry
<1>7. ASSUME NEW r \in Requests, ReceiveGrant(r)
      PROVE  TypeOK'
  <2>1. at[r] \in Backends
    BY <1>0, <1>7, WhereInside DEF ReceiveGrant
  <2> QED
    BY <1>7, <2>1, BulkheadAssumption
       DEF TypeOK, ReceiveGrant, Goto, Exit, Locations, Entry
<1>8. ASSUME NEW r \in Requests, GiveUp(r)
      PROVE  TypeOK'
  <2>1. at[r] \in Backends
    BY <1>0, <1>8, WhereInside DEF GiveUp
  <2>2. queue' \in [Backends -> Seq(Entry)]
    <3>1. Abandoned(queue[at[r]], r) \in Seq(Entry)
      BY <2>1, AbandonedEntries DEF TypeOK
    <3> QED
      BY <1>8, <2>1, <3>1 DEF TypeOK, GiveUp
  <2>3. popped' \in [Requests -> Entry]
    BY <1>8, AbandonedPopped DEF TypeOK, GiveUp
  <2> QED
    BY <1>8, <2>1, <2>2, <2>3 DEF TypeOK, GiveUp, Goto, Exit, Locations
<1>9. ASSUME NEW r \in Requests, GiveUpGranted(r)
      PROVE  TypeOK'
  <2>1. at[r] \in Backends
    BY <1>0, <1>9, WhereInside DEF GiveUpGranted
  <2> QED
    BY <1>9, <2>1, BulkheadAssumption
       DEF TypeOK, GiveUpGranted, Goto, Exit, Locations, Entry
<1>10. ASSUME NEW r \in Requests, FreeSlot(r)
      PROVE  TypeOK'
  <2>1. at[r] \in Backends
    BY <1>0, <1>10, WhereInside DEF FreeSlot
  <2> QED
    BY <1>10, <2>1, BulkheadAssumption
       DEF TypeOK, FreeSlot, Goto, Exit, Locations, Entry
<1>11. ASSUME NEW r \in Requests, HandOver(r)
      PROVE  TypeOK'
  <2>1. at[r] \in Backends
    BY <1>0, <1>11, WhereInside DEF HandOver
  <2>2. sendq' \in [Backends -> Seq(Requests)]
    BY <1>11, <2>1 DEF TypeOK, HandOver
  <2>3. pc' \in [Requests -> Locations]
    BY <1>11 DEF TypeOK, HandOver, Locations
  <2> QED
    BY <1>11, <2>2, <2>3 DEF TypeOK, HandOver
<1>12. ASSUME NEW r \in Requests, CountFreed(r)
      PROVE  TypeOK'
  <2>1. at[r] \in Backends
    BY <1>0, <1>12, WhereInside DEF CountFreed
  <2> QED
    BY <1>12, <2>1, BulkheadAssumption
       DEF TypeOK, CountFreed, Goto, Exit, Locations, Entry
<1>13. ASSUME NEW r \in Requests, PopQueue(r)
      PROVE  TypeOK'
  <2>1. at[r] \in Backends
    BY <1>0, <1>13, WhereInside DEF PopQueue
  <2> QED
    BY <1>13, <2>1, BulkheadAssumption
       DEF TypeOK, PopQueue, Goto, Exit, Locations, Entry
<1>14. ASSUME NEW r \in Requests, FindQueueEmpty(r)
      PROVE  TypeOK'
  <2>1. at[r] \in Backends
    BY <1>0, <1>14, WhereInside DEF FindQueueEmpty
  <2> QED
    BY <1>14, <2>1, BulkheadAssumption
       DEF TypeOK, FindQueueEmpty, Goto, Exit, Locations, Entry
<1>15. ASSUME NEW r \in Requests, Refill(r)
      PROVE  TypeOK'
  <2>1. at[r] \in Backends
    BY <1>0, <1>15, WhereInside DEF Refill
  <2> QED
    BY <1>15, <2>1, BulkheadAssumption
       DEF TypeOK, Refill, Goto, Exit, Locations, Entry
<1>16. ASSUME NEW r \in Requests, Park(r)
      PROVE  TypeOK'
  <2>1. at[r] \in Backends
    BY <1>0, <1>16, WhereInside DEF Park
  <2> QED
    BY <1>16, <2>1, BulkheadAssumption
       DEF TypeOK, Park, Goto, Exit, Locations, Entry
<1>17. ASSUME NEW r \in Requests, CountGrant(r)
      PROVE  TypeOK'
  <2>1. at[r] \in Backends
    BY <1>0, <1>17, WhereInside DEF CountGrant
  <2> QED
    BY <1>17, <2>1, BulkheadAssumption
       DEF TypeOK, CountGrant, Goto, Exit, Locations, Entry
<1>18. ASSUME NEW r \in Requests, SendGrant(r)
      PROVE  TypeOK'
  <2>1. at[r] \in Backends
    BY <1>0, <1>18, WhereInside DEF SendGrant
  <2> QED
    BY <1>18, <2>1, BulkheadAssumption
       DEF TypeOK, SendGrant, Goto, Exit, Locations, Entry
<1>19. ASSUME NEW r \in Requests, GrantNobody(r)
      PROVE  TypeOK'
  <2>1. at[r] \in Backends
    BY <1>0, <1>19, WhereInside DEF GrantNobody
  <2> QED
    BY <1>19, <2>1, BulkheadAssumption
       DEF TypeOK, GrantNobody, Goto, Exit, Locations, Entry
<1>20. CASE UNCHANGED vars
  BY <1>20 DEF vars, TypeOK
<1> QED
  BY <1>1, <1>2, <1>3, <1>4, <1>5, <1>6, <1>7, <1>8, <1>9, <1>10,
     <1>11, <1>12, <1>13, <1>14, <1>15, <1>16, <1>17, <1>18, <1>19, <1>20
     DEF Next, TryAcquireStep, StartRelease, ReleaseStep

(* Every step keeps the structure of the queues.                           *)
LEMMA StructureStep ==
  ASSUME TypeOK, Structure, [Next]_vars
  PROVE  Structure'
<1> USE DEF WaitsAt
<1>1. ASSUME NEW r \in Requests, NEW b \in Backends, Acquire(r, b)
      PROVE  Structure'
  <2>1. InsideOrIdle'
    BY <1>1, BulkheadAssumption
       DEF TypeOK, Structure, InsideOrIdle, Acquire, Goto, Entry
  <2>2. GrantsWhileWaiting'
    BY <1>1, BulkheadAssumption
       DEF TypeOK, Structure, GrantsWhileWaiting, Acquire, Goto, Entry
  <2>3. ParkedKnown'
    BY <1>1, BulkheadAssumption
       DEF TypeOK, Structure, ParkedKnown, Acquire, Goto, Entry
  <2>4. QueueKnown'
    BY <1>1, BulkheadAssumption
       DEF TypeOK, Structure, QueueKnown, Acquire, Goto, Entry
  <2>5. PoppedKnown'
    BY <1>1, BulkheadAssumption
       DEF TypeOK, Structure, PoppedKnown, Acquire, Goto, Entry
  <2> QED
    BY <2>1, <2>2, <2>3, <2>4, <2>5 DEF Structure
<1>2. ASSUME NEW r \in Requests, NEW b \in Backends, FindFull(r, b)
      PROVE  Structure'
  <2>1. InsideOrIdle'
    BY <1>2, BulkheadAssumption
       DEF TypeOK, Structure, InsideOrIdle, FindFull, Goto, Entry
  <2>2. GrantsWhileWaiting'
    BY <1>2, BulkheadAssumption
       DEF TypeOK, Structure, GrantsWhileWaiting, FindFull, Goto, Entry
  <2>3. ParkedKnown'
    BY <1>2, BulkheadAssumption
       DEF TypeOK, Structure, ParkedKnown, FindFull, Goto, Entry
  <2>4. QueueKnown'
    BY <1>2, BulkheadAssumption
       DEF TypeOK, Structure, QueueKnown, FindFull, Goto, Entry
  <2>5. PoppedKnown'
    BY <1>2, BulkheadAssumption
       DEF TypeOK, Structure, PoppedKnown, FindFull, Goto, Entry
  <2> QED
    BY <2>1, <2>2, <2>3, <2>4, <2>5 DEF Structure
<1>3. ASSUME NEW r \in Requests, CountActive(r)
      PROVE  Structure'
  <2>0. at[r] \in Backends
    BY <1>3, WhereInside DEF Structure, CountActive
  <2>1. InsideOrIdle'
    BY <1>3, <2>0, BulkheadAssumption
       DEF TypeOK, Structure, InsideOrIdle, CountActive, Goto, Exit, Entry
  <2>2. GrantsWhileWaiting'
    BY <1>3, <2>0, BulkheadAssumption
       DEF TypeOK, Structure, GrantsWhileWaiting, CountActive, Goto, Exit, Entry
  <2>3. ParkedKnown'
    BY <1>3, <2>0, BulkheadAssumption
       DEF TypeOK, Structure, ParkedKnown, CountActive, Goto, Exit, Entry
  <2>4. QueueKnown'
    BY <1>3, <2>0, BulkheadAssumption
       DEF TypeOK, Structure, QueueKnown, CountActive, Goto, Exit, Entry
  <2>5. PoppedKnown'
    BY <1>3, <2>0, BulkheadAssumption
       DEF TypeOK, Structure, PoppedKnown, CountActive, Goto, Exit, Entry
  <2> QED
    BY <2>1, <2>2, <2>3, <2>4, <2>5 DEF Structure
<1>4. ASSUME NEW r \in Requests, Enqueue(r)
      PROVE  Structure'
  <2>0. at[r] \in Backends
    BY <1>4, WhereInside DEF Structure, Enqueue
  <2>1. InsideOrIdle'
    BY <1>4, <2>0, BulkheadAssumption
       DEF TypeOK, Structure, InsideOrIdle, Enqueue, Goto, Exit, Entry
  <2>2. GrantsWhileWaiting'
    BY <1>4, <2>0, BulkheadAssumption
       DEF TypeOK, Structure, GrantsWhileWaiting, Enqueue, Goto, Exit, Entry
  <2>3. ParkedKnown'
    BY <1>4, <2>0, BulkheadAssumption
       DEF TypeOK, Structure, ParkedKnown, Enqueue, Goto, Exit, Entry
  <2>4. QueueKnown'
    <3>1. /\ Len(queue'[at[r]]) = Len(queue[at[r]]) + 1
          /\ queue'[at[r]][Len(queue[at[r]]) + 1] = r
          /\ \A i \in 1..Len(queue[at[r]]) : queue'[at[r]][i] = queue[at[r]][i]
          /\ Len(queue[at[r]]) \in Nat
      BY <1>4, <2>0 DEF TypeOK, Enqueue, Goto, Exit, Entry
    <3>2. /\ \A b \in Backends : \A i \in 1..Len(queue[b]) : queue[b][i] # r
          /\ \A s \in Requests : popped[s] # r
      <4>1. pc[r] = "full" /\ r # None
        BY <1>4, BulkheadAssumption DEF Enqueue
      <4> QED
        BY <4>1 DEF Structure, QueueKnown, PoppedKnown
    <3>3. \A b \in Backends : b # at[r] => queue'[b] = queue[b]
      BY <1>4 DEF TypeOK, Enqueue, Goto, Exit
    <3>4. \A q \in Requests, b \in Backends : WaitsAt(q, b) => WaitsAt(q, b)'
      BY <1>4 DEF TypeOK, Enqueue, Goto, Exit
    <3>5. WaitsAt(r, at[r])'
      <4>1. ~ response[r] /\ response' = response /\ at' = at
        BY <1>4 DEF Structure, GrantsWhileWaiting, Enqueue
      <4>2. pc'[r] = "queued"
        BY <1>4 DEF TypeOK, Enqueue, Goto
      <4> QED
        BY <4>1, <4>2
    <3>6. \A b \in Backends : \A i \in 1..Len(queue[b]) :
            queue[b][i] # None => queue[b][i] \in Requests
      BY DEF TypeOK, Entry
    <3>7. popped' = popped
      BY <1>4 DEF Enqueue, Goto, Exit
    <3>8. ASSUME NEW b \in Backends, NEW i \in 1..Len(queue'[b]),
                 queue'[b][i] # None
          PROVE  /\ WaitsAt(queue[b][i], b)'
                 /\ \A j \in 1..Len(queue'[b]) :
                      queue'[b][j] = queue'[b][i] => j = i
                 /\ \A s \in Requests : popped'[s] # queue'[b][i]
      <4>1. CASE b # at[r]
        BY <3>3, <3>4, <3>6, <3>7, <3>8, <4>1 DEF Structure, QueueKnown
      <4>2. CASE b = at[r] /\ i = Len(queue[b]) + 1
        <5>1. queue'[b][i] = r
          BY <3>1, <4>2
        <5>2. ASSUME NEW j \in 1..Len(queue'[b]), queue'[b][j] = r
              PROVE  j = i
          <6>1. j \in 1..Len(queue[b]) \/ j = Len(queue[b]) + 1
            BY <3>1, <4>2
          <6>2. j \notin 1..Len(queue[b])
            BY <2>0, <3>1, <3>2, <4>2, <5>2
          <6> QED
            BY <4>2, <6>1, <6>2
        <5>3. \A s \in Requests : popped'[s] # r
          BY <3>2, <3>7
        <5>4. WaitsAt(queue[b][i], b)'
          BY <3>5, <4>2, <5>1, <1>4 DEF Enqueue
        <5> QED
          BY <5>1, <5>2, <5>3, <5>4
      <4>3. CASE b = at[r] /\ i \in 1..Len(queue[b])
        <5>1. queue'[b][i] = queue[b][i] /\ queue[b][i] \in Requests
          BY <3>1, <3>6, <3>8, <4>3
        <5>2. /\ WaitsAt(queue[b][i], b)
              /\ queue[b][i] # r
              /\ \A j \in 1..Len(queue[b]) : queue[b][j] = queue[b][i] => j = i
              /\ \A s \in Requests : popped[s] # queue[b][i]
          BY <3>2, <3>8, <4>3, <5>1 DEF Structure, QueueKnown
        <5>3. ASSUME NEW j \in 1..Len(queue'[b]), queue'[b][j] = queue'[b][i]
              PROVE  j = i
          <6>1. j \in 1..Len(queue[b]) \/ j = Len(queue[b]) + 1
            BY <3>1, <4>3
          <6>2. CASE j \in 1..Len(queue[b])
            BY <3>1, <4>3, <5>1, <5>2, <5>3, <6>2
          <6>3. CASE j = Len(queue[b]) + 1
            BY <3>1, <4>3, <5>1, <5>2, <5>3, <6>3
          <6> QED
            BY <6>1, <6>2, <6>3
        <5>4. WaitsAt(queue[b][i], b)'
          BY <3>4, <5>1, <5>2
        <5> QED
          BY <3>7, <5>1, <5>2, <5>3, <5>4
      <4> QED
        BY <3>1, <4>1, <4>2, <4>3
    <3> QED
      BY <3>8 DEF QueueKnown
  <2>5. PoppedKnown'
    BY <1>4, <2>0, BulkheadAssumption
       DEF TypeOK, Structure, PoppedKnown, Enqueue, Goto, Exit, Entry
  <2> QED
    BY <2>1, <2>2, <2>3, <2>4, <2>5 DEF Structure
<1>5. ASSUME NEW r \in Requests, Reject(r)
      PROVE  Structure'
  <2>0. at[r] \in Backends
    BY <1>5, WhereInside DEF Structure, Reject
  <2>1. InsideOrIdle'
    BY <1>5, <2>0, BulkheadAssumption
       DEF TypeOK, Structure, InsideOrIdle, Reject, Goto, Exit, Entry
  <2>2. GrantsWhileWaiting'
    BY <1>5, <2>0, BulkheadAssumption
       DEF TypeOK, Structure, GrantsWhileWaiting, Reject, Goto, Exit, Entry
  <2>3. ParkedKnown'
    BY <1>5, <2>0, BulkheadAssumption
       DEF TypeOK, Structure, ParkedKnown, Reject, Goto, Exit, Entry
  <2>4. QueueKnown'
    BY <1>5, <2>0, BulkheadAssumption
       DEF TypeOK, Structure, QueueKnown, Reject, Goto, Exit, Entry
  <2>5. PoppedKnown'
    BY <1>5, <2>0, BulkheadAssumption
       DEF TypeOK, Structure, PoppedKnown, Reject, Goto, Exit, Entry
  <2> QED
    BY <2>1, <2>2, <2>3, <2>4, <2>5 DEF Structure
<1>6. ASSUME NEW r \in Requests, CountQueued(r)
      PROVE  Structure'
  <2>0. at[r] \in Backends
    BY <1>6, WhereInside DEF Structure, CountQueued
  <2>1. InsideOrIdle'
    BY <1>6, <2>0, BulkheadAssumption
       DEF TypeOK, Structure, InsideOrIdle, CountQueued, Goto, Exit, Entry
  <2>2. GrantsWhileWaiting'
    BY <1>6, <2>0, BulkheadAssumption
       DEF TypeOK, Structure, GrantsWhileWaiting, CountQueued, Goto, Exit, Entry
  <2>3. ParkedKnown'
    BY <1>6, <2>0, BulkheadAssumption
       DEF TypeOK, Structure, ParkedKnown, CountQueued, Goto, Exit, Entry
  <2>4. QueueKnown'
    BY <1>6, <2>0, BulkheadAssumption
       DEF TypeOK, Structure, QueueKnown, CountQueued, Goto, Exit, Entry
  <2>5. PoppedKnown'
    BY <1>6, <2>0, BulkheadAssumption
       DEF TypeOK, Structure, PoppedKnown, CountQueued, Goto, Exit, Entry
  <2> QED
    BY <2>1, <2>2, <2>3, <2>4, <2>5 DEF Structure
<1>7. ASSUME NEW r \in Requests, ReceiveGrant(r)
      PROVE  Structure'
  <2>0. at[r] \in Backends
    BY <1>7, WhereInside DEF Structure, ReceiveGrant
  <2>1. InsideOrIdle'
    BY <1>7, <2>0, BulkheadAssumption
       DEF TypeOK, Structure, InsideOrIdle, ReceiveGrant, Goto, Exit, Entry
  <2>2. GrantsWhileWaiting'
    BY <1>7, <2>0, BulkheadAssumption
       DEF TypeOK, Structure, GrantsWhileWaiting, ReceiveGrant, Goto, Exit, Entry
  <2>3. ParkedKnown'
    BY <1>7, <2>0, BulkheadAssumption
       DEF TypeOK, Structure, ParkedKnown, ReceiveGrant, Goto, Exit, Entry
  <2>4. QueueKnown'
    BY <1>7, <2>0, BulkheadAssumption
       DEF TypeOK, Structure, QueueKnown, ReceiveGrant, Goto, Exit, Entry
  <2>5. PoppedKnown'
    BY <1>7, <2>0, BulkheadAssumption
       DEF TypeOK, Structure, PoppedKnown, ReceiveGrant, Goto, Exit, Entry
  <2> QED
    BY <2>1, <2>2, <2>3, <2>4, <2>5 DEF Structure
<1>8. ASSUME NEW r \in Requests, GiveUp(r)
      PROVE  Structure'
  <2>0. at[r] \in Backends
    BY <1>8, WhereInside DEF Structure, GiveUp
  <2>1. InsideOrIdle'
    BY <1>8, <2>0, BulkheadAssumption
       DEF TypeOK, Structure, InsideOrIdle, GiveUp, Goto, Exit, Entry
  <2>2. GrantsWhileWaiting'
    BY <1>8, <2>0, BulkheadAssumption
       DEF TypeOK, Structure, GrantsWhileWaiting, GiveUp, Goto, Exit, Entry
  <2>3. ParkedKnown'
    BY <1>8, <2>0, BulkheadAssumption
       DEF TypeOK, Structure, ParkedKnown, GiveUp, Goto, Exit, Entry
  <2>4. QueueKnown'
    <3>1. /\ Len(queue'[at[r]]) = Len(queue[at[r]])
          /\ \A i \in 1..Len(queue[at[r]]) :
               queue'[at[r]][i] = IF queue[at[r]][i] = r THEN None
                                  ELSE queue[at[r]][i]
      BY <1>8, <2>0, AbandonedEntries DEF TypeOK, GiveUp, Goto, Exit
    <3>2. \A b \in Backends : b # at[r] =>
            /\ queue'[b] = queue[b]
            /\ \A i \in 1..Len(queue[b]) : queue[b][i] # r
      <4>1. \A b \in Backends : b # at[r] => queue'[b] = queue[b]
        BY <1>8 DEF TypeOK, GiveUp
      <4>2. r # None
        BY BulkheadAssumption
      <4> QED
        BY <4>1, <4>2 DEF Structure, QueueKnown
    <3>3. \A s \in Requests :
            popped'[s] = IF popped[s] = r THEN None ELSE popped[s]
      BY <1>8, AbandonedPopped DEF TypeOK, GiveUp, Goto, Exit
    <3>4. \A q \in Requests, b \in Backends :
            q # r /\ WaitsAt(q, b) => WaitsAt(q, b)'
      BY <1>8 DEF TypeOK, GiveUp, Goto, Exit
    <3>5. \A b \in Backends : \A i \in 1..Len(queue[b]) :
            queue[b][i] # None => queue[b][i] \in Requests
      BY DEF TypeOK, Entry
    <3>6. ASSUME NEW b \in Backends, NEW i \in 1..Len(queue'[b]),
                 queue'[b][i] # None
          PROVE  /\ WaitsAt(queue[b][i], b)'
                 /\ \A j \in 1..Len(queue'[b]) :
                      queue'[b][j] = queue'[b][i] => j = i
                 /\ \A s \in Requests : popped'[s] # queue'[b][i]
      <4>1. /\ Len(queue'[b]) = Len(queue[b])
            /\ i \in 1..Len(queue[b])
            /\ queue'[b][i] = queue[b][i] /\ queue[b][i] # r
            /\ queue[b][i] \in Requests
        BY <3>1, <3>2, <3>5, <3>6
      <4>2. /\ WaitsAt(queue[b][i], b)
            /\ \A j \in 1..Len(queue[b]) : queue[b][j] = queue[b][i] => j = i
            /\ \A s \in Requests : popped[s] # queue[b][i]
        BY <3>6, <4>1 DEF Structure, QueueKnown
      <4>3. \A j \in 1..Len(queue[b]) : queue'[b][j] \in {queue[b][j], None}
        BY <3>1, <3>2
      <4>4. WaitsAt(queue[b][i], b)'
        BY <3>4, <4>1, <4>2
      <4>5. \A j \in 1..Len(queue'[b]) : queue'[b][j] = queue'[b][i] => j = i
        BY <3>6, <4>1, <4>2, <4>3
      <4>6. \A s \in Requests : popped'[s] # queue'[b][i]
        BY <3>3, <3>6, <4>1, <4>2
      <4> QED
        BY <4>4, <4>5, <4>6
    <3> QED
      BY <3>6 DEF QueueKnown
  <2>5. PoppedKnown'
    <3>1. \A s \in Requests :
            popped'[s] = IF popped[s] = r THEN None ELSE popped[s]
      BY <1>8, AbandonedPopped DEF TypeOK, GiveUp, Goto, Exit
    <3>2. \A q \in Requests, b \in Backends :
            q # r /\ WaitsAt(q, b) => WaitsAt(q, b)'
      BY <1>8 DEF TypeOK, GiveUp, Goto, Exit
    <3>3. ASSUME NEW s \in Requests, popped'[s] # None
          PROVE  /\ pc'[s] \in {"refill", "blocked", "refilled", "granting"}
                 /\ WaitsAt(popped[s], at[s])'
                 /\ \A t \in Requests : popped'[t] = popped'[s] => t = s
      <4>1. popped'[s] = popped[s] /\ popped[s] \in Requests /\ popped[s] # r
        BY <3>1, <3>3 DEF TypeOK, Entry
      <4>2. /\ pc[s] \in {"refill", "blocked", "refilled", "granting"}
            /\ WaitsAt(popped[s], at[s])
            /\ \A t \in Requests : popped[t] = popped[s] => t = s
        BY <3>3, <4>1 DEF Structure, PoppedKnown
      <4>3. pc'[s] = pc[s] /\ at'[s] = at[s] /\ at[s] \in Backends
        BY <1>8, <4>2, WhereInside DEF TypeOK, Structure, GiveUp, Goto, Exit
      <4> QED
        BY <3>1, <3>2, <3>3, <4>1, <4>2, <4>3
    <3> QED
      BY <3>3 DEF PoppedKnown
  <2> QED
    BY <2>1, <2>2, <2>3, <2>4, <2>5 DEF Structure
<1>9. ASSUME NEW r \in Requests, GiveUpGranted(r)
      PROVE  Structure'
  <2>0. at[r] \in Backends
    BY <1>9, WhereInside DEF Structure, GiveUpGranted
  <2>1. InsideOrIdle'
    BY <1>9, <2>0, BulkheadAssumption
       DEF TypeOK, Structure, InsideOrIdle, GiveUpGranted, Goto, Exit, Entry
  <2>2. GrantsWhileWaiting'
    BY <1>9, <2>0, BulkheadAssumption
       DEF TypeOK, Structure, GrantsWhileWaiting, GiveUpGranted, Goto, Exit, Entry
  <2>3. ParkedKnown'
    BY <1>9, <2>0, BulkheadAssumption
       DEF TypeOK, Structure, ParkedKnown, GiveUpGranted, Goto, Exit, Entry
  <2>4. QueueKnown'
    BY <1>9, <2>0, BulkheadAssumption
       DEF TypeOK, Structure, QueueKnown, GiveUpGranted, Goto, Exit, Entry
  <2>5. PoppedKnown'
    BY <1>9, <2>0, BulkheadAssumption
       DEF TypeOK, Structure, PoppedKnown, GiveUpGranted, Goto, Exit, Entry
  <2> QED
    BY <2>1, <2>2, <2>3, <2>4, <2>5 DEF Structure
<1>10. ASSUME NEW r \in Requests, FreeSlot(r)
      PROVE  Structure'
  <2>0. at[r] \in Backends
    BY <1>10, WhereInside DEF Structure, FreeSlot
  <2>1. InsideOrIdle'
    BY <1>10, <2>0, BulkheadAssumption
       DEF TypeOK, Structure, InsideOrIdle, FreeSlot, Goto, Exit, Entry
  <2>2. GrantsWhileWaiting'
    BY <1>10, <2>0, BulkheadAssumption
       DEF TypeOK, Structure, GrantsWhileWaiting, FreeSlot, Goto, Exit, Entry
  <2>3. ParkedKnown'
    BY <1>10, <2>0, BulkheadAssumption
       DEF TypeOK, Structure, ParkedKnown, FreeSlot, Goto, Exit, Entry
  <2>4. QueueKnown'
    BY <1>10, <2>0, BulkheadAssumption
       DEF TypeOK, Structure, QueueKnown, FreeSlot, Goto, Exit, Entry
  <2>5. PoppedKnown'
    BY <1>10, <2>0, BulkheadAssumption
       DEF TypeOK, Structure, PoppedKnown, FreeSlot, Goto, Exit, Entry
  <2> QED
    BY <2>1, <2>2, <2>3, <2>4, <2>5 DEF Structure
<1>11. ASSUME NEW r \in Requests, HandOver(r)
      PROVE  Structure'
  <2>0. at[r] \in Backends
    BY <1>11, WhereInside DEF Structure, HandOver
  <2> DEFINE h == Head(sendq[at[r]])
  <2>6. /\ h \in Requests /\ h # r
        /\ pc[h] = "blocked" /\ at[h] = at[r]
        /\ \A i \in 2..Len(sendq[at[r]]) : sendq[at[r]][i] # h
    BY <1>11, <2>0, FirstParked DEF Structure, PoppedKnown, HandOver
  <2>7. \A q \in Requests :
          pc'[q] = IF q = r THEN "freed"
                   ELSE IF q = h THEN "refilled" ELSE pc[q]
    BY <1>11, <2>6 DEF TypeOK, HandOver, Goto, Exit
  <2> HIDE DEF h
  <2>8. \A q \in Requests, b \in Backends : WaitsAt(q, b) => WaitsAt(q, b)'
    BY <1>11, <2>6, <2>7 DEF HandOver
  <2>1. InsideOrIdle'
    <3>1. at' = at
      BY <1>11 DEF HandOver
    <3>2. pc[r] # "idle"
      BY <1>11 DEF HandOver
    <3> QED
      BY <2>6, <2>7, <3>1, <3>2 DEF Structure, InsideOrIdle
  <2>2. GrantsWhileWaiting'
    <3>1. response' = response
      BY <1>11 DEF HandOver
    <3>2. pc[r] = "running"
      BY <1>11 DEF HandOver
    <3> QED
      BY <2>6, <2>7, <3>1, <3>2 DEF Structure, GrantsWhileWaiting
  <2>3. ParkedKnown'
    <3>1. /\ sendq[at[r]] \in Seq(Requests)
          /\ Len(sendq'[at[r]]) = Len(sendq[at[r]]) - 1
          /\ \A i \in 1..Len(sendq'[at[r]]) :
               sendq'[at[r]][i] = sendq[at[r]][i + 1]
          /\ Len(sendq[at[r]]) \in Nat \ {0}
      BY <1>11, <2>0 DEF TypeOK, HandOver, Goto, Exit
    <3>2. \A b \in Backends : b # at[r] => sendq'[b] = sendq[b]
      BY <1>11 DEF TypeOK, HandOver, Goto, Exit
    <3>3. at' = at
      BY <1>11 DEF HandOver, Goto, Exit
    <3>4. \A b \in Backends : \A i \in 1..Len(sendq[b]) :
            /\ sendq[b][i] \in Requests /\ sendq[b][i] # r
            /\ b # at[r] => sendq[b][i] # h
      BY <1>11, <2>6 DEF TypeOK, Structure, ParkedKnown, HandOver
    <3>5. ASSUME NEW b \in Backends, NEW i \in 1..Len(sendq'[b])
          PROVE  /\ pc'[sendq'[b][i]] = "blocked"
                 /\ at'[sendq'[b][i]] = b
                 /\ \A j \in 1..Len(sendq'[b]) :
                      sendq'[b][j] = sendq'[b][i] => j = i
      <4>1. CASE b # at[r]
        BY <2>7, <3>2, <3>3, <3>4, <4>1 DEF Structure, ParkedKnown
      <4>2. CASE b = at[r]
        <5>1. \A j \in 1..Len(sendq'[b]) :
                /\ j + 1 \in 1..Len(sendq[b]) /\ j + 1 \in 2..Len(sendq[b])
                /\ sendq'[b][j] = sendq[b][j + 1]
          BY <3>1, <4>2
        <5>2. sendq[b][i + 1] # h
          BY <2>6, <4>2, <5>1
        <5>3. /\ pc[sendq[b][i + 1]] = "blocked"
              /\ at[sendq[b][i + 1]] = b
              /\ \A j \in 1..Len(sendq[b]) :
                   sendq[b][j] = sendq[b][i + 1] => j = i + 1
          BY <5>1 DEF Structure, ParkedKnown
        <5> QED
          BY <2>7, <3>3, <3>4, <5>1, <5>2, <5>3
      <4> QED
        BY <4>1, <4>2
    <3> QED
      BY <3>5 DEF ParkedKnown
  <2>4. QueueKnown'
    <3>1. queue' = queue /\ popped' = popped
      BY <1>11 DEF HandOver, Goto, Exit
    <3>2. \A b \in Backends : \A i \in 1..Len(queue[b]) :
            queue[b][i] # None => queue[b][i] \in Requests
      BY DEF TypeOK, Entry
    <3> QED
      BY <2>8, <3>1, <3>2 DEF Structure, QueueKnown
  <2>5. PoppedKnown'
    <3>1. popped' = popped /\ at' = at
      BY <1>11 DEF HandOver, Goto, Exit
    <3>2. ASSUME NEW s \in Requests, popped'[s] # None
          PROVE  /\ pc'[s] \in {"refill", "blocked", "refilled", "granting"}
                 /\ WaitsAt(popped[s], at[s])'
                 /\ \A t \in Requests : popped'[t] = popped'[s] => t = s
      <4>1. popped'[s] = popped[s] /\ popped[s] \in Requests
        BY <3>1, <3>2 DEF TypeOK, Entry
      <4>2. /\ pc[s] \in {"refill", "blocked", "refilled", "granting"}
            /\ WaitsAt(popped[s], at[s])
            /\ \A t \in Requests : popped[t] = popped[s] => t = s
        BY <3>2, <4>1 DEF Structure, PoppedKnown
      <4>3. at[s] \in Backends
        BY <4>2, WhereInside DEF Structure
      <4>4. pc[r] = "running"
        BY <1>11 DEF HandOver
      <4>5. pc'[s] \in {"refill", "blocked", "refilled", "granting"}
        BY <2>7, <4>2, <4>4
      <4>6. WaitsAt(popped[s], at[s])'
        BY <2>8, <3>1, <4>1, <4>2, <4>3
      <4> QED
        BY <3>1, <4>2, <4>5, <4>6
    <3> QED
      BY <3>2 DEF PoppedKnown
  <2> QED
    BY <2>1, <2>2, <2>3, <2>4, <2>5 DEF Structure
<1>12. ASSUME NEW r \in Requests, CountFreed(r)
      PROVE  Structure'
  <2>0. at[r] \in Backends
    BY <1>12, WhereInside DEF Structure, CountFreed
  <2>1. InsideOrIdle'
    BY <1>12, <2>0, BulkheadAssumption
       DEF TypeOK, Structure, InsideOrIdle, CountFreed, Goto, Exit, Entry
  <2>2. GrantsWhileWaiting'
    BY <1>12, <2>0, BulkheadAssumption
       DEF TypeOK, Structure, GrantsWhileWaiting, CountFreed, Goto, Exit, Entry
  <2>3. ParkedKnown'
    BY <1>12, <2>0, BulkheadAssumption
       DEF TypeOK, Structure, ParkedKnown, CountFreed, Goto, Exit, Entry
  <2>4. QueueKnown'
    BY <1>12, <2>0, BulkheadAssumption
       DEF TypeOK, Structure, QueueKnown, CountFreed, Goto, Exit, Entry
  <2>5. PoppedKnown'
    BY <1>12, <2>0, BulkheadAssumption
       DEF TypeOK, Structure, PoppedKnown, CountFreed, Goto, Exit, Entry
  <2> QED
    BY <2>1, <2>2, <2>3, <2>4, <2>5 DEF Structure
<1>13. ASSUME NEW r \in Requests, PopQueue(r)
      PROVE  Structure'
  <2>0. at[r] \in Backends
    BY <1>13, WhereInside DEF Structure, PopQueue
  <2>1. InsideOrIdle'
    BY <1>13, <2>0, BulkheadAssumption
       DEF TypeOK, Structure, InsideOrIdle, PopQueue, Goto, Exit, Entry
  <2>2. GrantsWhileWaiting'
    BY <1>13, <2>0, BulkheadAssumption
       DEF TypeOK, Structure, GrantsWhileWaiting, PopQueue, Goto, Exit, Entry
  <2>3. ParkedKnown'
    BY <1>13, <2>0, BulkheadAssumption
       DEF TypeOK, Structure, ParkedKnown, PopQueue, Goto, Exit, Entry
  <2>4. QueueKnown'
    <3>1. /\ queue[at[r]] \in Seq(Entry)
          /\ Len(queue'[at[r]]) = Len(queue[at[r]]) - 1
          /\ \A i \in 1..Len(queue'[at[r]]) :
               queue'[at[r]][i] = queue[at[r]][i + 1]
          /\ popped'[r] = queue[at[r]][1]
          /\ Len(queue[at[r]]) \in Nat \ {0}
      BY <1>13, <2>0 DEF TypeOK, PopQueue, Goto, Exit
    <3>2. \A b \in Backends : b # at[r] => queue'[b] = queue[b]
      BY <1>13 DEF TypeOK, PopQueue, Goto, Exit
    <3>3. \A s \in Requests : s # r => popped'[s] = popped[s]
      BY <1>13 DEF TypeOK, PopQueue, Goto, Exit
    <3>4. \A q \in Requests, b \in Backends : WaitsAt(q, b) => WaitsAt(q, b)'
      BY <1>13 DEF TypeOK, PopQueue, Goto, Exit
    <3>5. \A b \in Backends : \A i \in 1..Len(queue[b]) :
            queue[b][i] # None => queue[b][i] \in Requests
      BY DEF TypeOK, Entry
    <3>6. ASSUME NEW b \in Backends, NEW i \in 1..Len(queue'[b]),
                 queue'[b][i] # None
          PROVE  /\ WaitsAt(queue[b][i], b)'
                 /\ \A j \in 1..Len(queue'[b]) :
                      queue'[b][j] = queue'[b][i] => j = i
                 /\ \A s \in Requests : popped'[s] # queue'[b][i]
      <4>1. CASE b # at[r]
        <5>1. WaitsAt(queue[b][i], b) /\ queue[b][i] \in Requests
          BY <3>2, <3>5, <3>6, <4>1 DEF Structure, QueueKnown
        <5>2. popped'[r] # queue[b][i]
          <6>1. CASE popped'[r] = None
            BY <3>2, <3>6, <4>1, <6>1
          <6>2. CASE popped'[r] # None
            <7>1. WaitsAt(popped'[r], at[r])
              BY <2>0, <3>1, <6>2 DEF Structure, QueueKnown
            <7> QED
              BY <4>1, <5>1, <7>1
          <6> QED
            BY <6>1, <6>2
        <5> QED
          BY <3>2, <3>3, <3>4, <3>6, <4>1, <5>1, <5>2 DEF Structure, QueueKnown
      <4>2. CASE b = at[r]
        <5>1. i + 1 \in 1..Len(queue[b]) /\ queue'[b][i] = queue[b][i + 1]
              /\ 1 \in 1..Len(queue[b]) /\ i + 1 # 1
          BY <3>1, <4>2
        <5>2. /\ WaitsAt(queue[b][i + 1], b)
              /\ queue[b][i + 1] \in Requests
              /\ \A j \in 1..Len(queue[b]) :
                   queue[b][j] = queue[b][i + 1] => j = i + 1
              /\ \A s \in Requests : popped[s] # queue[b][i + 1]
          BY <3>5, <3>6, <5>1 DEF Structure, QueueKnown
        <5>3. \A j \in 1..Len(queue'[b]) : queue'[b][j] = queue'[b][i] => j = i
          <6>1. ASSUME NEW j \in 1..Len(queue'[b])
                PROVE  /\ j + 1 \in 1..Len(queue[b])
                       /\ queue'[b][j] = queue[b][j + 1]
            <7>1. Len(queue'[b]) = Len(queue[b]) - 1 /\ Len(queue[b]) \in Nat
              BY <3>1, <4>2
            <7>2. j + 1 \in 1..Len(queue[b])
              BY <7>1
            <7>3. queue'[b][j] = queue[b][j + 1]
              BY <3>1, <4>2
            <7> QED
              BY <7>2, <7>3
          <6>2. ASSUME NEW j \in 1..Len(queue'[b]), queue'[b][j] = queue'[b][i]
                PROVE  j = i
            <7>1. j + 1 = i + 1
              BY <5>1, <5>2, <6>1, <6>2
            <7> QED
              BY <7>1
          <6> QED
            BY <6>2
        <5>4. popped'[r] # queue'[b][i]
          BY <3>1, <4>2, <5>1, <5>2
        <5> QED
          BY <3>3, <3>4, <5>1, <5>2, <5>3, <5>4
      <4> QED
        BY <4>1, <4>2
    <3> QED
      BY <3>6 DEF QueueKnown
  <2>5. PoppedKnown'
    BY <1>13, <2>0, BulkheadAssumption
       DEF TypeOK, Structure, QueueKnown, PoppedKnown, PopQueue, Goto, Entry
  <2> QED
    BY <2>1, <2>2, <2>3, <2>4, <2>5 DEF Structure
<1>14. ASSUME NEW r \in Requests, FindQueueEmpty(r)
      PROVE  Structure'
  <2>0. at[r] \in Backends
    BY <1>14, WhereInside DEF Structure, FindQueueEmpty
  <2>1. InsideOrIdle'
    BY <1>14, <2>0, BulkheadAssumption
       DEF TypeOK, Structure, InsideOrIdle, FindQueueEmpty, Goto, Exit, Entry
  <2>2. GrantsWhileWaiting'
    BY <1>14, <2>0, BulkheadAssumption
       DEF TypeOK, Structure, GrantsWhileWaiting, FindQueueEmpty, Goto, Exit, Entry
  <2>3. ParkedKnown'
    BY <1>14, <2>0, BulkheadAssumption
       DEF TypeOK, Structure, ParkedKnown, FindQueueEmpty, Goto, Exit, Entry
  <2>4. QueueKnown'
    BY <1>14, <2>0, BulkheadAssumption
       DEF TypeOK, Structure, QueueKnown, FindQueueEmpty, Goto, Exit, Entry
  <2>5. PoppedKnown'
    BY <1>14, <2>0, BulkheadAssumption
       DEF TypeOK, Structure, PoppedKnown, FindQueueEmpty, Goto, Exit, Entry
  <2> QED
    BY <2>1, <2>2, <2>3, <2>4, <2>5 DEF Structure
<1>15. ASSUME NEW r \in Requests, Refill(r)
      PROVE  Structure'
  <2>0. at[r] \in Backends
    BY <1>15, WhereInside DEF Structure, Refill
  <2>1. InsideOrIdle'
    BY <1>15, <2>0, BulkheadAssumption
       DEF TypeOK, Structure, InsideOrIdle, Refill, Goto, Exit, Entry
  <2>2. GrantsWhileWaiting'
    BY <1>15, <2>0, BulkheadAssumption
       DEF TypeOK, Structure, GrantsWhileWaiting, Refill, Goto, Exit, Entry
  <2>3. ParkedKnown'
    BY <1>15, <2>0, BulkheadAssumption
       DEF TypeOK, Structure, ParkedKnown, Refill, Goto, Exit, Entry
  <2>4. QueueKnown'
    BY <1>15, <2>0, BulkheadAssumption
       DEF TypeOK, Structure, QueueKnown, Refill, Goto, Exit, Entry
  <2>5. PoppedKnown'
    BY <1>15, <2>0, BulkheadAssumption
       DEF TypeOK, Structure, PoppedKnown, Refill, Goto, Exit, Entry
  <2> QED
    BY <2>1, <2>2, <2>3, <2>4, <2>5 DEF Structure
<1>16. ASSUME NEW r \in Requests, Park(r)
      PROVE  Structure'
  <2>0. at[r] \in Backends
    BY <1>16, WhereInside DEF Structure, Park
  <2>1. InsideOrIdle'
    BY <1>16, <2>0, BulkheadAssumption
       DEF TypeOK, Structure, InsideOrIdle, Park, Goto, Exit, Entry
  <2>2. GrantsWhileWaiting'
    BY <1>16, <2>0, BulkheadAssumption
       DEF TypeOK, Structure, GrantsWhileWaiting, Park, Goto, Exit, Entry
  <2>3. ParkedKnown'
    BY <1>16, <2>0, BulkheadAssumption
       DEF TypeOK, Structure, ParkedKnown, Park, Goto, Exit, Entry
  <2>4. QueueKnown'
    BY <1>16, <2>0, BulkheadAssumption
       DEF TypeOK, Structure, QueueKnown, Park, Goto, Exit, Entry
  <2>5. PoppedKnown'
    BY <1>16, <2>0, BulkheadAssumption
       DEF TypeOK, Structure, PoppedKnown, Park, Goto, Exit, Entry
  <2> QED
    BY <2>1, <2>2, <2>3, <2>4, <2>5 DEF Structure
<1>17. ASSUME NEW r \in Requests, CountGrant(r)
      PROVE  Structure'
  <2>0. at[r] \in Backends
    BY <1>17, WhereInside DEF Structure, CountGrant
  <2>1. InsideOrIdle'
    BY <1>17, <2>0, BulkheadAssumption
       DEF TypeOK, Structure, InsideOrIdle, CountGrant, Goto, Exit, Entry
  <2>2. GrantsWhileWaiting'
    BY <1>17, <2>0, BulkheadAssumption
       DEF TypeOK, Structure, GrantsWhileWaiting, CountGrant, Goto, Exit, Entry
  <2>3. ParkedKnown'
    BY <1>17, <2>0, BulkheadAssumption
       DEF TypeOK, Structure, ParkedKnown, CountGrant, Goto, Exit, Entry
  <2>4. QueueKnown'
    BY <1>17, <2>0, BulkheadAssumption
       DEF TypeOK, Structure, QueueKnown, CountGrant, Goto, Exit, Entry
  <2>5. PoppedKnown'
    BY <1>17, <2>0, BulkheadAssumption
       DEF TypeOK, Structure, PoppedKnown, CountGrant, Goto, Exit, Entry
  <2> QED
    BY <2>1, <2>2, <2>3, <2>4, <2>5 DEF Structure
<1>18. ASSUME NEW r \in Requests, SendGrant(r)
      PROVE  Structure'
  <2>0. at[r] \in Backends
    BY <1>18, WhereInside DEF Structure, SendGrant
  <2>1. InsideOrIdle'
    BY <1>18, <2>0, BulkheadAssumption
       DEF TypeOK, Structure, InsideOrIdle, SendGrant, Goto, Exit, Entry
  <2>2. GrantsWhileWaiting'
    BY <1>18, <2>0, BulkheadAssumption
       DEF TypeOK, Structure, GrantsWhileWaiting, PoppedKnown, SendGrant,
           Goto, Exit, Entry
  <2>3. ParkedKnown'
    BY <1>18, <2>0, BulkheadAssumption
       DEF TypeOK, Structure, ParkedKnown, SendGrant, Goto, Exit, Entry
  <2>4. QueueKnown'
    BY <1>18, <2>0, BulkheadAssumption
       DEF TypeOK, Structure, QueueKnown, SendGrant, Goto, Exit, Entry
  <2>5. PoppedKnown'
    BY <1>18, <2>0, BulkheadAssumption
       DEF TypeOK, Structure, PoppedKnown, SendGrant, Goto, Exit, Entry
  <2> QED
    BY <2>1, <2>2, <2>3, <2>4, <2>5 DEF Structure
<1>19. ASSUME NEW r \in Requests, GrantNobody(r)
      PROVE  Structure'
  <2>0. at[r] \in Backends
    BY <1>19, WhereInside DEF Structure, GrantNobody
  <2>1. InsideOrIdle'
    BY <1>19, <2>0, BulkheadAssumption
       DEF TypeOK, Structure, InsideOrIdle, GrantNobody, Goto, Exit, Entry
  <2>2. GrantsWhileWaiting'
    BY <1>19, <2>0, BulkheadAssumption
       DEF TypeOK, Structure, GrantsWhileWaiting, GrantNobody, Goto, Exit, Entry
  <2>3. ParkedKnown'
    BY <1>19, <2>0, BulkheadAssumption
       DEF TypeOK, Structure, ParkedKnown, GrantNobody, Goto, Exit, Entry
  <2>4. QueueKnown'
    BY <1>19, <2>0, BulkheadAssumption
       DEF TypeOK, Structure, QueueKnown, GrantNobody, Goto, Exit, Entry
  <2>5. PoppedKnown'
    BY <1>19, <2>0, BulkheadAssumption
       DEF TypeOK, Structure, PoppedKnown, GrantNobody, Goto, Exit, Entry
  <2> QED
    BY <2>1, <2>2, <2>3, <2>4, <2>5 DEF Structure
<1>20. CASE UNCHANGED vars
  BY <1>20 DEF vars, Structure, InsideOrIdle, GrantsWhileWaiting, ParkedKnown,
           QueueKnown, PoppedKnown, Goto, Exit, Entry
<1> QED
  BY <1>1, <1>2, <1>3, <1>4, <1>5, <1>6, <1>7, <1>8, <1>9, <1>10,
     <1>11, <1>12, <1>13, <1>14, <1>15, <1>16, <1>17, <1>18, <1>19, <1>20
     DEF Next, TryAcquireStep, StartRelease, ReleaseStep

----------------------------------------------------------------------------
(* The holders of a slot before and after each step.                       *)

(* A step that lets everybody keep its slot.                               *)
HoldersKeep == \A b \in Backends : Holders(b)' = Holders(b)

(* r takes a slot of b, gives it up, or passes it to s; nothing else.      *)
HoldersTake(r, b) ==
  /\ \A c \in Backends : r \notin Holders(c)
  /\ \A c \in Backends :
       Holders(c)' = IF c = b THEN Holders(b) \cup {r} ELSE Holders(c)

HoldersDrop(r, b) ==
  /\ r \in Holders(b)
  /\ \A c \in Backends :
       Holders(c)' = IF c = b THEN Holders(b) \ {r} ELSE Holders(c)

HoldersPass(r, s, b) ==
  /\ r \in Holders(b)
  /\ \A c \in Backends : s \notin Holders(c)
  /\ \A c \in Backends :
       Holders(c)' = IF c = b THEN (Holders(b) \ {r}) \cup {s} ELSE Holders(c)

\* The effect of a step on the slots of the bulkheads.
Effect ==
  \/ HoldersKeep /\ UNCHANGED <<semaphore, leaked>>
  \/ \E r \in Requests, b \in Backends :
       \/ /\ HoldersTake(r, b)
          /\ semaphore[b] < MaxConcurrentRequests
          /\ semaphore' = [semaphore EXCEPT ![b] = @ + 1]
          /\ leaked' = leaked
       \/ /\ HoldersDrop(r, b)
          /\ semaphore' = [semaphore EXCEPT ![b] = @ - 1]
          /\ leaked' = leaked
       \/ /\ HoldersDrop(r, b)
          /\ semaphore' = semaphore
          /\ leaked' = [leaked EXCEPT ![b] = @ + 1]
       \/ \E s \in Requests :
            /\ HoldersPass(r, s, b)
            /\ semaphore' = semaphore
            /\ leaked' = leaked

(* Every step takes, drops, loses or passes on one slot, or none.          *)
LEMMA StepEffect ==
  ASSUME TypeOK, Structure, [Next]_vars
  PROVE  Effect
<1>1. ASSUME NEW r \in Requests, NEW b \in Backends, Acquire(r, b)
      PROVE  Effect
  <2>1. HoldersTake(r, b)
    BY <1>1, BulkheadAssumption
       DEF TypeOK, Structure, InsideOrIdle, GrantsWhileWaiting, Acquire, Goto,
           Holders, HoldersTake
  <2> QED
    BY <1>1, <2>1 DEF Acquire, Effect
<1>2. ASSUME NEW r \in Requests, NEW b \in Backends, FindFull(r, b)
      PROVE  Effect
  <2>1. HoldersKeep
    BY <1>2 DEF TypeOK, Structure, GrantsWhileWaiting, FindFull, Goto,
                Holders, HoldersKeep
  <2> QED
    BY <1>2, <2>1 DEF FindFull, Effect
<1>3. ASSUME NEW r \in Requests,
             \/ CountActive(r) \/ Enqueue(r) \/ Reject(r) \/ CountQueued(r)
             \/ ReceiveGrant(r) \/ GiveUp(r)
      PROVE  Effect
  <2>1. HoldersKeep
    BY <1>3 DEF TypeOK, Structure, GrantsWhileWaiting, CountActive, Enqueue,
                Reject, CountQueued, ReceiveGrant, GiveUp, Goto, Exit,
                Holders, HoldersKeep
  <2> QED
    BY <1>3, <2>1 DEF CountActive, Enqueue, Reject, CountQueued, ReceiveGrant,
                      GiveUp, Effect
<1>4. ASSUME NEW r \in Requests, GiveUpGranted(r)
      PROVE  Effect
  <2>1. at[r] \in Backends
    BY <1>4, WhereInside DEF Structure, GiveUpGranted
  <2>2. HoldersDrop(r, at[r])
    BY <1>4, <2>1, BulkheadAssumption
       DEF TypeOK, GiveUpGranted, Goto, Exit, Holders, HoldersDrop
  <2> QED
    BY <1>4, <2>1, <2>2 DEF GiveUpGranted, Effect
<1>5. ASSUME NEW r \in Requests, FreeSlot(r)
      PROVE  Effect
  <2>1. at[r] \in Backends
    BY <1>5, WhereInside DEF Structure, FreeSlot
  <2>2. HoldersDrop(r, at[r])
    BY <1>5, <2>1 DEF TypeOK, Structure, GrantsWhileWaiting, FreeSlot, Goto,
                      Holders, HoldersDrop
  <2> QED
    BY <1>5, <2>1, <2>2 DEF FreeSlot, Effect
<1>6. ASSUME NEW r \in Requests, HandOver(r)
      PROVE  Effect
  <2>1. at[r] \in Backends
    BY <1>6, WhereInside DEF Structure, HandOver
  <2> DEFINE h == Head(sendq[at[r]])
  <2>2. h \in Requests /\ pc[h] = "blocked" /\ at[h] = at[r] /\ h # r
    BY <1>6, <2>1, FirstParked DEF Structure, HandOver
  <2>3. /\ \A q \in Requests :
             pc'[q] = IF q = r THEN "freed"
                      ELSE IF q = h THEN "refilled" ELSE pc[q]
        /\ at' = at /\ response' = response
        /\ semaphore' = semaphore /\ leaked' = leaked /\ pc[r] = "running"
    BY <1>6, <2>2 DEF TypeOK, HandOver
  <2> HIDE DEF h
  <2>4. ~ response[r] /\ ~ response[h]
    BY <2>2, <2>3 DEF Structure, GrantsWhileWaiting
  <2>5. HoldersPass(r, h, at[r])
    BY <2>1, <2>2, <2>3, <2>4 DEF Holders, HoldersPass
  <2> QED
    BY <2>1, <2>2, <2>3, <2>5 DEF Effect
<1>7. ASSUME NEW r \in Requests,
             \/ CountFreed(r) \/ PopQueue(r) \/ FindQueueEmpty(r)
             \/ Park(r) \/ CountGrant(r)
      PROVE  Effect
  <2>1. HoldersKeep
    BY <1>7 DEF TypeOK, Structure, GrantsWhileWaiting, CountFreed, PopQueue,
                FindQueueEmpty, Park, CountGrant, Goto, Exit, Holders,
                HoldersKeep
  <2> QED
    BY <1>7, <2>1 DEF CountFreed, PopQueue, FindQueueEmpty, Park, CountGrant,
                      Effect
<1>8. ASSUME NEW r \in Requests, Refill(r)
      PROVE  Effect
  <2>1. at[r] \in Backends
    BY <1>8, WhereInside DEF Structure, Refill
  <2>2. HoldersTake(r, at[r])
    BY <1>8, <2>1 DEF TypeOK, Structure, GrantsWhileWaiting, Refill, Goto,
                      Holders, HoldersTake
  <2> QED
    BY <1>8, <2>1, <2>2 DEF Refill, Effect
<1>9. ASSUME NEW r \in Requests, SendGrant(r)
      PROVE  Effect
  <2>1. at[r] \in Backends
    BY <1>9, WhereInside DEF Structure, SendGrant
  <2>2. /\ popped[r] \in Requests
        /\ WaitsAt(popped[r], at[r])
    BY <1>9 DEF TypeOK, Structure, PoppedKnown, SendGrant, Entry
  <2>3. popped[r] # r /\ ~ response[r]
    BY <1>9, <2>2 DEF Structure, GrantsWhileWaiting, WaitsAt, SendGrant
  <2>4. HoldersPass(r, popped[r], at[r])
    BY <1>9, <2>1, <2>2, <2>3, BulkheadAssumption
       DEF TypeOK, WaitsAt, SendGrant, Goto, Exit, Holders, HoldersPass
  <2> QED
    BY <1>9, <2>1, <2>2, <2>4 DEF SendGrant, Effect
<1>10. ASSUME NEW r \in Requests, GrantNobody(r)
       PROVE  Effect
  <2>1. at[r] \in Backends
    BY <1>10, WhereInside DEF Structure, GrantNobody
  <2>2. HoldersDrop(r, at[r])
    BY <1>10, <2>1, BulkheadAssumption
       DEF TypeOK, Structure, GrantsWhileWaiting, GrantNobody, Goto, Exit,
           Holders, HoldersDrop
  <2> QED
    BY <1>10, <2>1, <2>2 DEF GrantNobody, Effect
<1>11. CASE UNCHANGED vars
  BY <1>11 DEF vars, Holders, HoldersKeep, Effect
<1> QED
  BY <1>1, <1>2, <1>3, <1>4, <1>5, <1>6, <1>7, <1>8, <1>9, <1>10, <1>11
     DEF Next, TryAcquireStep, StartRelease, ReleaseStep

----------------------------------------------------------------------------
(* The accounting.                                                         *)

LEMMA HoldersFinite ==
  \A b \in Backends : /\ IsFiniteSet(Holders(b))
                      /\ Cardinality(Holders(b)) \in Nat
<1>1. \A b \in Backends : Holders(b) \subseteq Requests
  BY DEF Holders
<1> QED
  BY <1>1, FS_Subset, FS_CardinalityType, BulkheadAssumption

(* A step with one of these effects keeps every slot accounted for.        *)
LEMMA AccountStep ==
  ASSUME TypeOK, SlotsAccounted, Effect
  PROVE  SlotsAccounted'
<1>1. /\ semaphore \in [Backends -> 0..MaxConcurrentRequests]
      /\ leaked \in [Backends -> Nat]
  BY DEF TypeOK
<1>2. \A b \in Backends : semaphore[b] = Cardinality(Holders(b)) + leaked[b]
  BY DEF SlotsAccounted
<1>3. SUFFICES \A b \in Backends :
                 semaphore'[b] = Cardinality(Holders(b)') + leaked'[b]
  BY DEF SlotsAccounted
<1>4. CASE HoldersKeep /\ UNCHANGED <<semaphore, leaked>>
  BY <1>2, <1>4 DEF HoldersKeep
<1>5. ASSUME NEW r \in Requests, NEW b \in Backends, HoldersTake(r, b),
             semaphore' = [semaphore EXCEPT ![b] = @ + 1], leaked' = leaked
      PROVE  \A c \in Backends :
               semaphore'[c] = Cardinality(Holders(c)') + leaked'[c]
  <2>1. Cardinality(Holders(b) \cup {r}) = Cardinality(Holders(b)) + 1
    BY <1>5, HoldersFinite, FS_AddElement DEF HoldersTake
  <2>2. semaphore'[b] = Cardinality(Holders(b)') + leaked'[b]
    <3>1. semaphore'[b] = semaphore[b] + 1 /\ leaked'[b] = leaked[b]
          /\ leaked[b] \in Nat
      BY <1>1, <1>5
    <3>2. Holders(b)' = Holders(b) \cup {r}
      BY <1>5 DEF HoldersTake
    <3> QED
      BY <1>2, <2>1, <3>1, <3>2, HoldersFinite
  <2>3. ASSUME NEW c \in Backends, c # b
        PROVE  semaphore'[c] = Cardinality(Holders(c)') + leaked'[c]
    BY <1>1, <1>2, <1>5, <2>3 DEF HoldersTake
  <2> QED
    BY <2>2, <2>3
<1>6. ASSUME NEW r \in Requests, NEW b \in Backends, HoldersDrop(r, b),
             \/ /\ semaphore' = [semaphore EXCEPT ![b] = @ - 1]
                /\ leaked' = leaked
             \/ /\ semaphore' = semaphore
                /\ leaked' = [leaked EXCEPT ![b] = @ + 1]
      PROVE  \A c \in Backends :
               semaphore'[c] = Cardinality(Holders(c)') + leaked'[c]
  <2>1. Cardinality(Holders(b) \ {r}) = Cardinality(Holders(b)) - 1
    BY <1>6, HoldersFinite, FS_RemoveElement DEF HoldersDrop
  <2>2. semaphore'[b] = Cardinality(Holders(b)') + leaked'[b]
    <3>1. /\ semaphore[b] \in Int /\ leaked[b] \in Nat
          /\ \/ semaphore'[b] = semaphore[b] - 1 /\ leaked'[b] = leaked[b]
             \/ semaphore'[b] = semaphore[b] /\ leaked'[b] = leaked[b] + 1
      BY <1>1, <1>6
    <3>2. Holders(b)' = Holders(b) \ {r}
      BY <1>6 DEF HoldersDrop
    <3> QED
      BY <1>2, <2>1, <3>1, <3>2, HoldersFinite
  <2>3. ASSUME NEW c \in Backends, c # b
        PROVE  semaphore'[c] = Cardinality(Holders(c)') + leaked'[c]
    BY <1>1, <1>2, <1>6, <2>3 DEF HoldersDrop
  <2> QED
    BY <2>2, <2>3
<1>7. ASSUME NEW r \in Requests, NEW b \in Backends, NEW s \in Requests,
             HoldersPass(r, s, b), semaphore' = semaphore, leaked' = leaked
      PROVE  \A c \in Backends :
               semaphore'[c] = Cardinality(Holders(c)') + leaked'[c]
  <2>1. /\ IsFiniteSet(Holders(b) \ {r})
        /\ Cardinality(Holders(b) \ {r}) = Cardinality(Holders(b)) - 1
    BY <1>7, HoldersFinite, FS_RemoveElement DEF HoldersPass
  <2>2. s \notin Holders(b) \ {r}
    BY <1>7 DEF HoldersPass
  <2>3. Cardinality((Holders(b) \ {r}) \cup {s}) =
          Cardinality(Holders(b) \ {r}) + 1
    BY <2>1, <2>2, FS_AddElement
  <2>4. Cardinality((Holders(b) \ {r}) \cup {s}) = Cardinality(Holders(b))
    BY <2>1, <2>3, HoldersFinite
  <2> QED
    BY <1>2, <1>7, <2>4 DEF HoldersPass
<1> QED
  BY <1>4, <1>5, <1>6, <1>7 DEF Effect

(* Initially nobody holds a slot, and the invariant holds.                 *)
LEMMA InitInv == Init => Inv
<1> SUFFICES ASSUME Init PROVE Inv
  OBVIOUS
<1>1. TypeOK
  BY BulkheadAssumption DEF Init, TypeOK, Locations, Entry
<1>2. Structure
  BY DEF Init, Structure, InsideOrIdle, GrantsWhileWaiting, ParkedKnown,
         QueueKnown, PoppedKnown
<1>3. SlotsAccounted
  <2>1. \A b \in Backends : Holders(b) = {}
    BY DEF Init, Holders
  <2>2. \A b \in Backends : semaphore[b] = 0 /\ leaked[b] = 0
    BY DEF Init
  <2> QED
    BY <2>1, <2>2, FS_EmptySet DEF SlotsAccounted
<1> QED
  BY <1>1, <1>2, <1>3 DEF Inv

(* Every step keeps the invariant.                                         *)
LEMMA InvStep == Inv /\ [Next]_vars => Inv'
BY TypeStep, StructureStep, StepEffect, AccountStep DEF Inv

(* Type correctness.                                                       *)
THEOREM TypeCorrect == Spec => []TypeOK
<1>1. Inv => TypeOK
  BY DEF Inv
<1> QED
  BY InitInv, InvStep, <1>1, PTL DEF Spec

(* Every slot of every bulkhead is accounted for, whatever the sizes of    *)
(* the semaphore and the queue (bulkhead.go:46-104).                       *)
THEOREM SlotsCorrect == Spec => []SlotsAccounted
<1>1. Inv => SlotsAccounted
  BY DEF Inv
<1> QED
  BY InitInv, InvStep, <1>1, PTL DEF Spec

(* No backend ever serves more than MaxConcurrentRequests requests.        *)
THEOREM LimitHolds == Spec => []ConcurrencyLimit
<1>1. Inv => ConcurrencyLimit
  <2>1. SUFFICES ASSUME Inv, NEW b \in Backends
                 PROVE  Cardinality(At(b, {"running"})) <= MaxConcurrentRequests
    BY DEF ConcurrencyLimit
  <2>2. At(b, {"running"}) \subseteq Holders(b)
    BY DEF At, Holders
  <2>3. /\ Cardinality(At(b, {"running"})) \in Nat
        /\ Cardinality(At(b, {"running"})) <= Cardinality(Holders(b))
    BY <2>2, HoldersFinite, FS_Subset, FS_CardinalityType
  <2>4. /\ semaphore[b] \in 0..MaxConcurrentRequests
        /\ leaked[b] \in Nat
        /\ semaphore[b] = Cardinality(Holders(b)) + leaked[b]
    BY <2>1 DEF Inv, TypeOK, SlotsAccounted
  <2> QED
    BY <2>3, <2>4, HoldersFinite, BulkheadAssumption
<1> QED
  BY InitInv, InvStep, <1>1, PTL DEF Spec

----------------------------------------------------------------------------
(* The refinement.                                                         *)

\* The map of SlotPool that the bulkheads stand for.
Users == [b \in Backends |-> Holders(b)]

(* The instance of SlotPool brings its own copy of Cardinality.            *)
LEMMA SameCardinality == ASSUME NEW S PROVE Pool!Cardinality(S) = Cardinality(S)
BY DEF Pool!Cardinality, Cardinality

(* The bulkhead implements the slot pool.                                  *)
THEOREM PoolImplemented == Spec => ImplementsSlotPool
<1>1. Init => Pool!Init
  BY DEF Init, Pool!Init, Holders
<1>2. ASSUME Inv, [Next]_vars
      PROVE  [Pool!Next]_<<Users, leaked>>
  <2>1. Effect
    BY <1>2, StepEffect DEF Inv
  <2>2. \A b \in Backends : Users[b] = Holders(b) /\ Users'[b] = Holders(b)'
    BY DEF Users
  <2>3. CASE HoldersKeep /\ UNCHANGED <<semaphore, leaked>>
    BY <2>3 DEF HoldersKeep, Users
  <2>4. ASSUME NEW r \in Requests, NEW b \in Backends, HoldersTake(r, b),
               semaphore[b] < MaxConcurrentRequests, leaked' = leaked
        PROVE  Pool!Take(r, b)
    <3>1. Cardinality(Users[b]) + leaked[b] < MaxConcurrentRequests
      BY <1>2, <2>2, <2>4 DEF Inv, SlotsAccounted
    <3>2. Users' = [Users EXCEPT ![b] = @ \cup {r}]
      BY <2>4 DEF HoldersTake, Users
    <3>3. ~ Pool!HasSlot(r)
      BY <2>4 DEF HoldersTake, Pool!HasSlot
    <3> QED
      BY <2>4, <3>1, <3>2, <3>3, SameCardinality DEF Pool!Take, Users
  <2>5. ASSUME NEW r \in Requests, NEW b \in Backends, HoldersDrop(r, b),
               leaked' = leaked
        PROVE  Pool!GiveBack(r, b)
    BY <2>5 DEF HoldersDrop, Pool!GiveBack
  <2>6. ASSUME NEW r \in Requests, NEW b \in Backends, HoldersDrop(r, b),
               leaked' = [leaked EXCEPT ![b] = @ + 1]
        PROVE  Pool!Lose(r, b)
    BY <2>6 DEF HoldersDrop, Pool!Lose
  <2>7. ASSUME NEW r \in Requests, NEW b \in Backends, NEW s \in Requests,
               HoldersPass(r, s, b), leaked' = leaked
        PROVE  Pool!PassOn(r, s, b)
    BY <2>7 DEF HoldersPass, Pool!PassOn, Pool!HasSlot
  <2> QED
    BY <2>1, <2>3, <2>4, <2>5, <2>6, <2>7 DEF Effect, Pool!Next
<1> QED
  BY InitInv, InvStep, <1>1, <1>2, PTL
     DEF Spec, ImplementsSlotPool, Pool!Spec, Users
=============================================================================

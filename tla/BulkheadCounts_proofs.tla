----------------------- MODULE BulkheadCounts_proofs -----------------------
(***************************************************************************)
(* More proofs about Bulkhead: what the counters of GetStats count, that   *)
(* no waiting request is forgotten or granted twice, and what a timeout    *)
(* costs.                                                                  *)
(*                                                                         *)
(* The counters go up and down with the sets of requests that StatsAccount *)
(* names, one request at a time: the lemmas say by how much a step of one  *)
(* request changes the size of such a set.                                 *)
(***************************************************************************)
EXTENDS Bulkhead_proofs, FunctionTheorems

ActiveOf(b)   == Cardinality(At(b, {"running", "freed", "granting"}))
TakenOf(b)    == Cardinality(At(b, {"refill", "blocked", "refilled"}))
EnteringOf(b) == Cardinality(At(b, {"queued"}))
Granted(b)    == {r \in Requests : at[r] = b /\ response[r]}
GrantedOf(b)  == Cardinality(Granted(b))

\* r goes to location l and place w.
Goes(r, l, w) == pc' = [pc EXCEPT ![r] = l] /\ at' = [at EXCEPT ![r] = w]

\* One, for the bulkhead where r is.
Here(r, b) == IF at[r] = b THEN 1 ELSE 0

----------------------------------------------------------------------------
LEMMA AtFinite ==
  ASSUME NEW b, NEW L
  PROVE  IsFiniteSet(At(b, L)) /\ Cardinality(At(b, L)) \in Nat
<1>1. At(b, L) \subseteq Requests
  BY DEF At
<1> QED
  BY <1>1, FS_Subset, FS_CardinalityType, BulkheadAssumption

LEMMA GrantedFinite ==
  ASSUME NEW b
  PROVE  IsFiniteSet(Granted(b)) /\ GrantedOf(b) \in Nat
<1>1. Granted(b) \subseteq Requests
  BY DEF Granted
<1> QED
  BY <1>1, FS_Subset, FS_CardinalityType, BulkheadAssumption DEF GrantedOf

(* Who moves joins the set of those who are where it goes to, and leaves   *)
(* the one where it was.                                                   *)
LEMMA AtCount ==
  ASSUME TypeOK, NEW r \in Requests, NEW l, NEW w, Goes(r, l, w), NEW b, NEW L
  PROVE  Cardinality(At(b, L)') = Cardinality(At(b, L))
           + (IF w = b /\ l \in L THEN 1 ELSE 0)
           - (IF at[r] = b /\ pc[r] \in L THEN 1 ELSE 0)
<1>1. \A s \in Requests : /\ pc'[s] = IF s = r THEN l ELSE pc[s]
                          /\ at'[s] = IF s = r THEN w ELSE at[s]
  BY DEF TypeOK, Goes
<1>2. At(b, L)' = IF w = b /\ l \in L THEN At(b, L) \cup {r} ELSE At(b, L) \ {r}
  BY <1>1 DEF At
<1>3. r \in At(b, L) <=> at[r] = b /\ pc[r] \in L
  BY DEF At
<1>4. /\ IsFiniteSet(At(b, L)) /\ Cardinality(At(b, L)) \in Nat
      /\ Cardinality(At(b, L) \cup {r}) =
           IF r \in At(b, L) THEN Cardinality(At(b, L)) ELSE Cardinality(At(b, L)) + 1
      /\ Cardinality(At(b, L) \ {r}) =
           IF r \in At(b, L) THEN Cardinality(At(b, L)) - 1 ELSE Cardinality(At(b, L))
  BY AtFinite, FS_AddElement, FS_RemoveElement
<1> QED
  BY <1>2, <1>3, <1>4

(* The same of the three sets that StatsAccount counts.                    *)
LEMMA Moved ==
  ASSUME TypeOK, NEW r \in Requests, NEW l, NEW w,
         Goes(r, l, w), NEW b
  PROVE  /\ ActiveOf(b) \in Nat /\ TakenOf(b) \in Nat /\ EnteringOf(b) \in Nat
         /\ ActiveOf(b)' = ActiveOf(b)
              + (IF w = b /\ l \in {"running", "freed", "granting"} THEN 1 ELSE 0)
              - (IF at[r] = b /\ pc[r] \in {"running", "freed", "granting"} THEN 1 ELSE 0)
         /\ TakenOf(b)' = TakenOf(b)
              + (IF w = b /\ l \in {"refill", "blocked", "refilled"} THEN 1 ELSE 0)
              - (IF at[r] = b /\ pc[r] \in {"refill", "blocked", "refilled"} THEN 1 ELSE 0)
         /\ EnteringOf(b)' = EnteringOf(b)
              + (IF w = b /\ l \in {"queued"} THEN 1 ELSE 0)
              - (IF at[r] = b /\ pc[r] \in {"queued"} THEN 1 ELSE 0)
BY AtCount, AtFinite DEF ActiveOf, TakenOf, EnteringOf

\* StatsAccount, by the names above.
Stats(b) == /\ activeCount[b] = ActiveOf(b) + GrantedOf(b) + leaked[b]
            /\ queuedCount[b] = Len(queue[b]) + TakenOf(b) - EnteringOf(b)

LEMMA StatsNamed ==
  /\ StatsAccount <=> \A b \in Backends : Stats(b)
  /\ StatsAccount' <=> \A b \in Backends : Stats(b)'
BY DEF StatsAccount, Stats, ActiveOf, TakenOf, EnteringOf, GrantedOf, Granted

LEMMA StatsTypes ==
  ASSUME TypeOK, NEW b \in Backends
  PROVE  /\ activeCount[b] \in Int /\ queuedCount[b] \in Int /\ leaked[b] \in Nat
         /\ Len(queue[b]) \in Nat /\ GrantedOf(b) \in Nat
BY GrantedFinite DEF TypeOK

LEMMA HereType == \A r, b : Here(r, b) \in {0, 1}
BY DEF Here

(* Every step keeps the counters right.                                    *)
LEMMA StatsStep ==
  ASSUME Inv, \A b \in Backends : Stats(b), [Next]_vars
  PROVE  \A b \in Backends : Stats(b)'
<1> TypeOK /\ InsideOrIdle /\ GrantsWhileWaiting /\ ParkedKnown /\ PoppedKnown
  BY DEF Inv, Structure
<1>1. ASSUME NEW r \in Requests, NEW c \in Backends, Acquire(r, c) \/ FindFull(r, c),
             NEW b \in Backends
      PROVE  Stats(b)'
  <2>1. PICK l \in {"acquired", "full"} :
          Goes(r, l, c)
    BY <1>1 DEF Acquire, FindFull, Goto, Goes
  <2>2. /\ pc[r] = "idle" /\ at[r] = None /\ ~ response[r]
        /\ UNCHANGED <<queue, response, activeCount, queuedCount, leaked>>
    BY <1>1 DEF Acquire, FindFull, InsideOrIdle, GrantsWhileWaiting
  <2>3. GrantedOf(b)' = GrantedOf(b)
    BY <2>1, <2>2 DEF GrantedOf, Granted, TypeOK, Goes
  <2>4. /\ ActiveOf(b)' = ActiveOf(b) /\ TakenOf(b)' = TakenOf(b)
        /\ EnteringOf(b)' = EnteringOf(b)
    BY <2>1, <2>2, Moved DEF Here
  <2> QED
    BY <2>2, <2>3, <2>4 DEF Stats, GrantedOf
<1>2. ASSUME NEW r \in Requests, CountActive(r), NEW b \in Backends
      PROVE  Stats(b)'
  <2>1. /\ Goes(r, "running", at[r])
        /\ at' = at /\ pc[r] = "acquired" /\ UNCHANGED <<queue, response, queuedCount, leaked>>
    BY <1>2 DEF CountActive, Goto, Goes, TypeOK
  <2>2. activeCount'[b] = activeCount[b] + Here(r, b)
    BY <1>2 DEF CountActive, TypeOK, Here
  <2>3. /\ ActiveOf(b)' = ActiveOf(b) + Here(r, b) /\ TakenOf(b)' = TakenOf(b)
        /\ EnteringOf(b)' = EnteringOf(b) /\ ActiveOf(b) \in Nat
    BY <2>1, Moved DEF Here
  <2>4. GrantedOf(b)' = GrantedOf(b)
    BY <2>1 DEF GrantedOf, Granted
  <2> QED
    BY <2>1, <2>2, <2>3, <2>4, StatsTypes, HereType DEF Stats
<1>3. ASSUME NEW r \in Requests, Enqueue(r), NEW b \in Backends
      PROVE  Stats(b)'
  <2>1. /\ Goes(r, "queued", at[r])
        /\ at' = at /\ pc[r] = "full"
        /\ UNCHANGED <<response, activeCount, queuedCount, leaked>>
    BY <1>3 DEF Enqueue, Goto, Goes, TypeOK
  <2>2. Len(queue'[b]) = Len(queue[b]) + Here(r, b)
    BY <1>3 DEF Enqueue, TypeOK, Here, Entry
  <2>3. /\ ActiveOf(b)' = ActiveOf(b) /\ TakenOf(b)' = TakenOf(b)
        /\ EnteringOf(b)' = EnteringOf(b) + Here(r, b)
        /\ EnteringOf(b) \in Nat /\ TakenOf(b) \in Nat
    BY <2>1, Moved DEF Here
  <2>4. GrantedOf(b)' = GrantedOf(b)
    BY <2>1 DEF GrantedOf, Granted
  <2> QED
    BY <2>1, <2>2, <2>3, <2>4, StatsTypes, HereType DEF Stats
<1>4. ASSUME NEW r \in Requests, Reject(r) \/ FindQueueEmpty(r), NEW b \in Backends
      PROVE  Stats(b)'
  <2>1. /\ Goes(r, "idle", None)
        /\ pc[r] \in {"full", "draining"} /\ ~ response[r]
        /\ UNCHANGED <<queue, response, activeCount, queuedCount, leaked>>
    BY <1>4 DEF Reject, FindQueueEmpty, Exit, Goto, Goes, GrantsWhileWaiting
  <2>2. /\ ActiveOf(b)' = ActiveOf(b) /\ TakenOf(b)' = TakenOf(b)
        /\ EnteringOf(b)' = EnteringOf(b)
    BY <2>1, Moved DEF Here
  <2>3. GrantedOf(b)' = GrantedOf(b)
    BY <2>1 DEF GrantedOf, Granted, TypeOK, Goes
  <2> QED
    BY <2>1, <2>2, <2>3 DEF Stats, GrantedOf
<1>5. ASSUME NEW r \in Requests, CountQueued(r), NEW b \in Backends
      PROVE  Stats(b)'
  <2>1. /\ Goes(r, "waiting", at[r])
        /\ at' = at /\ pc[r] = "queued"
        /\ UNCHANGED <<queue, response, activeCount, leaked>>
    BY <1>5 DEF CountQueued, Goto, Goes, TypeOK
  <2>2. queuedCount'[b] = queuedCount[b] + Here(r, b)
    BY <1>5 DEF CountQueued, TypeOK, Here
  <2>3. /\ ActiveOf(b)' = ActiveOf(b) /\ TakenOf(b)' = TakenOf(b)
        /\ EnteringOf(b)' = EnteringOf(b) - Here(r, b)
        /\ EnteringOf(b) \in Nat /\ TakenOf(b) \in Nat
    BY <2>1, Moved DEF Here
  <2>4. GrantedOf(b)' = GrantedOf(b)
    BY <2>1 DEF GrantedOf, Granted
  <2> QED
    BY <2>1, <2>2, <2>3, <2>4, StatsTypes, HereType DEF Stats
<1>6. ASSUME NEW r \in Requests, ReceiveGrant(r), NEW b \in Backends
      PROVE  Stats(b)'
  <2>1. /\ Goes(r, "running", at[r])
        /\ at' = at /\ pc[r] = "waiting" /\ response[r]
        /\ response' = [response EXCEPT ![r] = FALSE]
        /\ UNCHANGED <<queue, activeCount, queuedCount, leaked>>
    BY <1>6 DEF ReceiveGrant, Goto, Goes, TypeOK
  <2>2. /\ ActiveOf(b)' = ActiveOf(b) + Here(r, b) /\ TakenOf(b)' = TakenOf(b)
        /\ EnteringOf(b)' = EnteringOf(b) /\ ActiveOf(b) \in Nat
    BY <2>1, Moved DEF Here
  <2>3. GrantedOf(b)' = GrantedOf(b) - Here(r, b)
    <3>1. Granted(b)' = Granted(b) \ {r} /\ (r \in Granted(b) <=> at[r] = b)
      BY <2>1 DEF Granted, TypeOK, Goes
    <3>2. Cardinality(Granted(b) \ {r}) = IF r \in Granted(b) THEN Cardinality(Granted(b)) - 1
                                                             ELSE Cardinality(Granted(b))
      BY GrantedFinite, FS_RemoveElement
    <3>3. Cardinality(Granted(b)) \in Nat
      BY GrantedFinite DEF GrantedOf
    <3> QED
      BY <3>1, <3>2, <3>3 DEF GrantedOf, Here
  <2> QED
    BY <2>1, <2>2, <2>3, StatsTypes, HereType DEF Stats
<1>7. ASSUME NEW r \in Requests, GiveUp(r), NEW b \in Backends
      PROVE  Stats(b)'
  <2>1. /\ Goes(r, "idle", None)
        /\ pc[r] = "waiting" /\ ~ response[r]
        /\ UNCHANGED <<response, activeCount, queuedCount, leaked>>
    BY <1>7 DEF GiveUp, Exit, Goto, Goes
  <2>2. Len(queue'[b]) = Len(queue[b])
    <3>1. at[r] \in Backends
      BY <2>1, WhereInside
    <3>2. queue[at[r]] \in Seq(Entry)
      BY <3>1 DEF TypeOK
    <3>3. Len(Abandoned(queue[at[r]], r)) = Len(queue[at[r]])
      BY <3>2, AbandonedEntries
    <3> QED
      BY <1>7, <3>1, <3>3 DEF GiveUp, TypeOK
  <2>3. /\ ActiveOf(b)' = ActiveOf(b) /\ TakenOf(b)' = TakenOf(b)
        /\ EnteringOf(b)' = EnteringOf(b)
    BY <2>1, Moved DEF Here
  <2>4. GrantedOf(b)' = GrantedOf(b)
    BY <2>1 DEF GrantedOf, Granted, TypeOK, Goes
  <2> QED
    BY <2>1, <2>2, <2>3, <2>4 DEF Stats, GrantedOf
<1>8. ASSUME NEW r \in Requests, GiveUpGranted(r), NEW b \in Backends
      PROVE  Stats(b)'
  <2>1. /\ Goes(r, "idle", None)
        /\ pc[r] = "waiting" /\ response[r] /\ at[r] \in Backends
        /\ response' = [response EXCEPT ![r] = FALSE]
        /\ UNCHANGED <<queue, activeCount, queuedCount>>
    BY <1>8, WhereInside DEF GiveUpGranted, Exit, Goto, Goes
  <2>2. leaked'[b] = leaked[b] + Here(r, b)
    BY <1>8 DEF GiveUpGranted, TypeOK, Here
  <2>3. /\ ActiveOf(b)' = ActiveOf(b) /\ TakenOf(b)' = TakenOf(b)
        /\ EnteringOf(b)' = EnteringOf(b) /\ ActiveOf(b) \in Nat
    BY <2>1, Moved DEF Here
  <2>4. GrantedOf(b)' = GrantedOf(b) - Here(r, b)
    <3>1. Granted(b)' = Granted(b) \ {r} /\ (r \in Granted(b) <=> at[r] = b)
      BY <2>1 DEF Granted, TypeOK, Goes
    <3>2. Cardinality(Granted(b) \ {r}) = IF r \in Granted(b) THEN Cardinality(Granted(b)) - 1
                                                             ELSE Cardinality(Granted(b))
      BY GrantedFinite, FS_RemoveElement
    <3>3. Cardinality(Granted(b)) \in Nat
      BY GrantedFinite DEF GrantedOf
    <3> QED
      BY <3>1, <3>2, <3>3 DEF GrantedOf, Here
  <2> QED
    BY <2>1, <2>2, <2>3, <2>4, StatsTypes, HereType DEF Stats
<1>9. ASSUME NEW r \in Requests, FreeSlot(r) \/ Refill(r) \/ Park(r), NEW b \in Backends
      PROVE  Stats(b)'
  <2>1. /\ at' = at
        /\ UNCHANGED <<queue, response, activeCount, queuedCount, leaked>>
    BY <1>9 DEF FreeSlot, Refill, Park, TypeOK
  <2>2. PICK l : /\ Goes(r, l, at[r])
                 /\ \/ pc[r] = "running" /\ l = "freed"
                    \/ pc[r] = "refill" /\ l \in {"blocked", "refilled"}
    BY <1>9 DEF FreeSlot, Refill, Park, Goto, Goes, TypeOK
  <2>3. /\ ActiveOf(b)' = ActiveOf(b) /\ TakenOf(b)' = TakenOf(b)
        /\ EnteringOf(b)' = EnteringOf(b)
    BY <2>1, <2>2, Moved DEF Here
  <2>4. GrantedOf(b)' = GrantedOf(b)
    BY <2>1 DEF GrantedOf, Granted
  <2> QED
    BY <2>1, <2>3, <2>4 DEF Stats, GrantedOf
<1>10. ASSUME NEW r \in Requests, HandOver(r), NEW b \in Backends
       PROVE  Stats(b)'
  <2> DEFINE s == Head(sendq[at[r]])
  <2>1. pc[r] = "running" /\ at[r] \in Backends /\ sendq[at[r]] # <<>>
    BY <1>10, WhereInside DEF HandOver
  <2>2. s \in Requests /\ pc[s] = "blocked"
    BY <2>1, FirstParked
  <2> HIDE DEF s
  <2>3. /\ pc' = [pc EXCEPT ![r] = "freed", ![s] = "refilled"]
        /\ UNCHANGED <<at, queue, response, activeCount, queuedCount, leaked>>
    BY <1>10 DEF HandOver, s
  <2>4. \A t \in Requests : pc'[t] = IF t = s THEN "refilled"
                                     ELSE IF t = r THEN "freed" ELSE pc[t]
    BY <2>3 DEF TypeOK
  <2>5. At(b, {"running", "freed", "granting"})' = At(b, {"running", "freed", "granting"})
    <3>1. \A t \in Requests : pc'[t] \in {"running", "freed", "granting"} <=> pc[t] \in {"running", "freed", "granting"}
      BY <2>1, <2>2, <2>4
    <3> QED
      BY <2>3, <3>1 DEF At
  <2>6. At(b, {"refill", "blocked", "refilled"})' = At(b, {"refill", "blocked", "refilled"})
    <3>1. \A t \in Requests : pc'[t] \in {"refill", "blocked", "refilled"} <=> pc[t] \in {"refill", "blocked", "refilled"}
      BY <2>1, <2>2, <2>4
    <3> QED
      BY <2>3, <3>1 DEF At
  <2>7. At(b, {"queued"})' = At(b, {"queued"})
    <3>1. \A t \in Requests : pc'[t] \in {"queued"} <=> pc[t] \in {"queued"}
      BY <2>1, <2>2, <2>4
    <3> QED
      BY <2>3, <3>1 DEF At
  <2>8. GrantedOf(b)' = GrantedOf(b)
    BY <2>3 DEF GrantedOf, Granted
  <2> QED
    BY <2>3, <2>5, <2>6, <2>7, <2>8 DEF Stats, ActiveOf, TakenOf, EnteringOf, GrantedOf
<1>11. ASSUME NEW r \in Requests, CountFreed(r), NEW b \in Backends
       PROVE  Stats(b)'
  <2>1. /\ Goes(r, "draining", at[r])
        /\ at' = at /\ pc[r] = "freed" /\ UNCHANGED <<queue, response, queuedCount, leaked>>
    BY <1>11 DEF CountFreed, Goto, Goes, TypeOK
  <2>2. activeCount'[b] = activeCount[b] - Here(r, b)
    BY <1>11 DEF CountFreed, TypeOK, Here
  <2>3. /\ ActiveOf(b)' = ActiveOf(b) - Here(r, b) /\ TakenOf(b)' = TakenOf(b)
        /\ EnteringOf(b)' = EnteringOf(b) /\ ActiveOf(b) \in Nat
    BY <2>1, Moved DEF Here
  <2>4. GrantedOf(b)' = GrantedOf(b)
    BY <2>1 DEF GrantedOf, Granted
  <2> QED
    BY <2>1, <2>2, <2>3, <2>4, StatsTypes, HereType DEF Stats
<1>12. ASSUME NEW r \in Requests, PopQueue(r), NEW b \in Backends
       PROVE  Stats(b)'
  <2>1. /\ Goes(r, "refill", at[r])
        /\ at' = at /\ pc[r] = "draining"
        /\ UNCHANGED <<response, activeCount, queuedCount, leaked>>
    BY <1>12 DEF PopQueue, Goto, Goes, TypeOK
  <2>2. Len(queue'[b]) = Len(queue[b]) - Here(r, b)
    <3>1. queue[at[r]] # <<>> /\ queue' = [queue EXCEPT ![at[r]] = Tail(queue[at[r]])]
      BY <1>12 DEF PopQueue
    <3>2. \A c \in Backends : queue[c] \in Seq(Entry)
      BY DEF TypeOK
    <3>3. at[r] = b => Len(Tail(queue[b])) = Len(queue[b]) - 1
      BY <3>1, <3>2
    <3>4. Len(queue[b]) \in Nat /\ queue'[b] = IF at[r] = b THEN Tail(queue[b]) ELSE queue[b]
      BY <3>1, <3>2 DEF TypeOK
    <3> QED
      BY <3>3, <3>4 DEF Here
  <2>3. /\ ActiveOf(b)' = ActiveOf(b) /\ TakenOf(b)' = TakenOf(b) + Here(r, b)
        /\ EnteringOf(b)' = EnteringOf(b)
        /\ EnteringOf(b) \in Nat /\ TakenOf(b) \in Nat
    BY <2>1, Moved DEF Here
  <2>4. GrantedOf(b)' = GrantedOf(b)
    BY <2>1 DEF GrantedOf, Granted
  <2> QED
    BY <2>1, <2>2, <2>3, <2>4, StatsTypes, HereType DEF Stats
<1>13. ASSUME NEW r \in Requests, CountGrant(r), NEW b \in Backends
       PROVE  Stats(b)'
  <2>1. /\ Goes(r, "granting", at[r])
        /\ at' = at /\ pc[r] = "refilled" /\ UNCHANGED <<queue, response, leaked>>
    BY <1>13 DEF CountGrant, Goto, Goes, TypeOK
  <2>2. /\ activeCount'[b] = activeCount[b] + Here(r, b)
        /\ queuedCount'[b] = queuedCount[b] - Here(r, b)
    BY <1>13 DEF CountGrant, TypeOK, Here
  <2>3. /\ ActiveOf(b)' = ActiveOf(b) + Here(r, b)
        /\ TakenOf(b)' = TakenOf(b) - Here(r, b) /\ EnteringOf(b)' = EnteringOf(b)
        /\ ActiveOf(b) \in Nat /\ EnteringOf(b) \in Nat /\ TakenOf(b) \in Nat
    BY <2>1, Moved DEF Here
  <2>4. GrantedOf(b)' = GrantedOf(b)
    BY <2>1 DEF GrantedOf, Granted
  <2>5. activeCount[b] = ActiveOf(b) + GrantedOf(b) + leaked[b]
        /\ queuedCount[b] = Len(queue[b]) + TakenOf(b) - EnteringOf(b)
    BY DEF Stats
  <2>6. /\ leaked'[b] = leaked[b] /\ queue'[b] = queue[b]
        /\ leaked[b] \in Nat /\ Len(queue[b]) \in Nat /\ GrantedOf(b) \in Nat
        /\ Here(r, b) \in Int
    BY <2>1, StatsTypes, HereType
  <2>7. activeCount'[b] = ActiveOf(b)' + GrantedOf(b)' + leaked'[b]
    BY <2>2, <2>3, <2>4, <2>5, <2>6
  <2>8. queuedCount'[b] = Len(queue'[b]) + TakenOf(b)' - EnteringOf(b)'
    BY <2>2, <2>3, <2>5, <2>6
  <2> QED
    BY <2>7, <2>8 DEF Stats
<1>14. ASSUME NEW r \in Requests, SendGrant(r), NEW b \in Backends
       PROVE  Stats(b)'
  <2> DEFINE q == popped[r]
  <2>1. /\ Goes(r, "idle", None)
        /\ pc[r] = "granting" /\ ~ response[r]
        /\ response' = [response EXCEPT ![q] = TRUE]
        /\ UNCHANGED <<queue, activeCount, queuedCount, leaked>>
    BY <1>14 DEF SendGrant, Exit, Goto, Goes, GrantsWhileWaiting
  <2>2. q \in Requests /\ q # r /\ at[q] = at[r] /\ ~ response[q]
    BY <1>14 DEF SendGrant, TypeOK, PoppedKnown, WaitsAt, Entry
  <2> HIDE DEF q
  <2>3. /\ ActiveOf(b)' = ActiveOf(b) - Here(r, b) /\ TakenOf(b)' = TakenOf(b)
        /\ EnteringOf(b)' = EnteringOf(b) /\ ActiveOf(b) \in Nat
    BY <2>1, Moved, BulkheadAssumption DEF Here
  <2>4. GrantedOf(b)' = GrantedOf(b) + Here(r, b)
    <3>1. q \notin Granted(b)
          /\ Granted(b)' = IF at[r] = b THEN Granted(b) \cup {q} ELSE Granted(b)
      BY <2>1, <2>2, BulkheadAssumption DEF Granted, TypeOK, Goes
    <3>2. Cardinality(Granted(b) \cup {q}) = IF q \in Granted(b) THEN Cardinality(Granted(b))
                                              ELSE Cardinality(Granted(b)) + 1
      BY GrantedFinite, FS_AddElement
    <3>3. Cardinality(Granted(b)) \in Nat
      BY GrantedFinite DEF GrantedOf
    <3> QED
      BY <3>1, <3>2, <3>3 DEF GrantedOf, Here
  <2> QED
    BY <2>1, <2>3, <2>4, StatsTypes, HereType DEF Stats
<1>15. ASSUME NEW r \in Requests, GrantNobody(r), NEW b \in Backends
       PROVE  Stats(b)'
  <2>1. /\ Goes(r, "idle", None)
        /\ pc[r] = "granting" /\ ~ response[r]
        /\ UNCHANGED <<queue, response, activeCount, queuedCount>>
    BY <1>15 DEF GrantNobody, Exit, Goto, Goes, GrantsWhileWaiting
  <2>2. leaked'[b] = leaked[b] + Here(r, b)
    BY <1>15 DEF GrantNobody, TypeOK, Here
  <2>3. /\ ActiveOf(b)' = ActiveOf(b) - Here(r, b) /\ TakenOf(b)' = TakenOf(b)
        /\ EnteringOf(b)' = EnteringOf(b) /\ ActiveOf(b) \in Nat
    BY <2>1, Moved, BulkheadAssumption DEF Here
  <2>4. GrantedOf(b)' = GrantedOf(b)
    BY <2>1 DEF GrantedOf, Granted, TypeOK, Goes
  <2> QED
    BY <2>1, <2>2, <2>3, <2>4, StatsTypes, HereType DEF Stats
<1>16. CASE UNCHANGED vars
  BY <1>16 DEF vars, Stats, ActiveOf, TakenOf, EnteringOf, GrantedOf, Granted, At
<1> QED
  BY <1>1, <1>2, <1>3, <1>4, <1>5, <1>6, <1>7, <1>8, <1>9, <1>10, <1>11, <1>12, <1>13,
     <1>14, <1>15, <1>16 DEF Next, TryAcquireStep, StartRelease, ReleaseStep

----------------------------------------------------------------------------
(* The waiters.                                                            *)

QueueBounded == \A b \in Backends : Len(queue[b]) <= QueueSize

InQueue(r)  ==
  \E b \in Backends : \E i \in Nat : i \in 1..Len(queue[b]) /\ queue[b][i] = r
InHands(r)  == \E s \in Requests : popped[s] = r

\* Structure says that a waiter is in at most one of these places, once.
WaiterSomewhere ==
  \A r \in Requests :
    pc[r] \in {"queued", "waiting"} => InQueue(r) \/ InHands(r) \/ response[r]

\* The inductive invariant of this module.
CountsInv == Inv /\ (\A b \in Backends : Stats(b)) /\ QueueBounded /\ WaiterSomewhere

LEMMA QueueStep ==
  ASSUME TypeOK, InsideOrIdle, QueueBounded, [Next]_vars
  PROVE  QueueBounded'
<1>1. \A b \in Backends : queue[b] \in Seq(Entry) /\ Len(queue[b]) \in Nat
  BY DEF TypeOK
<1>2. ASSUME NEW r \in Requests, Enqueue(r)
      PROVE  QueueBounded'
  BY <1>1, <1>2, BulkheadAssumption DEF QueueBounded, Enqueue, TypeOK, Entry
<1>3. ASSUME NEW r \in Requests, GiveUp(r)
      PROVE  QueueBounded'
  <2>1. at[r] \in Backends
    BY <1>3, WhereInside DEF GiveUp
  <2>2. Len(Abandoned(queue[at[r]], r)) = Len(queue[at[r]])
    BY <1>1, <2>1, AbandonedEntries
  <2> QED
    BY <1>3, <2>1, <2>2 DEF QueueBounded, GiveUp, TypeOK
<1>4. ASSUME NEW r \in Requests, PopQueue(r)
      PROVE  QueueBounded'
  <2>1. queue[at[r]] # <<>> /\ queue' = [queue EXCEPT ![at[r]] = Tail(queue[at[r]])]
    BY <1>4 DEF PopQueue
  <2>2. at[r] \in Backends
    BY <1>4, WhereInside DEF PopQueue
  <2>3. Len(Tail(queue[at[r]])) = Len(queue[at[r]]) - 1
    BY <1>1, <2>1, <2>2
  <2>4. \A b \in Backends : Len(queue'[b]) <= Len(queue[b])
    BY <1>1, <2>1, <2>3 DEF TypeOK
  <2>5. \A b \in Backends : Len(queue'[b]) \in Nat
    BY <1>1, <2>1, <2>2, <2>3 DEF TypeOK
  <2> QED
    BY <1>1, <2>4, <2>5, BulkheadAssumption DEF QueueBounded
<1>5. CASE UNCHANGED queue
  BY <1>5 DEF QueueBounded
<1> QED
  BY <1>2, <1>3, <1>4, <1>5
     DEF Next, TryAcquireStep, StartRelease, ReleaseStep, vars,
         Acquire, FindFull, CountActive, Reject, CountQueued, ReceiveGrant,
         GiveUpGranted, FreeSlot, HandOver, CountFreed, FindQueueEmpty,
         Refill, Park, CountGrant, SendGrant, GrantNobody

(* Every step leaves every waiter somewhere.                               *)
LEMMA WaiterStep ==
  ASSUME TypeOK, Structure, WaiterSomewhere, [Next]_vars
  PROVE  WaiterSomewhere'
<1> TypeOK /\ InsideOrIdle /\ GrantsWhileWaiting /\ ParkedKnown /\ QueueKnown /\ PoppedKnown
  BY DEF Structure
<1>1. ASSUME NEW r \in Requests, Enqueue(r)
      PROVE  WaiterSomewhere'
  <2>1. /\ at[r] \in Backends /\ pc' = [pc EXCEPT ![r] = "queued"]
        /\ queue' = [queue EXCEPT ![at[r]] = Append(queue[at[r]], r)]
        /\ UNCHANGED <<popped, response>>
    BY <1>1, WhereInside DEF Enqueue, Goto
  <2>2. queue[at[r]] \in Seq(Entry) /\ Len(queue[at[r]]) \in Nat /\ r \in Entry
    BY <2>1 DEF TypeOK, Entry
  <2>3. /\ Len(queue'[at[r]]) = Len(queue[at[r]]) + 1
        /\ queue'[at[r]][Len(queue[at[r]]) + 1] = r
        /\ \A i \in 1..Len(queue[at[r]]) : queue'[at[r]][i] = queue[at[r]][i]
    BY <2>1, <2>2 DEF TypeOK
  <2>4. InQueue(r)'
    <3>1. Len(queue[at[r]]) + 1 \in 1..Len(queue'[at[r]])
      BY <2>2, <2>3
    <3> QED
      BY <2>1, <2>3, <3>1 DEF InQueue
  <2>5. ASSUME NEW s \in Requests, InQueue(s)
        PROVE  InQueue(s)'
    <3>1. PICK b \in Backends, i \in Nat : i \in 1..Len(queue[b]) /\ queue[b][i] = s
      BY <2>5 DEF InQueue
    <3>2. CASE b = at[r]
      <4>1. i \in 1..Len(queue'[b])
        BY <2>2, <2>3, <3>1, <3>2
      <4> QED
        BY <2>3, <3>1, <3>2, <4>1 DEF InQueue
    <3>3. CASE b # at[r]
      <4>1. queue'[b] = queue[b]
        BY <2>1, <3>3 DEF TypeOK
      <4> QED
        BY <3>1, <4>1 DEF InQueue
    <3> QED
      BY <3>2, <3>3
  <2>6. \A s \in Requests : s # r => pc'[s] = pc[s]
    BY <2>1 DEF TypeOK
  <2> QED
    BY <2>1, <2>4, <2>5, <2>6 DEF WaiterSomewhere, InHands
<1>2. ASSUME NEW r \in Requests, GiveUp(r)
      PROVE  WaiterSomewhere'
  <2>1. /\ at[r] \in Backends /\ pc' = [pc EXCEPT ![r] = "idle"]
        /\ queue' = [queue EXCEPT ![at[r]] = Abandoned(queue[at[r]], r)]
        /\ popped' = Abandoned(popped, r) /\ UNCHANGED response
    BY <1>2, WhereInside DEF GiveUp, Exit, Goto
  <2>2. queue[at[r]] \in Seq(Entry)
    BY <2>1 DEF TypeOK
  <2>3. /\ Len(Abandoned(queue[at[r]], r)) = Len(queue[at[r]])
        /\ \A i \in 1..Len(queue[at[r]]) : Abandoned(queue[at[r]], r)[i] =
              IF queue[at[r]][i] = r THEN None ELSE queue[at[r]][i]
    BY <2>2, AbandonedEntries
  <2>4. ASSUME NEW s \in Requests, s # r, InQueue(s)
        PROVE  InQueue(s)'
    <3>1. PICK b \in Backends, i \in Nat : i \in 1..Len(queue[b]) /\ queue[b][i] = s
      BY <2>4 DEF InQueue
    <3>2. queue'[b] = IF b = at[r] THEN Abandoned(queue[at[r]], r) ELSE queue[b]
      BY <2>1 DEF TypeOK
    <3>3. i \in 1..Len(queue'[b]) /\ queue'[b][i] = s
      BY <2>3, <2>4, <3>1, <3>2
    <3> QED
      BY <3>3 DEF InQueue
  <2>5. ASSUME NEW s \in Requests, s # r, InHands(s)
        PROVE  InHands(s)'
    BY <2>1, <2>5, AbandonedPopped DEF InHands, TypeOK
  <2>6. \A s \in Requests : pc'[s] = IF s = r THEN "idle" ELSE pc[s]
    BY <2>1 DEF TypeOK
  <2> QED
    BY <2>1, <2>4, <2>5, <2>6 DEF WaiterSomewhere
<1>3. ASSUME NEW r \in Requests, PopQueue(r)
      PROVE  WaiterSomewhere'
  <2>1. /\ at[r] \in Backends /\ pc[r] = "draining" /\ pc' = [pc EXCEPT ![r] = "refill"]
        /\ queue[at[r]] # <<>> /\ queue' = [queue EXCEPT ![at[r]] = Tail(queue[at[r]])]
        /\ popped' = [popped EXCEPT ![r] = Head(queue[at[r]])] /\ UNCHANGED response
    BY <1>3, WhereInside DEF PopQueue, Goto
  <2>2. queue[at[r]] \in Seq(Entry) /\ Len(queue[at[r]]) \in Nat \ {0}
    BY <2>1 DEF TypeOK
  <2>3. /\ Len(Tail(queue[at[r]])) = Len(queue[at[r]]) - 1
        /\ Head(queue[at[r]]) = queue[at[r]][1]
        /\ \A i \in 1..(Len(queue[at[r]]) - 1) : Tail(queue[at[r]])[i] = queue[at[r]][i + 1]
    BY <2>1, <2>2
  <2>4. ASSUME NEW s \in Requests, InQueue(s)
        PROVE  InQueue(s)' \/ InHands(s)'
    <3>1. PICK b \in Backends, i \in Nat : i \in 1..Len(queue[b]) /\ queue[b][i] = s
      BY <2>4 DEF InQueue
    <3>2. CASE b # at[r]
      <4>1. queue'[b] = queue[b]
        BY <2>1, <3>2 DEF TypeOK
      <4> QED
        BY <3>1, <4>1 DEF InQueue
    <3>3. CASE b = at[r] /\ i = 1
      <4>1. popped'[r] = s
        BY <2>1, <2>3, <3>1, <3>3 DEF TypeOK
      <4> QED
        BY <4>1 DEF InHands
    <3>4. CASE b = at[r] /\ i # 1
      <4>1. queue'[b] = Tail(queue[b])
        BY <2>1, <3>4 DEF TypeOK
      <4>2. i - 1 \in 1..Len(queue'[b]) /\ i - 1 \in 1..(Len(queue[b]) - 1) /\ (i - 1) + 1 = i
        BY <2>2, <2>3, <3>1, <3>4, <4>1
      <4>3. queue'[b][i - 1] = s
        BY <2>3, <3>1, <3>4, <4>1, <4>2
      <4> QED
        BY <4>2, <4>3 DEF InQueue
    <3> QED
      BY <3>2, <3>3, <3>4
  <2>5. ASSUME NEW s \in Requests, InHands(s)
        PROVE  InHands(s)'
    <3>1. PICK t \in Requests : popped[t] = s
      BY <2>5 DEF InHands
    <3>2. s # None
      BY BulkheadAssumption
    <3>3. t # r
      BY <2>1, <3>1, <3>2 DEF PoppedKnown
    <3> QED
      BY <2>1, <3>1, <3>3 DEF InHands, TypeOK
  <2>6. \A s \in Requests : pc'[s] = IF s = r THEN "refill" ELSE pc[s]
    BY <2>1 DEF TypeOK
  <2> QED
    BY <2>1, <2>4, <2>5, <2>6 DEF WaiterSomewhere
<1>4. ASSUME NEW r \in Requests, SendGrant(r)
      PROVE  WaiterSomewhere'
  <2>1. /\ pc' = [pc EXCEPT ![r] = "idle"] /\ popped[r] # None /\ UNCHANGED queue
        /\ popped' = [popped EXCEPT ![r] = None]
        /\ response' = [response EXCEPT ![popped[r]] = TRUE]
    BY <1>4 DEF SendGrant, Exit, Goto
  <2>2. popped[r] \in Requests
    BY <2>1 DEF TypeOK, Entry
  <2>3. ASSUME NEW s \in Requests, InHands(s)
        PROVE  InHands(s)' \/ response'[s]
    <3>1. PICK t \in Requests : popped[t] = s
      BY <2>3 DEF InHands
    <3>2. CASE t = r
      BY <2>1, <2>2, <3>1, <3>2 DEF TypeOK
    <3>3. CASE t # r
      BY <2>1, <3>1, <3>3 DEF InHands, TypeOK
    <3> QED
      BY <3>2, <3>3
  <2>4. \A s \in Requests : response[s] => response'[s]
    BY <2>1, <2>2 DEF TypeOK
  <2>5. \A s \in Requests : pc'[s] = IF s = r THEN "idle" ELSE pc[s]
    BY <2>1 DEF TypeOK
  <2>6. \A s \in Requests : InQueue(s) => InQueue(s)'
    BY <2>1 DEF InQueue
  <2> QED
    BY <2>3, <2>4, <2>5, <2>6 DEF WaiterSomewhere
<1>5. ASSUME NEW r \in Requests, ReceiveGrant(r) \/ GiveUpGranted(r)
      PROVE  WaiterSomewhere'
  <2>1. /\ UNCHANGED <<queue, popped>> /\ response' = [response EXCEPT ![r] = FALSE]
        /\ \E l \in {"running", "idle"} : pc' = [pc EXCEPT ![r] = l]
    BY <1>5 DEF ReceiveGrant, GiveUpGranted, Exit, Goto
  <2>2. /\ pc'[r] \notin {"queued", "waiting"}
        /\ \A s \in Requests : s # r => pc'[s] = pc[s] /\ response'[s] = response[s]
    BY <2>1 DEF TypeOK
  <2> QED
    BY <2>1, <2>2 DEF WaiterSomewhere, InQueue, InHands
<1>6. ASSUME UNCHANGED <<queue, popped, response>>,
             \A s \in Requests : pc'[s] \in {"queued", "waiting"} =>
                                  pc[s] \in {"queued", "waiting"}
      PROVE  WaiterSomewhere'
  BY <1>6 DEF WaiterSomewhere, InQueue, InHands
<1>7. ASSUME NEW r \in Requests, HandOver(r)
      PROVE  WaiterSomewhere'
  <2>1. UNCHANGED <<queue, popped, response>>
        /\ pc' = [pc EXCEPT ![r] = "freed", ![Head(sendq[at[r]])] = "refilled"]
    BY <1>7 DEF HandOver
  <2>2. \A s \in Requests : pc'[s] \in {"freed", "refilled"} \/ pc'[s] = pc[s]
    BY <2>1 DEF TypeOK
  <2> QED
    BY <1>6, <2>1, <2>2
<1>8. ASSUME NEW r \in Requests,
             \/ \E b \in Backends : Acquire(r, b) \/ FindFull(r, b)
             \/ CountActive(r) \/ Reject(r) \/ CountQueued(r) \/ FreeSlot(r)
             \/ CountFreed(r) \/ FindQueueEmpty(r) \/ Refill(r) \/ Park(r)
             \/ CountGrant(r) \/ GrantNobody(r)
      PROVE  WaiterSomewhere'
  <2>1. /\ UNCHANGED <<queue, popped, response>>
        /\ \E l : /\ pc' = [pc EXCEPT ![r] = l]
                  /\ l \in {"queued", "waiting"} => pc[r] = "queued"
    BY <1>8 DEF Acquire, FindFull, CountActive, Reject, CountQueued, FreeSlot, CountFreed,
                FindQueueEmpty, Refill, Park, CountGrant, GrantNobody, Exit, Goto
  <2>2. \A s \in Requests : pc'[s] \in {"queued", "waiting"} =>
                              pc[s] \in {"queued", "waiting"}
    BY <2>1 DEF TypeOK
  <2> QED
    BY <1>6, <2>1, <2>2
<1>9. CASE UNCHANGED vars
  BY <1>6, <1>9 DEF vars
<1> QED
  BY <1>1, <1>2, <1>3, <1>4, <1>5, <1>7, <1>8, <1>9
     DEF Next, TryAcquireStep, StartRelease, ReleaseStep

----------------------------------------------------------------------------
LEMMA CountsInit == Init => CountsInv
<1> SUFFICES ASSUME Init PROVE CountsInv
  OBVIOUS
<1>1. ASSUME NEW b \in Backends
      PROVE  Stats(b)
  <2>1. \A L : "idle" \notin L => At(b, L) = {}
    BY DEF Init, At
  <2>2. Granted(b) = {}
    BY DEF Init, Granted
  <2>3. ActiveOf(b) = 0 /\ TakenOf(b) = 0 /\ EnteringOf(b) = 0 /\ GrantedOf(b) = 0
    BY <2>1, <2>2, FS_EmptySet DEF ActiveOf, TakenOf, EnteringOf, GrantedOf
  <2> QED
    BY <2>3 DEF Stats, Init
<1>2. QueueBounded
  BY BulkheadAssumption DEF Init, QueueBounded
<1>3. WaiterSomewhere
  BY DEF Init, WaiterSomewhere
<1> QED
  BY InitInv, <1>1, <1>2, <1>3 DEF CountsInv

LEMMA CountsStep == CountsInv /\ [Next]_vars => CountsInv'
<1> SUFFICES ASSUME CountsInv, [Next]_vars PROVE CountsInv'
  OBVIOUS
<1>1. TypeOK /\ Structure /\ InsideOrIdle
  BY DEF CountsInv, Inv, Structure
<1>2. Inv' /\ QueueBounded' /\ WaiterSomewhere'
  BY <1>1, InvStep, QueueStep, WaiterStep DEF CountsInv
<1>3. \A b \in Backends : Stats(b)'
  BY StatsStep DEF CountsInv
<1> QED
  BY <1>2, <1>3 DEF CountsInv

(* GetStats: the two counters are the requests that StatsAccount names,    *)
(* for every interleaving of the channel operations with the sections that *)
(* count them (bulkhead.go:46-104, 106-116).                               *)
THEOREM StatsAreRight == Spec => []StatsAccount
<1>1. CountsInv => StatsAccount
  BY StatsNamed DEF CountsInv
<1> QED
  BY CountsInit, CountsStep, <1>1, PTL DEF Spec

\* The three terms of WaitersKnown.
EntriesOf(r) ==
  {i \in 1..QueueSize : \E b \in Backends : i <= Len(queue[b]) /\ queue[b][i] = r}
TakersOf(r)  == {s \in Requests : popped[s] = r}
GrantsOf(r)  == IF response[r] THEN 1 ELSE 0

LEMMA WaitersNamed ==
  WaitersKnown <=>
    \A r \in Requests :
      Cardinality(EntriesOf(r)) + Cardinality(TakersOf(r)) + GrantsOf(r) =
        IF pc[r] \in {"queued", "waiting"} THEN 1 ELSE 0
BY DEF WaitersKnown, EntriesOf, TakersOf, GrantsOf

(* What Structure says of one request, place by place.                     *)
LEMMA OnePlace ==
  ASSUME CountsInv, NEW r \in Requests
  PROVE  /\ EntriesOf(r) = {} \/ \E i : EntriesOf(r) = {i}
         /\ TakersOf(r) = {} \/ \E s : TakersOf(r) = {s}
         /\ EntriesOf(r) # {} => TakersOf(r) = {} /\ ~ response[r]
         /\ TakersOf(r) # {} => ~ response[r]
         /\ EntriesOf(r) # {} \/ TakersOf(r) # {} \/ response[r]
              <=> pc[r] \in {"queued", "waiting"}
<1> /\ TypeOK /\ GrantsWhileWaiting /\ QueueKnown /\ PoppedKnown
    /\ QueueBounded /\ WaiterSomewhere
  BY DEF CountsInv, Inv, Structure
<1>1. r # None
  BY BulkheadAssumption
<1>2. \A b \in Backends : Len(queue[b]) \in Nat /\ Len(queue[b]) <= QueueSize
  BY DEF TypeOK, QueueBounded
<1>3. ASSUME NEW i \in EntriesOf(r)
      PROVE  /\ WaitsAt(r, at[r]) /\ TakersOf(r) = {}
             /\ i \in 1..Len(queue[at[r]]) /\ at[r] \in Backends /\ queue[at[r]][i] = r
  <2>1. PICK b \in Backends : i <= Len(queue[b]) /\ queue[b][i] = r
    BY DEF EntriesOf
  <2>2. i \in 1..Len(queue[b])
    BY <1>2, <2>1 DEF EntriesOf
  <2>3. WaitsAt(r, b) /\ \A s \in Requests : popped[s] # r
    BY <1>1, <2>1, <2>2 DEF QueueKnown
  <2>4. at[r] = b
    BY <2>3 DEF WaitsAt
  <2> QED
    BY <2>1, <2>2, <2>3, <2>4 DEF TakersOf
<1>4. \A i, j \in EntriesOf(r) : i = j
  <2> SUFFICES ASSUME NEW i \in EntriesOf(r), NEW j \in EntriesOf(r)
               PROVE  i = j
    OBVIOUS
  <2> QED
    BY <1>1, <1>3 DEF QueueKnown
<1>5. \A s \in TakersOf(r) : WaitsAt(r, at[s])
  BY <1>1 DEF TakersOf, PoppedKnown
<1>6. \A s, t \in TakersOf(r) : s = t
  BY <1>1 DEF TakersOf, PoppedKnown
<1>7. InQueue(r) => EntriesOf(r) # {}
  <2> SUFFICES ASSUME InQueue(r) PROVE EntriesOf(r) # {}
    OBVIOUS
  <2>1. PICK b \in Backends, i \in Nat : i \in 1..Len(queue[b]) /\ queue[b][i] = r
    BY DEF InQueue
  <2>2. i \in 1..QueueSize /\ i <= Len(queue[b])
    BY <1>2, <2>1, BulkheadAssumption
  <2> QED
    BY <2>1, <2>2 DEF EntriesOf
<1>8. InHands(r) => TakersOf(r) # {}
  BY DEF InHands, TakersOf
<1>9. EntriesOf(r) # {} => WaitsAt(r, at[r]) /\ TakersOf(r) = {}
  BY <1>3
<1>10. EntriesOf(r) = {} \/ \E i : EntriesOf(r) = {i}
  BY <1>4
<1>11. TakersOf(r) = {} \/ \E s : TakersOf(r) = {s}
  BY <1>6
<1> QED
  BY <1>5, <1>7, <1>8, <1>9, <1>10, <1>11
     DEF WaitsAt, WaiterSomewhere, GrantsWhileWaiting

(* Every waiter has exactly one entry, in the queue or in the hands of one *)
(* Release, or one grant; nobody else has any: a waiter is neither         *)
(* forgotten nor granted twice (bulkhead.go:65-73, 86-97).                 *)
THEOREM WaitersAreKnown == Spec => []WaitersKnown
<1>1. CountsInv => WaitersKnown
  <2> SUFFICES ASSUME CountsInv, NEW r \in Requests
               PROVE  Cardinality(EntriesOf(r)) + Cardinality(TakersOf(r)) + GrantsOf(r) =
                        IF pc[r] \in {"queued", "waiting"} THEN 1 ELSE 0
    BY WaitersNamed
  <2>1. /\ EntriesOf(r) = {} => Cardinality(EntriesOf(r)) = 0
        /\ TakersOf(r) = {} => Cardinality(TakersOf(r)) = 0
    BY FS_EmptySet
  <2>2. /\ (\E i : EntriesOf(r) = {i}) => Cardinality(EntriesOf(r)) = 1
        /\ (\E s : TakersOf(r) = {s}) => Cardinality(TakersOf(r)) = 1
    BY FS_Singleton
  <2>3. Cardinality(EntriesOf(r)) = IF EntriesOf(r) = {} THEN 0 ELSE 1
    BY <2>1, <2>2, OnePlace
  <2>4. Cardinality(TakersOf(r)) = IF TakersOf(r) = {} THEN 0 ELSE 1
    BY <2>1, <2>2, OnePlace
  <2> QED
    BY <2>3, <2>4, OnePlace DEF GrantsOf
<1> QED
  BY CountsInit, CountsStep, <1>1, PTL DEF Spec
----------------------------------------------------------------------------
(* What timeouts cost.                                                     *)

Hands == {"refill", "blocked", "refilled", "granting"}

\* The places of a sequence of entries that nobody waits for.
Nobodys(s) == {i \in DOMAIN s : s[i] = None}

EntriesLost(b) == Cardinality(StaleEntries(b))
TakersLost(b)  == Cardinality(StaleTakers(b))

LEMMA LostFinite ==
  ASSUME TypeOK, NEW b \in Backends
  PROVE  /\ IsFiniteSet(StaleEntries(b)) /\ EntriesLost(b) \in Nat
         /\ IsFiniteSet(StaleTakers(b)) /\ TakersLost(b) \in Nat
         /\ leaked[b] \in Nat
<1>1. queue[b] \in Seq(Entry) /\ Len(queue[b]) \in Nat /\ leaked[b] \in Nat
  BY DEF TypeOK
<1>2. StaleEntries(b) \subseteq 1..Len(queue[b])
  BY <1>1 DEF StaleEntries
<1>3. IsFiniteSet(1..Len(queue[b]))
  BY <1>1, FS_Interval
<1>4. StaleTakers(b) \subseteq Requests
  BY DEF StaleTakers, At
<1>5. IsFiniteSet(StaleEntries(b)) /\ IsFiniteSet(StaleTakers(b))
  BY <1>2, <1>3, <1>4, FS_Subset, BulkheadAssumption
<1> QED
  BY <1>1, <1>5, FS_CardinalityType DEF EntriesLost, TakersLost

LEMMA AppendedLive ==
  ASSUME NEW s \in Seq(Entry), NEW r \in Requests
  PROVE  Nobodys(Append(s, r)) = Nobodys(s)
<1>1. Len(s) \in Nat /\ DOMAIN s = 1..Len(s) /\ r \in Entry /\ r # None
  BY BulkheadAssumption DEF Entry
<1>2. /\ DOMAIN Append(s, r) = 1..(Len(s) + 1)
      /\ Append(s, r)[Len(s) + 1] = r
      /\ \A i \in 1..Len(s) : Append(s, r)[i] = s[i]
  BY <1>1
<1>3. \A i \in 1..(Len(s) + 1) : i \in 1..Len(s) \/ i = Len(s) + 1
  BY <1>1
<1>4. 1..Len(s) \subseteq 1..(Len(s) + 1)
  BY <1>1
<1> QED
  BY <1>1, <1>2, <1>3, <1>4 DEF Nobodys

(* Without its first entry a queue has the same stale ones, but for that.  *)
LEMMA FirstTaken ==
  ASSUME NEW s \in Seq(Entry), s # <<>>
  PROVE  /\ Cardinality(Nobodys(Tail(s))) \in Nat
         /\ Cardinality(Nobodys(s)) = Cardinality(Nobodys(Tail(s)))
              + (IF Head(s) = None THEN 1 ELSE 0)
<1> DEFINE n    == Len(s)
           old  == Nobodys(Tail(s))
           rest == Nobodys(s) \ {1}
           next == [i \in old |-> i + 1]
<1>1. n \in Nat \ {0} /\ DOMAIN s = 1..n /\ Head(s) = s[1] /\ 1 \in 1..n
  OBVIOUS
<1>2. /\ DOMAIN Tail(s) = 1..(n - 1)
      /\ \A i \in 1..(n - 1) : Tail(s)[i] = s[i + 1]
  BY <1>1
<1>3. \A i : i \in old <=> i \in 1..(n - 1) /\ s[i + 1] = None
  BY <1>2 DEF Nobodys
<1>4. \A i : i \in rest <=> i \in 1..n /\ i # 1 /\ s[i] = None
  BY <1>1 DEF Nobodys
<1>5. IsFiniteSet(old) /\ IsFiniteSet(Nobodys(s)) /\ Cardinality(Nobodys(s)) \in Nat
  <2>1. IsFiniteSet(1..(n - 1)) /\ IsFiniteSet(1..n)
    BY <1>1, FS_Interval
  <2>2. old \subseteq 1..(n - 1) /\ Nobodys(s) \subseteq 1..n
    BY <1>1, <1>2 DEF Nobodys
  <2> QED
    BY <2>1, <2>2, FS_Subset, FS_CardinalityType
<1> HIDE DEF n, old, rest
<1>6. next \in Bijection(old, rest)
  <2>1. \A i \in old : i \in Int /\ i + 1 \in rest
    BY <1>1, <1>3, <1>4
  <2>2. next \in [old -> rest]
    BY <2>1
  <2>3. \A i, j \in old : next[i] = next[j] => i = j
    BY <2>1
  <2>4. ASSUME NEW j \in rest
        PROVE  \E i \in old : next[i] = j
    <3>1. j \in 2..n /\ s[j] = None
      BY <1>1, <1>4
    <3>2. j - 1 \in 1..(n - 1) /\ (j - 1) + 1 = j
      BY <1>1, <3>1
    <3>3. j - 1 \in old
      BY <1>3, <3>1, <3>2
    <3> QED
      BY <3>2, <3>3
  <2> QED
    BY <2>2, <2>3, <2>4, Fun_IsBij
<1>7. Cardinality(rest) = Cardinality(old)
  <2>1. ExistsBijection(old, rest)
    BY <1>6, Fun_ExistsBij
  <2> QED
    BY <1>5, <2>1, FS_Bijection
<1>8. Cardinality(rest) = IF 1 \in Nobodys(s) THEN Cardinality(Nobodys(s)) - 1
                                              ELSE Cardinality(Nobodys(s))
  BY <1>5, FS_RemoveElement DEF rest
<1>9. 1 \in Nobodys(s) <=> Head(s) = None
  BY <1>1 DEF Nobodys
<1> QED
  BY <1>5, <1>7, <1>8, <1>9, FS_CardinalityType DEF old

(* The stale entries in the hands of Releases, when r moves.               *)
LEMMA TakersMoved ==
  ASSUME TypeOK, NEW r \in Requests, NEW l, NEW w, Goes(r, l, w),
         \A s \in Requests : s # r => popped'[s] = popped[s],
         NEW b \in Backends
  PROVE  TakersLost(b)' = TakersLost(b)
           + (IF w = b /\ l \in Hands /\ popped'[r] = None THEN 1 ELSE 0)
           - (IF at[r] = b /\ pc[r] \in Hands /\ popped[r] = None THEN 1 ELSE 0)
<1>1. \A s \in Requests : /\ pc'[s] = IF s = r THEN l ELSE pc[s]
                          /\ at'[s] = IF s = r THEN w ELSE at[s]
  BY DEF TypeOK, Goes
<1>2. StaleTakers(b)' =
        IF w = b /\ l \in Hands /\ popped'[r] = None THEN StaleTakers(b) \cup {r}
                                                     ELSE StaleTakers(b) \ {r}
  BY <1>1 DEF StaleTakers, At, Hands
<1>3. r \in StaleTakers(b) <=> at[r] = b /\ pc[r] \in Hands /\ popped[r] = None
  BY DEF StaleTakers, At, Hands
<1>4. /\ IsFiniteSet(StaleTakers(b)) /\ Cardinality(StaleTakers(b)) \in Nat
      /\ Cardinality(StaleTakers(b) \cup {r}) =
           IF r \in StaleTakers(b) THEN Cardinality(StaleTakers(b))
                                   ELSE Cardinality(StaleTakers(b)) + 1
      /\ Cardinality(StaleTakers(b) \ {r}) =
           IF r \in StaleTakers(b) THEN Cardinality(StaleTakers(b)) - 1
                                   ELSE Cardinality(StaleTakers(b))
  BY LostFinite, FS_AddElement, FS_RemoveElement DEF TakersLost
<1> QED
  BY <1>2, <1>3, <1>4 DEF TakersLost

(* A step of r times out at most r.                                        *)
LEMMA WhoTimesOut ==
  ASSUME TypeOK, NEW r \in Requests, NEW l, NEW w, Goes(r, l, w), NEW b \in Backends
  PROVE  Cardinality(TimedOutAt(b)) =
           IF at[r] = b /\ pc[r] = "waiting" /\ l = "idle" THEN 1 ELSE 0
<1>1. \A s \in Requests : pc'[s] = IF s = r THEN l ELSE pc[s]
  BY DEF TypeOK, Goes
<1>2. TimedOutAt(b) = IF at[r] = b /\ pc[r] = "waiting" /\ l = "idle" THEN {r} ELSE {}
  BY <1>1 DEF TimedOutAt
<1> QED
  BY <1>2, FS_EmptySet, FS_Singleton

\* The conclusion of TimeoutsCostOne, by the names above.
Costs(b) == leaked'[b] + EntriesLost(b)' + TakersLost(b)' =
              leaked[b] + EntriesLost(b) + TakersLost(b) + Cardinality(TimedOutAt(b))

(* A step that takes, leaves and forgets nothing.                          *)
LEMMA NothingLost ==
  ASSUME TypeOK, NEW r \in Requests, NEW l, NEW w, Goes(r, l, w),
         NEW b \in Backends, UNCHANGED <<queue, leaked>>,
         ~ (pc[r] = "waiting" /\ l = "idle"),
         \A s \in Requests : s # r => popped'[s] = popped[s],
         \/ pc[r] \notin Hands /\ l \notin Hands
         \/ pc[r] \in Hands /\ l \in Hands /\ w = at[r] /\ popped'[r] = popped[r]
         \/ l \notin Hands /\ popped[r] # None
  PROVE  Costs(b)
<1>1. Cardinality(TimedOutAt(b)) = 0
  BY WhoTimesOut
<1>2. TakersLost(b)' = TakersLost(b)
  BY TakersMoved, LostFinite
<1>3. EntriesLost(b)' = EntriesLost(b)
  BY DEF EntriesLost, StaleEntries
<1> QED
  BY <1>1, <1>2, <1>3, LostFinite DEF Costs

(* Who gives up leaves its one entry behind, in the queue or in the hands  *)
(* of a Release.                                                           *)
LEMMA GiveUpLoses ==
  ASSUME CountsInv, NEW r \in Requests, GiveUp(r), NEW b \in Backends
  PROVE  Costs(b)
<1> /\ TypeOK /\ InsideOrIdle /\ QueueKnown /\ PoppedKnown
  BY DEF CountsInv, Inv, Structure
<1>1. /\ pc[r] = "waiting" /\ ~ response[r] /\ at[r] \in Backends
      /\ Goes(r, "idle", None) /\ leaked' = leaked
      /\ queue' = [queue EXCEPT ![at[r]] = Abandoned(queue[at[r]], r)]
      /\ popped' = Abandoned(popped, r)
  BY WhereInside DEF GiveUp, Exit, Goto, Goes
<1>2. Cardinality(TimedOutAt(b)) = Here(r, b)
  BY <1>1, WhoTimesOut DEF Here
<1>3. r # None /\ \A s \in Requests : popped'[s] = IF popped[s] = r THEN None ELSE popped[s]
  BY <1>1, AbandonedPopped, BulkheadAssumption DEF TypeOK
<1>4. \A s \in Requests : /\ pc'[s] = IF s = r THEN "idle" ELSE pc[s]
                          /\ at'[s] = IF s = r THEN None ELSE at[s]
  BY <1>1 DEF Goes, TypeOK
<1>5. /\ queue[b] \in Seq(Entry) /\ Len(queue[b]) \in Nat
      /\ DOMAIN queue[b] = 1..Len(queue[b]) /\ DOMAIN queue'[b] = 1..Len(queue[b])
      /\ \A i \in 1..Len(queue[b]) : queue'[b][i] =
            IF at[r] = b /\ queue[b][i] = r THEN None ELSE queue[b][i]
  <2>1. queue[b] \in Seq(Entry) /\ Len(queue[b]) \in Nat
        /\ DOMAIN queue[b] = 1..Len(queue[b])
    BY DEF TypeOK
  <2>2. CASE at[r] = b
    <3>1. queue'[b] = Abandoned(queue[b], r)
      BY <1>1, <2>2 DEF TypeOK
    <3>2. Abandoned(queue[b], r) \in Seq(Entry)
      BY <2>1, AbandonedEntries
    <3>3. DOMAIN queue'[b] = 1..Len(queue[b])
      BY <2>1, <3>1, <3>2, AbandonedEntries
    <3> QED
      BY <2>1, <2>2, <3>1, <3>3, AbandonedEntries
  <2>3. CASE at[r] # b
    BY <1>1, <2>1, <2>3 DEF TypeOK
  <2> QED
    BY <2>2, <2>3
<1>6. \A i \in 1..Len(queue[b]) : queue[b][i] = r =>
        /\ at[r] = b
        /\ \A j \in 1..Len(queue[b]) : queue[b][j] = r => j = i
        /\ \A s \in Requests : popped[s] # r
  BY <1>3 DEF QueueKnown, WaitsAt
<1>7. CASE \E i \in 1..Len(queue[b]) : queue[b][i] = r
  <2>1. PICK i \in 1..Len(queue[b]) : queue[b][i] = r
    BY <1>7
  <2>2. /\ at[r] = b /\ \A s \in Requests : popped'[s] = popped[s]
        /\ \A j \in 1..Len(queue[b]) : queue[b][j] = r <=> j = i
    BY <1>3, <1>6, <2>1
  <2>3. StaleEntries(b)' = StaleEntries(b) \cup {i} /\ i \notin StaleEntries(b)
    BY <1>3, <1>5, <2>1, <2>2 DEF StaleEntries
  <2>4. EntriesLost(b)' = EntriesLost(b) + 1
    BY <2>3, LostFinite, FS_AddElement DEF EntriesLost
  <2>5. StaleTakers(b)' = StaleTakers(b)
    BY <1>1, <1>4, <2>2 DEF StaleTakers, At
  <2>6. TakersLost(b)' = TakersLost(b)
    BY <2>5 DEF TakersLost
  <2> QED
    <3>1. leaked'[b] = leaked[b] /\ Cardinality(TimedOutAt(b)) = 1
      BY <1>1, <1>2, <2>2 DEF Here
    <3> QED
      BY <2>4, <2>6, <3>1, LostFinite DEF Costs
<1>8. CASE \A i \in 1..Len(queue[b]) : queue[b][i] # r
  <2>1. EntriesLost(b)' = EntriesLost(b)
    BY <1>5, <1>8 DEF EntriesLost, StaleEntries
  <2>2. CASE \E s \in Requests : popped[s] = r /\ at[s] = b
    <3>1. PICK s \in Requests : popped[s] = r /\ at[s] = b
      BY <2>2
    <3>2. /\ pc[s] \in Hands /\ at[r] = b /\ s # r
          /\ \A t \in Requests : popped[t] = r <=> t = s
      BY <1>1, <1>3, <3>1 DEF PoppedKnown, WaitsAt, Hands
    <3>3. StaleTakers(b)' = StaleTakers(b) \cup {s} /\ s \notin StaleTakers(b)
      BY <1>1, <1>3, <1>4, <3>1, <3>2 DEF StaleTakers, At, Hands
    <3>4. TakersLost(b)' = TakersLost(b) + 1
      BY <3>3, LostFinite, FS_AddElement DEF TakersLost
    <3> QED
      BY <1>1, <1>2, <2>1, <3>2, <3>4, LostFinite DEF Costs, Here
  <2>3. CASE \A s \in Requests : popped[s] = r => at[s] # b
    <3>1. StaleTakers(b)' = StaleTakers(b)
      BY <1>1, <1>3, <1>4, <2>3 DEF StaleTakers, At
    <3>2. at[r] # b
      <4> SUFFICES ASSUME at[r] = b PROVE FALSE
        OBVIOUS
      <4>1. EntriesOf(r) # {} \/ TakersOf(r) # {}
        BY <1>1, OnePlace
      <4>2. EntriesOf(r) = {}
        <5> SUFFICES ASSUME NEW i \in EntriesOf(r) PROVE FALSE
          OBVIOUS
        <5>1. PICK c \in Backends : i \in Nat \ {0} /\ i <= Len(queue[c]) /\ queue[c][i] = r
          BY BulkheadAssumption DEF EntriesOf
        <5>2. i \in 1..Len(queue[c])
          BY <5>1 DEF TypeOK
        <5>3. at[r] = c
          BY <1>3, <5>1, <5>2 DEF QueueKnown, WaitsAt
        <5> QED
          BY <1>8, <5>1, <5>2, <5>3
      <4>3. PICK s \in Requests : popped[s] = r
        BY <4>1, <4>2 DEF TakersOf
      <4>4. at[s] = b
        BY <1>3, <4>3 DEF PoppedKnown, WaitsAt
      <4> QED
        BY <2>3, <4>3, <4>4
    <3> QED
      BY <1>1, <1>2, <2>1, <3>1, <3>2, LostFinite DEF Costs, TakersLost, Here
  <2> QED
    BY <2>2, <2>3
<1> QED
  BY <1>7, <1>8

LEMMA CostStep ==
  ASSUME CountsInv, Next, NEW b \in Backends
  PROVE  Costs(b)
<1> /\ TypeOK /\ InsideOrIdle /\ ParkedKnown /\ PoppedKnown
  BY DEF CountsInv, Inv, Structure
<1>1. ASSUME NEW r \in Requests, NEW c \in Backends, Acquire(r, c) \/ FindFull(r, c)
      PROVE  Costs(b)
  <2>1. PICK l \in {"acquired", "full"} : Goes(r, l, c)
    BY <1>1 DEF Acquire, FindFull, Goto, Goes
  <2>2. pc[r] = "idle" /\ UNCHANGED <<queue, leaked, popped>>
    BY <1>1 DEF Acquire, FindFull
  <2> QED
    BY <2>1, <2>2, NothingLost DEF Hands
<1>2. ASSUME NEW r \in Requests,
             \/ CountActive(r) \/ CountQueued(r) \/ ReceiveGrant(r)
             \/ FreeSlot(r) \/ CountFreed(r)
      PROVE  Costs(b)
  <2>1. PICK l \in {"running", "waiting", "freed", "draining"} : Goes(r, l, at[r])
    BY <1>2 DEF CountActive, CountQueued, ReceiveGrant, FreeSlot, CountFreed, Goto, Goes,
                TypeOK
  <2>2. pc[r] \notin Hands /\ UNCHANGED <<queue, leaked, popped>>
    BY <1>2 DEF CountActive, CountQueued, ReceiveGrant, FreeSlot, CountFreed, Hands
  <2> QED
    BY <2>1, <2>2, NothingLost DEF Hands
<1>3. ASSUME NEW r \in Requests, Reject(r) \/ FindQueueEmpty(r)
      PROVE  Costs(b)
  <2>1. Goes(r, "idle", None)
    BY <1>3 DEF Reject, FindQueueEmpty, Exit, Goto, Goes
  <2>2. pc[r] \in {"full", "draining"} /\ UNCHANGED <<queue, leaked, popped>>
    BY <1>3 DEF Reject, FindQueueEmpty
  <2> QED
    BY <2>1, <2>2, NothingLost DEF Hands
<1>4. ASSUME NEW r \in Requests, Refill(r) \/ Park(r) \/ CountGrant(r)
      PROVE  Costs(b)
  <2>1. PICK l \in {"refilled", "blocked", "granting"} : Goes(r, l, at[r])
    BY <1>4 DEF Refill, Park, CountGrant, Goto, Goes, TypeOK
  <2>2. pc[r] \in {"refill", "refilled"} /\ UNCHANGED <<queue, leaked, popped>>
    BY <1>4 DEF Refill, Park, CountGrant
  <2> QED
    BY <2>1, <2>2, NothingLost DEF Hands
<1>5. ASSUME NEW r \in Requests, SendGrant(r)
      PROVE  Costs(b)
  <2>1. Goes(r, "idle", None)
    BY <1>5 DEF SendGrant, Exit, Goto, Goes
  <2>2. /\ pc[r] = "granting" /\ popped[r] # None /\ UNCHANGED <<queue, leaked>>
        /\ \A s \in Requests : s # r => popped'[s] = popped[s]
    BY <1>5 DEF SendGrant, TypeOK
  <2> QED
    BY <2>1, <2>2, NothingLost DEF Hands
<1>6. ASSUME NEW r \in Requests, HandOver(r)
      PROVE  Costs(b)
  <2> DEFINE s == Head(sendq[at[r]])
  <2>1. pc[r] = "running" /\ at[r] \in Backends /\ sendq[at[r]] # <<>>
    BY <1>6, WhereInside DEF HandOver
  <2>2. s \in Requests /\ pc[s] = "blocked"
    BY <2>1, FirstParked
  <2> HIDE DEF s
  <2>3. /\ pc' = [pc EXCEPT ![r] = "freed", ![s] = "refilled"]
        /\ UNCHANGED <<at, queue, popped, leaked>>
    BY <1>6 DEF HandOver, s
  <2>4. \A t \in Requests : pc'[t] = IF t = s THEN "refilled"
                                     ELSE IF t = r THEN "freed" ELSE pc[t]
    BY <2>3 DEF TypeOK
  <2>5. TimedOutAt(b) = {}
    BY <2>1, <2>2, <2>4 DEF TimedOutAt
  <2>6. \A t \in Requests : pc'[t] \in Hands <=> pc[t] \in Hands
    BY <2>1, <2>2, <2>4 DEF Hands
  <2>7. StaleTakers(b)' = StaleTakers(b) /\ StaleEntries(b)' = StaleEntries(b)
    BY <2>3, <2>6 DEF StaleTakers, StaleEntries, At, Hands
  <2> QED
    BY <2>3, <2>5, <2>7, LostFinite, FS_EmptySet DEF Costs, EntriesLost, TakersLost
<1>7. ASSUME NEW r \in Requests, Enqueue(r)
      PROVE  Costs(b)
  <2>1. /\ Goes(r, "queued", at[r]) /\ pc[r] = "full"
        /\ UNCHANGED <<leaked, popped>> /\ at[r] \in Backends
        /\ queue' = [queue EXCEPT ![at[r]] = Append(queue[at[r]], r)]
    BY <1>7, WhereInside DEF Enqueue, Goto, Goes, TypeOK
  <2>2. queue[b] \in Seq(Entry)
    BY DEF TypeOK
  <2>3. Nobodys(queue'[b]) = Nobodys(queue[b])
    BY <2>1, <2>2, AppendedLive DEF TypeOK
  <2>4. EntriesLost(b)' = EntriesLost(b)
    BY <2>3 DEF EntriesLost, StaleEntries, Nobodys
  <2>5. TakersLost(b)' = TakersLost(b) /\ Cardinality(TimedOutAt(b)) = 0
    BY <2>1, TakersMoved, WhoTimesOut, LostFinite DEF Hands
  <2> QED
    BY <2>1, <2>4, <2>5, LostFinite DEF Costs
<1>8. ASSUME NEW r \in Requests, GiveUpGranted(r)
      PROVE  Costs(b)
  <2>1. /\ Goes(r, "idle", None) /\ pc[r] = "waiting" /\ UNCHANGED <<queue, popped>>
        /\ leaked'[b] = leaked[b] + Here(r, b)
    BY <1>8 DEF GiveUpGranted, Exit, Goto, Goes, TypeOK, Here
  <2>2. TakersLost(b)' = TakersLost(b) /\ Cardinality(TimedOutAt(b)) = Here(r, b)
    BY <2>1, TakersMoved, WhoTimesOut, LostFinite DEF Hands, Here
  <2>3. EntriesLost(b)' = EntriesLost(b)
    BY <2>1 DEF EntriesLost, StaleEntries
  <2> QED
    BY <2>1, <2>2, <2>3, LostFinite, HereType DEF Costs
<1>9. ASSUME NEW r \in Requests, GrantNobody(r)
      PROVE  Costs(b)
  <2>1. /\ Goes(r, "idle", None) /\ pc[r] = "granting" /\ popped[r] = None
        /\ UNCHANGED <<queue, popped>> /\ leaked'[b] = leaked[b] + Here(r, b)
    BY <1>9 DEF GrantNobody, Exit, Goto, Goes, TypeOK, Here
  <2>2. TakersLost(b)' = TakersLost(b) - Here(r, b) /\ Cardinality(TimedOutAt(b)) = 0
    BY <2>1, TakersMoved, WhoTimesOut, LostFinite DEF Hands, Here
  <2>3. EntriesLost(b)' = EntriesLost(b)
    BY <2>1 DEF EntriesLost, StaleEntries
  <2> QED
    BY <2>1, <2>2, <2>3, LostFinite, HereType DEF Costs
<1>10. ASSUME NEW r \in Requests, PopQueue(r)
       PROVE  Costs(b)
  <2>1. /\ Goes(r, "refill", at[r]) /\ pc[r] = "draining" /\ leaked' = leaked
        /\ queue[at[r]] # <<>> /\ at[r] \in Backends
        /\ queue' = [queue EXCEPT ![at[r]] = Tail(queue[at[r]])]
        /\ popped' = [popped EXCEPT ![r] = Head(queue[at[r]])]
    BY <1>10, WhereInside DEF PopQueue, Goto, Goes, TypeOK
  <2>2. /\ popped'[r] = Head(queue[at[r]])
        /\ \A s \in Requests : s # r => popped'[s] = popped[s]
    BY <2>1 DEF TypeOK
  <2>3. Cardinality(TimedOutAt(b)) = 0
    BY <2>1, WhoTimesOut
  <2>4. TakersLost(b)' = TakersLost(b)
          + (IF at[r] = b /\ Head(queue[b]) = None THEN 1 ELSE 0)
    BY <2>1, <2>2, TakersMoved, LostFinite DEF Hands
  <2>5. /\ EntriesLost(b)' \in Nat
        /\ EntriesLost(b) = EntriesLost(b)'
             + (IF at[r] = b /\ Head(queue[b]) = None THEN 1 ELSE 0)
    <3>1. StaleEntries(b) = Nobodys(queue[b]) /\ StaleEntries(b)' = Nobodys(queue'[b])
      BY DEF StaleEntries, Nobodys
    <3>2. CASE at[r] = b
      <4>1. queue[b] \in Seq(Entry) /\ queue[b] # <<>> /\ queue'[b] = Tail(queue[b])
        BY <2>1, <3>2 DEF TypeOK
      <4> QED
        BY <3>1, <3>2, <4>1, FirstTaken DEF EntriesLost
    <3>3. CASE at[r] # b
      <4>1. queue'[b] = queue[b]
        BY <2>1, <3>3 DEF TypeOK
      <4> QED
        BY <3>1, <3>3, <4>1, LostFinite DEF EntriesLost
    <3> QED
      BY <3>2, <3>3
  <2> QED
    BY <2>1, <2>3, <2>4, <2>5, LostFinite DEF Costs
<1> QED
  BY <1>1, <1>2, <1>3, <1>4, <1>5, <1>6, <1>7, <1>8, <1>9, <1>10, GiveUpLoses
     DEF Next, TryAcquireStep, StartRelease, ReleaseStep

(* A request that times out costs its bulkhead one place or one slot for   *)
(* good, and nothing else costs any (bulkhead.go:65-73, 80-98).            *)
THEOREM OnlyTimeoutsCost == Spec => TimeoutsCostOne
<1> DEFINE OneEach == \A b \in Backends : Lost(b)' = Lost(b) + Cardinality(TimedOutAt(b))
<1>1. CountsInv /\ [Next]_vars => [OneEach]_vars
  BY CostStep DEF Costs, Lost, EntriesLost, TakersLost
<1> QED
  BY CountsInit, CountsStep, <1>1, PTL DEF Spec, TimeoutsCostOne
=============================================================================

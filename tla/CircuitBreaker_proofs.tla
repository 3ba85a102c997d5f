------------------------ MODULE CircuitBreaker_proofs ------------------------
(***************************************************************************)
(* Proofs about CircuitBreaker, for every set of backends, every threshold *)
(* and every timeout: the breakers keep their type, their counters always  *)
(* agree with their state, and they change state only along the legal      *)
(* transitions.                                                            *)
(*                                                                         *)
(* The methods are functions of one breaker's fields, so the work is done  *)
(* in lemmas about a single breaker cb; the theorems lift them to the map. *)
(***************************************************************************)
EXTENDS CircuitBreaker, TLAPS

\* What CountersMatchState says of one breaker.
Consistent(cb) ==
  /\ cb.state = CLOSED    => cb.failureCount < FailureThreshold
  /\ cb.state # HALF_OPEN => cb.successCount = 0 /\ cb.requestCount = 0
  /\ cb.state = HALF_OPEN => /\ cb.successCount < SuccessThreshold
                             /\ cb.requestCount <= MaxRequests

\* What Tick does to one breaker.
Aged(cb) == [cb EXCEPT !.age = IF @ < Timeout THEN @ + 1 ELSE @]

----------------------------------------------------------------------------
(* A new breaker (NewCircuitBreaker) has the type and consistent counters. *)
LEMMA NewBreaker == NewCircuitBreaker \in Breaker /\ Consistent(NewCircuitBreaker)
BY BreakerAssumption
   DEF NewCircuitBreaker, Breaker, Consistent, CLOSED, OPEN, HALF_OPEN

(* setState keeps the type, and what it changes when the state changes.    *)
LEMMA SetStateEffect ==
  ASSUME NEW cb \in Breaker, NEW new \in {CLOSED, OPEN, HALF_OPEN}
  PROVE  LET next == SetState(cb, new) IN
         /\ next \in Breaker
         /\ next.state = new
         /\ next.age = cb.age
         /\ cb.state # new => /\ next.successCount = 0
                              /\ next.requestCount = 0
                              /\ new = CLOSED => next.failureCount = 0
<1> DEFINE next == SetState(cb, new)
<1>1. CASE cb.state = new
  BY <1>1 DEF SetState
<1>2. CASE cb.state # new /\ new = CLOSED
  <2>1. next = [cb EXCEPT !.state = CLOSED, !.failureCount = 0,
                          !.successCount = 0, !.requestCount = 0]
    BY <1>2 DEF SetState
  <2>2. next = [state |-> CLOSED, failureCount |-> 0, successCount |-> 0,
                requestCount |-> 0, age |-> cb.age]
    BY <2>1 DEF Breaker
  <2> HIDE DEF next
  <2>3. next \in Breaker
    BY <2>2, BreakerAssumption DEF Breaker
  <2> QED
    BY <1>2, <2>2, <2>3 DEF next
<1>3. CASE cb.state # new /\ new # CLOSED
  <2>1. next = [cb EXCEPT !.state = new, !.failureCount = cb.failureCount,
                          !.successCount = 0, !.requestCount = 0]
    BY <1>3 DEF SetState
  <2>2. next = [state |-> new, failureCount |-> cb.failureCount,
                successCount |-> 0, requestCount |-> 0, age |-> cb.age]
    BY <2>1 DEF Breaker
  <2> HIDE DEF next
  <2>3. next \in Breaker
    BY <2>2, BreakerAssumption DEF Breaker
  <2> QED
    BY <1>3, <2>2, <2>3 DEF next
<1> QED
  BY <1>1, <1>2, <1>3

(* CanRequest keeps type and consistency, and moves a breaker only from    *)
(* OPEN to HALF_OPEN, when its age has reached Timeout.                    *)
LEMMA CanRequestStep ==
  ASSUME NEW cb \in Breaker, Consistent(cb)
  PROVE  LET next == AfterCanRequest(cb) IN
         /\ next \in Breaker
         /\ Consistent(next)
         /\ LegalTransition(cb, next)
<1> DEFINE next == AfterCanRequest(cb)
<1>1. CASE cb.state = OPEN /\ Admits(cb)
  <2>1. next = SetState(cb, HALF_OPEN)
    BY <1>1 DEF AfterCanRequest, OPEN, HALF_OPEN
  <2>2. cb.age = Timeout
    BY <1>1, BreakerAssumption DEF Admits, Breaker, CLOSED, OPEN, HALF_OPEN
  <2>3. /\ next \in Breaker /\ next.state = HALF_OPEN
        /\ next.successCount = 0 /\ next.requestCount = 0
    BY <1>1, <2>1, SetStateEffect DEF OPEN, HALF_OPEN
  <2> QED
    BY <1>1, <2>2, <2>3, BreakerAssumption
       DEF Consistent, LegalTransition, CLOSED, OPEN, HALF_OPEN
<1>2. CASE cb.state = HALF_OPEN /\ Admits(cb)
  <2>1. next = [cb EXCEPT !.requestCount = @ + 1]
    BY <1>2 DEF AfterCanRequest, OPEN, HALF_OPEN
  <2>2. cb.requestCount < MaxRequests
    BY <1>2 DEF Admits, CLOSED, OPEN, HALF_OPEN
  <2> QED
    BY <1>2, <2>1, <2>2, BreakerAssumption
       DEF Breaker, Consistent, LegalTransition, CLOSED, OPEN, HALF_OPEN
<1>3. CASE ~ (cb.state \in {OPEN, HALF_OPEN} /\ Admits(cb))
  <2>1. next = cb
    BY <1>3 DEF AfterCanRequest
  <2> QED
    BY <2>1 DEF LegalTransition
<1> QED
  BY <1>1, <1>2, <1>3

(* RecordSuccess keeps type and consistency, and moves a breaker only from *)
(* HALF_OPEN to CLOSED, with the success that makes SuccessThreshold.      *)
LEMMA SuccessStep ==
  ASSUME NEW cb \in Breaker, Consistent(cb)
  PROVE  LET next == AfterSuccess(cb) IN
         /\ next \in Breaker
         /\ Consistent(next)
         /\ LegalTransition(cb, next)
<1> DEFINE next    == AfterSuccess(cb)
           counted == [cb EXCEPT !.successCount = @ + 1]
<1>1. CASE cb.state = CLOSED
  <2>1. next = [cb EXCEPT !.failureCount = 0]
    BY <1>1 DEF AfterSuccess, CLOSED, HALF_OPEN
  <2> QED
    BY <1>1, <2>1, BreakerAssumption
       DEF Breaker, Consistent, LegalTransition, CLOSED, OPEN, HALF_OPEN
<1>2. CASE cb.state = HALF_OPEN
  <2>1. next = IF counted.successCount >= SuccessThreshold
               THEN SetState(counted, CLOSED) ELSE counted
    BY <1>2 DEF AfterSuccess, CLOSED, HALF_OPEN
  <2>2. counted \in Breaker /\ counted.state = HALF_OPEN
        /\ counted.successCount = cb.successCount + 1
        /\ counted.requestCount = cb.requestCount
    BY <1>2 DEF Breaker
  <2>3. CASE counted.successCount >= SuccessThreshold
    <3>1. next = SetState(counted, CLOSED)
      BY <2>1, <2>3
    <3>2. /\ next \in Breaker /\ next.state = CLOSED
          /\ next.successCount = 0 /\ next.requestCount = 0
          /\ next.failureCount = 0
      <4>1. CLOSED \in {CLOSED, OPEN, HALF_OPEN} /\ counted.state # CLOSED
        BY <2>2 DEF CLOSED, HALF_OPEN
      <4> HIDE DEF counted, next
      <4> QED
        BY <2>2, <3>1, <4>1, SetStateEffect
    <3> QED
      BY <1>2, <2>2, <2>3, <3>2, BreakerAssumption
         DEF Consistent, LegalTransition, CLOSED, OPEN, HALF_OPEN
  <2>4. CASE ~ (counted.successCount >= SuccessThreshold)
    <3>1. next = counted
      BY <2>1, <2>4
    <3>2. counted.successCount < SuccessThreshold
      BY <2>2, <2>4, BreakerAssumption DEF Breaker
    <3> QED
      BY <1>2, <2>2, <3>1, <3>2
         DEF Consistent, LegalTransition, CLOSED, OPEN, HALF_OPEN
  <2> QED
    BY <2>3, <2>4
<1>3. CASE cb.state \notin {CLOSED, HALF_OPEN}
  BY <1>3 DEF AfterSuccess, LegalTransition
<1> QED
  BY <1>1, <1>2, <1>3

(* RecordFailure keeps type and consistency, and opens a breaker with the  *)
(* time of the failure it counts.                                          *)
LEMMA FailureStep ==
  ASSUME NEW cb \in Breaker, Consistent(cb)
  PROVE  LET next == AfterFailure(cb) IN
         /\ next \in Breaker
         /\ Consistent(next)
         /\ LegalTransition(cb, next)
<1> DEFINE next    == AfterFailure(cb)
           counted == [cb EXCEPT !.failureCount = IF @ < FailureThreshold
                                                  THEN @ + 1 ELSE @,
                                 !.age = 0]
           trips   == \/ cb.state = CLOSED /\ counted.failureCount >= FailureThreshold
                      \/ cb.state = HALF_OPEN
<1>1. next = IF trips THEN SetState(counted, OPEN) ELSE counted
  BY DEF AfterFailure
<1>2. /\ counted \in Breaker
      /\ counted.state = cb.state /\ counted.age = 0
      /\ counted.successCount = cb.successCount
      /\ counted.requestCount = cb.requestCount
  <2>1. CASE cb.failureCount < FailureThreshold
    <3>1. counted = [cb EXCEPT !.failureCount = cb.failureCount + 1, !.age = 0]
      BY <2>1
    <3> HIDE DEF counted
    <3>2. counted = [state |-> cb.state, failureCount |-> cb.failureCount + 1,
                     successCount |-> cb.successCount,
                     requestCount |-> cb.requestCount, age |-> 0]
      BY <3>1 DEF Breaker
    <3>3. cb.failureCount + 1 \in 0..FailureThreshold
      BY <2>1, BreakerAssumption DEF Breaker
    <3>4. counted \in Breaker
      BY <3>2, <3>3, BreakerAssumption DEF Breaker
    <3> QED
      BY <3>2, <3>4
  <2>2. CASE ~ (cb.failureCount < FailureThreshold)
    <3>1. counted = [cb EXCEPT !.failureCount = cb.failureCount, !.age = 0]
      BY <2>2
    <3> HIDE DEF counted
    <3>2. counted = [state |-> cb.state, failureCount |-> cb.failureCount,
                     successCount |-> cb.successCount,
                     requestCount |-> cb.requestCount, age |-> 0]
      BY <3>1 DEF Breaker
    <3>3. cb.failureCount \in 0..FailureThreshold
      BY <2>2, BreakerAssumption DEF Breaker
    <3>4. counted \in Breaker
      BY <3>2, <3>3, BreakerAssumption DEF Breaker
    <3> QED
      BY <3>2, <3>4
  <2> QED
    BY <2>1, <2>2
<1>3. CASE trips
  <2>1. cb.state # OPEN /\ cb.state \in {CLOSED, HALF_OPEN}
    BY <1>3 DEF CLOSED, OPEN, HALF_OPEN
  <2>2. /\ next \in Breaker /\ next.state = OPEN /\ next.age = 0
        /\ next.successCount = 0 /\ next.requestCount = 0
    <3>1. next = SetState(counted, OPEN)
      BY <1>1, <1>3
    <3>2. OPEN \in {CLOSED, OPEN, HALF_OPEN} /\ counted.state # OPEN
          /\ OPEN # CLOSED
      BY <1>2, <2>1 DEF OPEN, CLOSED
    <3> HIDE DEF counted, next
    <3> QED
      BY <1>2, <3>1, <3>2, SetStateEffect
  <2> QED
    BY <2>1, <2>2 DEF Consistent, LegalTransition, CLOSED, OPEN, HALF_OPEN
<1>4. CASE ~ trips
  <2>1. next = counted
    BY <1>1, <1>4
  <2>2. cb.state = CLOSED => counted.failureCount < FailureThreshold
    BY <1>2, <1>4, BreakerAssumption DEF Breaker
  <2> QED
    BY <1>2, <1>4, <2>1, <2>2 DEF Consistent, LegalTransition
<1> QED
  BY <1>3, <1>4

(* Time changes nothing but the age.                                       *)
LEMMA TickStep ==
  ASSUME NEW cb \in Breaker, Consistent(cb)
  PROVE  /\ Aged(cb) \in Breaker
         /\ Consistent(Aged(cb))
         /\ LegalTransition(cb, Aged(cb))
BY BreakerAssumption DEF Aged, Breaker, Consistent, LegalTransition

----------------------------------------------------------------------------
(* The inductive invariant: every breaker has its type and its counters    *)
(* agree with its state.                                                   *)
BreakerInv == TypeOK /\ CountersMatchState

(* The invariant in the form the lemmas use.                               *)
LEMMA InvPerBreaker ==
  BreakerInv <=> /\ breaker \in [Backends -> Breaker]
                 /\ \A b \in Backends : Consistent(breaker[b])
BY DEF BreakerInv, TypeOK, CountersMatchState, Consistent

(* One step of Next keeps the invariant and is a legal transition.         *)
LEMMA StepOfNext ==
  ASSUME BreakerInv, [Next]_breaker
  PROVE  /\ BreakerInv'
         /\ \A b \in Backends : LegalTransition(breaker[b], breaker'[b])
<1>1. /\ breaker \in [Backends -> Breaker]
      /\ \A b \in Backends : Consistent(breaker[b])
  BY InvPerBreaker
<1>2. SUFFICES /\ breaker' \in [Backends -> Breaker]
               /\ \A b \in Backends : /\ Consistent(breaker'[b])
                                      /\ LegalTransition(breaker[b], breaker'[b])
  BY DEF BreakerInv, TypeOK, CountersMatchState, Consistent
<1>3. ASSUME NEW b \in Backends, CanRequest(b)
      PROVE  /\ breaker' \in [Backends -> Breaker]
             /\ \A d \in Backends : /\ Consistent(breaker'[d])
                                    /\ LegalTransition(breaker[d], breaker'[d])
  BY <1>1, <1>3, CanRequestStep DEF CanRequest, LegalTransition
<1>4. ASSUME NEW b \in Backends, RecordSuccess(b)
      PROVE  /\ breaker' \in [Backends -> Breaker]
             /\ \A d \in Backends : /\ Consistent(breaker'[d])
                                    /\ LegalTransition(breaker[d], breaker'[d])
  BY <1>1, <1>4, SuccessStep DEF RecordSuccess, LegalTransition
<1>5. ASSUME NEW b \in Backends, RecordFailure(b)
      PROVE  /\ breaker' \in [Backends -> Breaker]
             /\ \A d \in Backends : /\ Consistent(breaker'[d])
                                    /\ LegalTransition(breaker[d], breaker'[d])
  BY <1>1, <1>5, FailureStep DEF RecordFailure, LegalTransition
<1>6. CASE Tick
  <2>1. breaker' = [b \in Backends |-> Aged(breaker[b])]
    BY <1>6 DEF Tick, Aged
  <2> QED
    BY <1>1, <2>1, TickStep
<1>7. CASE UNCHANGED breaker
  BY <1>1, <1>7 DEF LegalTransition
<1> QED
  BY <1>3, <1>4, <1>5, <1>6, <1>7 DEF Next

(* The breakers start in the invariant.                                    *)
LEMMA InitInv == Init => BreakerInv
BY NewBreaker, InvPerBreaker DEF Init

(* In every behaviour the breakers have their type and their counters      *)
(* agree with their state.                                                 *)
THEOREM TypeCorrect == Spec => []TypeOK
<1>1. BreakerInv /\ [Next]_breaker => BreakerInv'
  BY StepOfNext
<1>2. BreakerInv => TypeOK
  BY DEF BreakerInv
<1> QED
  BY InitInv, <1>1, <1>2, PTL DEF Spec

(* No breaker rests in a state its counters should have made it leave      *)
(* (setState and the thresholds, circuitbreaker.go:86-135).                *)
THEOREM CountersCorrect == Spec => []CountersMatchState
<1>1. BreakerInv /\ [Next]_breaker => BreakerInv'
  BY StepOfNext
<1>2. BreakerInv => CountersMatchState
  BY DEF BreakerInv
<1> QED
  BY InitInv, <1>1, <1>2, PTL DEF Spec

(* A breaker changes state only along the legal transitions: from OPEN     *)
(* only to HALF_OPEN and only Timeout after the last reported failure.     *)
THEOREM TransitionsLegal == Spec => LegalTransitions
<1>1. BreakerInv /\ [Next]_breaker => BreakerInv'
  BY StepOfNext
<1>2. BreakerInv /\ [Next]_breaker =>
        [\A b \in Backends : LegalTransition(breaker[b], breaker'[b])]_breaker
  BY StepOfNext
<1> QED
  BY InitInv, <1>1, <1>2, PTL DEF Spec, LegalTransitions
=============================================================================

-------------------- MODULE CircuitBreakerClients_proofs --------------------
(***************************************************************************)
(* Proofs about CircuitBreakerClients, for every set of callers and        *)
(* backends and every threshold: a half-open breaker admits at most        *)
(* MaxRequests + 1 trial requests, and one whose trials were used up by    *)
(* requests that never report stays half-open forever.                     *)
(***************************************************************************)
EXTENDS CircuitBreakerClients, CircuitBreaker_proofs

\* requestCount is the number of trials but for the first, which is not counted.
TrialsCounted ==
  \A b \in Backends :
    IF breaker[b].state = HALF_OPEN THEN trials[b] = breaker[b].requestCount + 1
                                    ELSE trials[b] = 0

\* The inductive invariant.
ClientsInv == BreakerInv /\ ClientsTypeOK /\ TrialsCounted

----------------------------------------------------------------------------
(* What an admission does to requestCount.                                 *)
LEMMA AdmissionCounts ==
  ASSUME NEW cb \in Breaker, Admits(cb)
  PROVE  LET next == AfterCanRequest(cb) IN
         next.state = HALF_OPEN =>
           next.requestCount = IF cb.state = HALF_OPEN THEN cb.requestCount + 1
                                                       ELSE 0
<1> DEFINE next == AfterCanRequest(cb)
<1>1. CASE cb.state = OPEN
  <2>1. next = SetState(cb, HALF_OPEN)
    BY <1>1 DEF AfterCanRequest, OPEN, HALF_OPEN
  <2>2. cb.state # HALF_OPEN /\ HALF_OPEN \in {CLOSED, OPEN, HALF_OPEN}
    BY <1>1 DEF OPEN, HALF_OPEN
  <2> QED
    BY <2>1, <2>2, SetStateEffect
<1>2. CASE cb.state = HALF_OPEN
  <2>1. next = [cb EXCEPT !.requestCount = @ + 1]
    BY <1>2 DEF AfterCanRequest, OPEN, HALF_OPEN
  <2> QED
    BY <1>2, <2>1 DEF Breaker
<1>3. CASE cb.state = CLOSED
  BY <1>3 DEF AfterCanRequest, CLOSED, OPEN, HALF_OPEN
<1> QED
  BY <1>1, <1>2, <1>3 DEF Breaker

(* A success does not change requestCount while it leaves the breaker      *)
(* half-open, and never makes it half-open.                                *)
LEMMA SuccessKeepsCount ==
  ASSUME NEW cb \in Breaker, AfterSuccess(cb).state = HALF_OPEN
  PROVE  /\ cb.state = HALF_OPEN
         /\ AfterSuccess(cb).requestCount = cb.requestCount
<1> DEFINE next    == AfterSuccess(cb)
           counted == [cb EXCEPT !.successCount = @ + 1]
<1>1. CASE cb.state = CLOSED
  <2>1. next = [cb EXCEPT !.failureCount = 0]
    BY <1>1 DEF AfterSuccess, CLOSED, HALF_OPEN
  <2> QED
    BY <1>1, <2>1 DEF Breaker, CLOSED, HALF_OPEN
<1>2. CASE cb.state = HALF_OPEN
  <2>1. next = IF counted.successCount >= SuccessThreshold
               THEN SetState(counted, CLOSED) ELSE counted
    BY <1>2 DEF AfterSuccess, CLOSED, HALF_OPEN
  <2>2. counted \in Breaker /\ counted.requestCount = cb.requestCount
    BY DEF Breaker
  <2>3. SetState(counted, CLOSED).state = CLOSED
    <3> HIDE DEF counted
    <3>1. CLOSED \in {CLOSED, OPEN, HALF_OPEN}
      OBVIOUS
    <3> QED
      BY <2>2, <3>1, SetStateEffect
  <2>4. next = counted
    BY <2>1, <2>3 DEF CLOSED, HALF_OPEN
  <2> QED
    BY <1>2, <2>2, <2>4
<1>3. CASE cb.state \notin {CLOSED, HALF_OPEN}
  BY <1>3 DEF AfterSuccess
<1> QED
  BY <1>1, <1>2, <1>3

(* A failure never leaves a breaker half-open.                             *)
LEMMA FailureLeavesHalfOpen ==
  ASSUME NEW cb \in Breaker
  PROVE  AfterFailure(cb).state # HALF_OPEN
<1> DEFINE next    == AfterFailure(cb)
           counted == [cb EXCEPT !.failureCount = IF @ < FailureThreshold
                                                  THEN @ + 1 ELSE @,
                                 !.age = 0]
           trips   == \/ cb.state = CLOSED /\ counted.failureCount >= FailureThreshold
                      \/ cb.state = HALF_OPEN
<1>1. next = IF trips THEN SetState(counted, OPEN) ELSE counted
  BY DEF AfterFailure
<1>2. counted.state = cb.state
  BY DEF Breaker
<1>3. SetState(counted, OPEN).state = OPEN
  <2>1. CASE counted.state = OPEN
    BY <2>1 DEF SetState
  <2>2. CASE counted.state # OPEN
    BY <1>2, <2>2 DEF SetState, Breaker
  <2> QED
    BY <2>1, <2>2
<1> QED
  BY <1>1, <1>2, <1>3 DEF OPEN, HALF_OPEN

----------------------------------------------------------------------------
(* The invariant holds initially.                                          *)
LEMMA ClientsInitInv == ClientsInit => ClientsInv
BY InitInv, BreakerAssumption
   DEF ClientsInit, ClientsInv, ClientsTypeOK, TrialsCounted, Init, BreakerInv,
       NewCircuitBreaker, CLOSED, HALF_OPEN

(* Every step of the composition is a step of the breakers or leaves them. *)
LEMMA BreakerSteps == [ClientsNext]_vars => [Next]_breaker
BY DEF ClientsNext, vars, Ask, ReportSuccess, ReportFailure, Abandon, Elapse, Next

(* The history keeps its type when a call to b is observed.                *)
LEMMA ObserveTypes ==
  ASSUME ClientsTypeOK, NEW b \in Backends, NEW admitted \in BOOLEAN,
         Observe(b, admitted)
  PROVE  trials' \in [Backends -> Nat]
BY DEF ClientsTypeOK, Observe

(* Every step keeps the invariant.                                         *)
LEMMA ClientsStepInv ==
  ASSUME ClientsInv, [ClientsNext]_vars
  PROVE  ClientsInv'
<1>1. BreakerInv'
  BY BreakerSteps, StepOfNext DEF ClientsInv
<1>2. breaker \in [Backends -> Breaker]
  BY DEF ClientsInv, BreakerInv, TypeOK
<1>3. TypeOK'
  BY <1>1 DEF BreakerInv
<1>4. SUFFICES /\ calls' \subseteq Callers \X Backends
               /\ trials' \in [Backends -> Nat]
               /\ TrialsCounted'
  BY <1>1, <1>3 DEF ClientsInv, ClientsTypeOK
<1> USE DEF ClientsInv, ClientsTypeOK, TrialsCounted
<1>5. ASSUME NEW c \in Callers, NEW b \in Backends, Ask(c, b)
      PROVE  /\ calls' \subseteq Callers \X Backends
             /\ trials' \in [Backends -> Nat]
             /\ TrialsCounted'
  <2>1. calls' \subseteq Callers \X Backends
    BY <1>5 DEF Ask
  <2>2. trials' \in [Backends -> Nat]
    BY <1>5, ObserveTypes DEF Ask
  <2>3. breaker'[b] = AfterCanRequest(breaker[b])
    BY <1>2, <1>5 DEF Ask, CanRequest
  <2>4. breaker[b] \in Breaker /\ Consistent(breaker[b])
    BY InvPerBreaker
  <2>5. breaker[b].requestCount \in Nat /\ breaker[b].requestCount <= MaxRequests
    BY <2>4, BreakerAssumption DEF Consistent, Breaker
  <2>6. trials[b] <= MaxRequests + 1
    BY <2>5, BreakerAssumption
  <2>7. trials'[b] = IF breaker'[b].state # HALF_OPEN THEN 0 ELSE trials[b] + 1
    BY <1>5, <2>6 DEF Ask, Observe
  <2>8. TrialsCounted'
    BY <1>2, <1>5, <2>3, <2>7, AdmissionCounts
       DEF Ask, CanRequest, Observe, Breaker
  <2> QED
    BY <2>1, <2>2, <2>8
<1>6. ASSUME NEW c \in Callers, NEW b \in Backends, ReportSuccess(c, b)
      PROVE  /\ calls' \subseteq Callers \X Backends
             /\ trials' \in [Backends -> Nat]
             /\ TrialsCounted'
  <2>1. calls' \subseteq Callers \X Backends
    BY <1>6 DEF ReportSuccess
  <2>2. trials' \in [Backends -> Nat]
    BY <1>6, ObserveTypes DEF ReportSuccess
  <2>3. breaker'[b] = AfterSuccess(breaker[b])
    BY <1>2, <1>6 DEF ReportSuccess, RecordSuccess
  <2>4. TrialsCounted'
    BY <1>2, <1>6, <2>3, SuccessKeepsCount
       DEF ReportSuccess, RecordSuccess, Observe, Breaker
  <2> QED
    BY <2>1, <2>2, <2>4
<1>7. ASSUME NEW c \in Callers, NEW b \in Backends, ReportFailure(c, b)
      PROVE  /\ calls' \subseteq Callers \X Backends
             /\ trials' \in [Backends -> Nat]
             /\ TrialsCounted'
  <2>1. calls' \subseteq Callers \X Backends
    BY <1>7 DEF ReportFailure
  <2>2. trials' \in [Backends -> Nat]
    BY <1>7, ObserveTypes DEF ReportFailure
  <2>3. breaker'[b].state # HALF_OPEN
    BY <1>2, <1>7, FailureLeavesHalfOpen DEF ReportFailure, RecordFailure
  <2>4. TrialsCounted'
    BY <1>2, <1>7, <2>3 DEF ReportFailure, RecordFailure, Observe, Breaker
  <2> QED
    BY <2>1, <2>2, <2>4
<1>8. ASSUME NEW c \in Callers, NEW b \in Backends, Abandon(c, b)
      PROVE  /\ calls' \subseteq Callers \X Backends
             /\ trials' \in [Backends -> Nat]
             /\ TrialsCounted'
  BY <1>8 DEF Abandon
<1>9. CASE Elapse
  <2>1. calls' \subseteq Callers \X Backends /\ trials' \in [Backends -> Nat]
    BY <1>9 DEF Elapse
  <2>2. TrialsCounted'
    BY <1>2, <1>9 DEF Elapse, Tick, Breaker
  <2> QED
    BY <2>1, <2>2
<1>10. CASE UNCHANGED vars
  BY <1>10 DEF vars
<1> QED
  BY <1>5, <1>6, <1>7, <1>8, <1>9, <1>10 DEF ClientsNext

(* Type correctness of the composition.                                    *)
THEOREM ClientsTypeCorrect == ClientsSpec => []ClientsTypeOK
<1>1. ClientsInv => ClientsTypeOK
  BY DEF ClientsInv
<1>2. ClientsInv /\ [ClientsNext]_vars => ClientsInv'
  BY ClientsStepInv
<1> QED
  BY ClientsInitInv, <1>1, <1>2, PTL DEF ClientsSpec

(* A half-open breaker admits at most MaxRequests + 1 trial requests       *)
(* before it decides (circuitbreaker.go:70-80).                            *)
THEOREM TrialsAreBounded == ClientsSpec => []TrialsBounded
<1>1. ClientsInv => TrialsBounded
  <2>1. SUFFICES ASSUME ClientsInv, NEW b \in Backends
                 PROVE  trials[b] <= MaxRequests + 1
    BY DEF TrialsBounded
  <2>2. breaker[b] \in Breaker /\ Consistent(breaker[b])
    BY <2>1, InvPerBreaker DEF ClientsInv
  <2>3. CASE breaker[b].state = HALF_OPEN
    BY <2>1, <2>2, <2>3, BreakerAssumption
       DEF ClientsInv, TrialsCounted, Consistent, Breaker
  <2>4. CASE breaker[b].state # HALF_OPEN
    BY <2>1, <2>4, BreakerAssumption DEF ClientsInv, TrialsCounted
  <2> QED
    BY <2>3, <2>4
<1>2. ClientsInv /\ [ClientsNext]_vars => ClientsInv'
  BY ClientsStepInv
<1> QED
  BY ClientsInitInv, <1>1, <1>2, PTL DEF ClientsSpec

(* A half-open breaker without trials left and without anybody to report   *)
(* never leaves that state: CanRequest refuses every caller, and no clock  *)
(* runs (circuitbreaker.go:75-80).                                         *)
THEOREM StuckIsForever == ClientsSpec => StuckForever
<1>1. ASSUME ClientsInv, [ClientsNext]_vars, NEW b \in Backends, Stuck(b)
      PROVE  Stuck(b)'
  <2>1. breaker \in [Backends -> Breaker]
    BY <1>1 DEF ClientsInv, BreakerInv, TypeOK
  <2>2. \A d \in Backends, c \in Callers : Ask(c, d) => d # b
    BY <1>1, <2>1 DEF Ask, Admits, Stuck, Breaker, CLOSED, OPEN, HALF_OPEN
  <2>3. ASSUME NEW c \in Callers, NEW d \in Backends,
               \/ Ask(c, d)
               \/ ReportSuccess(c, d)
               \/ ReportFailure(c, d)
        PROVE  Stuck(b)'
    <3>1. d # b
      BY <1>1, <2>2, <2>3 DEF Stuck, ReportSuccess, ReportFailure
    <3>2. breaker'[b] = breaker[b]
      BY <2>1, <2>3, <3>1
         DEF Ask, ReportSuccess, ReportFailure, CanRequest, RecordSuccess, RecordFailure
    <3>3. \A e \in Callers : <<e, b>> \notin calls'
      <4>1. calls' \subseteq calls \cup {<<c, d>>}
        BY <2>3 DEF Ask, ReportSuccess, ReportFailure
      <4>2. ASSUME NEW e \in Callers
            PROVE  <<e, b>> # <<c, d>>
        BY <3>1
      <4> QED
        BY <1>1, <4>1, <4>2 DEF Stuck
    <3> QED
      BY <1>1, <3>2, <3>3 DEF Stuck
  <2>4. ASSUME NEW c \in Callers, NEW d \in Backends, Abandon(c, d)
        PROVE  Stuck(b)'
    BY <1>1, <2>4 DEF Abandon, Stuck
  <2>5. CASE Elapse
    BY <1>1, <2>1, <2>5 DEF Elapse, Tick, Stuck, Breaker
  <2>6. CASE UNCHANGED vars
    BY <1>1, <2>6 DEF vars, Stuck
  <2> QED
    BY <1>1, <2>3, <2>4, <2>5, <2>6 DEF ClientsNext
<1>2. ClientsInv /\ [ClientsNext]_vars =>
        [\A b \in Backends : Stuck(b) => Stuck(b)']_vars
  BY <1>1
<1>3. ClientsInv /\ [ClientsNext]_vars => ClientsInv'
  BY ClientsStepInv
<1> QED
  BY ClientsInitInv, <1>2, <1>3, PTL DEF ClientsSpec, StuckForever
=============================================================================

--------------------------- MODULE CircuitBreaker ---------------------------
(***************************************************************************)
(* The circuit breakers of the gateway (internal/gateway/circuitbreaker.go)*)
(* one per backend.  Every method of the Go type takes the breaker's mutex *)
(* for its whole body, so every call is one atomic step.                   *)
(*                                                                         *)
(* Two data are abstracted, both without loss for the control:             *)
(*   - lastFailureTime is kept as age, the time since the last failure,    *)
(*     saturated at Timeout (the code only asks time.Since(..) >= Timeout; *)
(*     the zero time.Time of a new breaker is infinitely old);             *)
(*   - failureCount saturates at FailureThreshold (the code compares it    *)
(*     with the threshold and otherwise only prints it in GetStats).       *)
(***************************************************************************)
EXTENDS Integers

CONSTANTS
  Backends,          \* the backends that have a breaker
  FailureThreshold,  \* failures in a row that open a closed breaker
  SuccessThreshold,  \* successes that close a half-open breaker
  MaxRequests,       \* requests counted while half-open
  Timeout            \* ticks an open breaker waits after the last failure

ASSUME BreakerAssumption ==
  /\ FailureThreshold \in Nat \ {0}
  /\ SuccessThreshold \in Nat \ {0}
  /\ MaxRequests \in Nat
  /\ Timeout \in Nat

VARIABLE breaker     \* breaker[b]: the fields of backend b's CircuitBreaker

CLOSED    == "CLOSED"
OPEN      == "OPEN"
HALF_OPEN == "HALF_OPEN"

Breaker == [state        : {CLOSED, OPEN, HALF_OPEN},
            failureCount : 0..FailureThreshold,
            successCount : Nat,
            requestCount : Nat,
            age          : 0..Timeout]

NewCircuitBreaker == [state |-> CLOSED, failureCount |-> 0,
                      successCount |-> 0, requestCount |-> 0, age |-> Timeout]

----------------------------------------------------------------------------
(* The methods as functions of the breaker's fields.                       *)

\* Mutant of SetState: only the way to CLOSED resets the counters.
SetStateKeepingCounters(cb, new) ==
  IF cb.state = new
  THEN cb
  ELSE IF new = CLOSED
       THEN [cb EXCEPT !.state = new, !.failureCount = 0,
                       !.successCount = 0, !.requestCount = 0]
       ELSE [cb EXCEPT !.state = new]

SetState(cb, new) ==
  IF cb.state = new
  THEN cb
  ELSE [cb EXCEPT !.state        = new,
                  !.failureCount = IF new = CLOSED THEN 0 ELSE @,
                  !.successCount = 0,
                  !.requestCount = 0]

\* Mutants of Admits: no wait before the first trial; no trial at all (as if a
\* timer were to make the breaker half-open); one trial too many.
AdmitsEarly(cb) ==
  \/ cb.state \in {CLOSED, OPEN}
  \/ cb.state = HALF_OPEN /\ cb.requestCount < MaxRequests
AdmitsNobodyWhenOpen(cb) ==
  \/ cb.state = CLOSED
  \/ cb.state = HALF_OPEN /\ cb.requestCount < MaxRequests
AdmitsOneMore(cb) ==
  \/ cb.state = CLOSED
  \/ cb.state = OPEN /\ cb.age >= Timeout
  \/ cb.state = HALF_OPEN /\ cb.requestCount <= MaxRequests

\* What CanRequest answers.
Admits(cb) ==
  \/ cb.state = CLOSED
  \/ cb.state = OPEN /\ cb.age >= Timeout
  \/ cb.state = HALF_OPEN /\ cb.requestCount < MaxRequests

\* Mutant of AfterCanRequest: trial requests are not counted.
AfterCanRequestUncounted(cb) ==
  IF cb.state = OPEN /\ Admits(cb) THEN SetState(cb, HALF_OPEN) ELSE cb

\* What CanRequest leaves behind.
AfterCanRequest(cb) ==
  CASE cb.state = OPEN /\ Admits(cb)      -> SetState(cb, HALF_OPEN)
    [] cb.state = HALF_OPEN /\ Admits(cb) -> [cb EXCEPT !.requestCount = @ + 1]
    [] OTHER                              -> cb

\* Mutant of AfterSuccess: a success takes one failure back, not all of them.
AfterSuccessForgivesOne(cb) ==
  CASE cb.state = CLOSED    -> [cb EXCEPT !.failureCount = @ - 1]
    [] cb.state = HALF_OPEN ->
         LET counted == [cb EXCEPT !.successCount = @ + 1]
         IN  IF counted.successCount >= SuccessThreshold
             THEN SetState(counted, CLOSED)
             ELSE counted
    [] OTHER                -> cb

AfterSuccess(cb) ==
  CASE cb.state = CLOSED    -> [cb EXCEPT !.failureCount = 0]
    [] cb.state = HALF_OPEN ->
         LET counted == [cb EXCEPT !.successCount = @ + 1]
         IN  IF counted.successCount >= SuccessThreshold
             THEN SetState(counted, CLOSED)
             ELSE counted
    [] OTHER                -> cb

AfterFailure(cb) ==
  LET counted == [cb EXCEPT !.failureCount = IF @ < FailureThreshold
                                             THEN @ + 1 ELSE @,
                            !.age = 0]
      trips   == \/ cb.state = CLOSED /\ counted.failureCount >= FailureThreshold
                 \/ cb.state = HALF_OPEN
  IN  IF trips THEN SetState(counted, OPEN) ELSE counted

----------------------------------------------------------------------------
Init == breaker = [b \in Backends |-> NewCircuitBreaker]

CanRequest(b)    == breaker' = [breaker EXCEPT ![b] = AfterCanRequest(@)]
RecordSuccess(b) == breaker' = [breaker EXCEPT ![b] = AfterSuccess(@)]
RecordFailure(b) == breaker' = [breaker EXCEPT ![b] = AfterFailure(@)]

\* One unit of time passes for all the breakers.
Tick ==
  breaker' = [b \in Backends |->
                [breaker[b] EXCEPT !.age = IF @ < Timeout THEN @ + 1 ELSE @]]

Next ==
  \/ \E b \in Backends : CanRequest(b) \/ RecordSuccess(b) \/ RecordFailure(b)
  \/ Tick

Spec == Init /\ [][Next]_breaker

----------------------------------------------------------------------------
(* Properties.                                                             *)

TypeOK == breaker \in [Backends -> Breaker]

(* No breaker rests in a state its counters should have made it leave, and *)
(* a state is entered with the counters it starts from: setState's resets  *)
(* (circuitbreaker.go:125-134) against the thresholds of RecordSuccess and *)
(* RecordFailure.  In particular a breaker that closes again has forgotten *)
(* the failures that opened it, so one failure cannot reopen it at once.   *)
CountersMatchState ==
  \A b \in Backends : LET cb == breaker[b] IN
    /\ cb.state = CLOSED    => cb.failureCount < FailureThreshold
    /\ cb.state # HALF_OPEN => cb.successCount = 0 /\ cb.requestCount = 0
    /\ cb.state = HALF_OPEN => /\ cb.successCount < SuccessThreshold
                               /\ cb.requestCount <= MaxRequests

(* A breaker changes state only along CLOSED -> OPEN -> HALF_OPEN and from *)
(* HALF_OPEN to either side: an open breaker never closes on late answers  *)
(* alone, and it lets a request through only when Timeout has passed since *)
(* the last failure anybody reported (circuitbreaker.go:69-74, 90-98).     *)
LegalTransition(old, new) ==
  \/ new.state = old.state
  \/ old.state = CLOSED    /\ new.state = OPEN /\ new.age = 0
  \/ old.state = OPEN      /\ new.state = HALF_OPEN /\ old.age = Timeout
  \/ old.state = HALF_OPEN /\ new.state = OPEN /\ new.age = 0
  \/ /\ old.state = HALF_OPEN /\ new.state = CLOSED
     /\ old.successCount + 1 >= SuccessThreshold

LegalTransitions ==
  [][\A b \in Backends : LegalTransition(breaker[b], breaker'[b])]_breaker
=============================================================================

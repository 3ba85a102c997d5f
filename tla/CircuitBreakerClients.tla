------------------------ MODULE CircuitBreakerClients ------------------------
(***************************************************************************)
(* The circuit breakers together with the requests that use them.          *)
(*                                                                         *)
(* A request asks every backend of its route for admission while it picks  *)
(* one (getHealthyBackends, loadbalancer.go:112-123).  Of the breakers     *)
(* that admit it, at most the one of the backend that finally served it    *)
(* hears the outcome (proxy.go:120-131); for all the others, and for a     *)
(* request that ends with an error, the admission is never answered.  The  *)
(* breaker cannot tell an answer to an old admission from one to a new one.*)
(***************************************************************************)
EXTENDS CircuitBreaker, FiniteSets

CONSTANT Callers     \* the requests in flight

VARIABLES
  calls,      \* pairs <<c, b>>: b admitted c and has not heard of it since
  trials      \* history: trials[b], admissions since b last became half-open,
              \* counted up to one more than TrialsBounded allows

vars == <<breaker, calls, trials>>

ClientsInit ==
  /\ Init
  /\ calls = {}
  /\ trials = [b \in Backends |-> 0]

\* The history follows the breaker: it starts at the admission that makes b
\* half-open.
Observe(b, admitted) ==
  trials' = [trials EXCEPT ![b] =
    IF breaker'[b].state # HALF_OPEN THEN 0
    ELSE IF admitted /\ @ <= MaxRequests + 1 THEN @ + 1 ELSE @]

Ask(c, b) ==
  /\ <<c, b>> \notin calls
  /\ Admits(breaker[b])
  /\ CanRequest(b)
  /\ calls' = calls \cup {<<c, b>>}
  /\ Observe(b, TRUE)

ReportSuccess(c, b) ==
  /\ <<c, b>> \in calls
  /\ RecordSuccess(b)
  /\ calls' = calls \ {<<c, b>>}
  /\ Observe(b, FALSE)

ReportFailure(c, b) ==
  /\ <<c, b>> \in calls
  /\ RecordFailure(b)
  /\ calls' = calls \ {<<c, b>>}
  /\ Observe(b, FALSE)

\* Another backend was picked, or the request ended in an error.
Abandon(c, b) ==
  /\ <<c, b>> \in calls
  /\ calls' = calls \ {<<c, b>>}
  /\ UNCHANGED <<breaker, trials>>

Elapse == Tick /\ UNCHANGED <<calls, trials>>

Settle(c, b) == ReportSuccess(c, b) \/ ReportFailure(c, b) \/ Abandon(c, b)

ClientsNext ==
  \/ \E c \in Callers, b \in Backends :
       \/ Ask(c, b)
       \/ ReportSuccess(c, b)
       \/ ReportFailure(c, b)
       \/ Abandon(c, b)
  \/ Elapse

\* Time passes, every admitted request ends, and requests keep coming.
Fairness ==
  /\ WF_vars(Elapse)
  /\ \A c \in Callers, b \in Backends : WF_vars(Settle(c, b))
  /\ \A b \in Backends : WF_vars(\E c \in Callers : Ask(c, b))

ClientsSpec == ClientsInit /\ [][ClientsNext]_vars
FairSpec    == ClientsSpec /\ Fairness

----------------------------------------------------------------------------
(* Properties.                                                             *)

ClientsTypeOK ==
  /\ TypeOK
  /\ calls \subseteq Callers \X Backends
  /\ trials \in [Backends -> Nat]

(* A half-open breaker admits a bounded number of trial requests before it *)
(* decides: MaxRequests and the one whose CanRequest made it half-open,    *)
(* which circuitbreaker.go:71-72 does not count.                           *)
TrialsBounded == \A b \in Backends : trials[b] <= MaxRequests + 1

(* The comment of the configuration, "allow 3 test requests when half-open"*)
(* for MaxRequests = 3 (circuitbreaker.go:41).                             *)
TrialsAsDocumented == \A b \in Backends : trials[b] <= MaxRequests

(* An open breaker always gets to try its backend again: failures reported *)
(* late push the retry back, but only by the requests admitted before.     *)
OpenEventuallyProbes ==
  \A b \in Backends : breaker[b].state = OPEN ~> breaker[b].state = HALF_OPEN

\* A half-open breaker with no trial left and nobody left to answer one.
Stuck(b) ==
  /\ breaker[b].state = HALF_OPEN
  /\ breaker[b].requestCount = MaxRequests
  /\ \A c \in Callers : <<c, b>> \notin calls

(* A half-open breaker decides unless its trials were used up by requests  *)
(* that never reported: that is the only way it can remain half-open.      *)
HalfOpenDecidesOrSticks ==
  \A b \in Backends :
    breaker[b].state = HALF_OPEN ~> breaker[b].state # HALF_OPEN \/ Stuck(b)

(* ... and then it never leaves: no clock runs in the half-open state, and *)
(* CanRequest refuses everybody (circuitbreaker.go:75-80).  The backend is *)
(* out of rotation until the process restarts.                             *)
StuckForever == [][\A b \in Backends : Stuck(b) => Stuck(b)']_vars
=============================================================================

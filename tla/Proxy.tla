------------------------------- MODULE Proxy -------------------------------
(***************************************************************************)
(* The life of the requests the gateway proxies (internal/gateway/proxy.go,*)
(* retry.go, loadbalancer.go, config.go), composed with the bulkheads and  *)
(* the circuit breakers they use:                                          *)
(*                                                                         *)
(*   ServeHTTP = MatchRoute; getLoadBalancer;                              *)
(*               ExecuteWithRetry(attempt); record the outcome             *)
(*   attempt   = scan the route's breakers; pick a backend; TryAcquire;    *)
(*               call the backend and replay its answer; the deferred      *)
(*               DecrementConnections and Release                          *)
(*                                                                         *)
(* Each section under a mutex, each channel operation and each atomic      *)
(* counter is one step; requests interleave between them.  A request is    *)
(* served by its own goroutine, once.                                      *)
(*                                                                         *)
(* Abstracted: headers and bodies, durations (see RetryLoop), and the      *)
(* status of an answer, of which the code asks only whether it is at least *)
(* 500.                                                                    *)
(***************************************************************************)
EXTENDS Routing, FiniteSets

CONSTANTS
  Requests, Backends,
  MaxConcurrentRequests, QueueSize,                         \* of a bulkhead
  FailureThreshold, SuccessThreshold, MaxRequests, Timeout, \* of a breaker
  Routes,          \* the routes of the configuration
  BackendsOf,      \* BackendsOf[p]: Route.Backends, empty for a Target route
  Strategy,        \* Strategy[p]: Route.LoadBalancer
  Paths,           \* the paths clients ask for
  MaxAttempts,     \* RetryConfig.MaxAttempts
  CounterCycle     \* bound: the round-robin counter is kept modulo this

RoundRobin       == "round_robin"
Random           == "random"
LeastConnections == "least_connections"

\* What an attempt ends with, and what a client is answered.
Outcomes == {"ok", "error", "panic"}
Answers  == {"not_found", "panicked", "replayed", "unavailable"}

ASSUME ProxyAssumption ==
  /\ IsFiniteSet(Requests)
  /\ MaxConcurrentRequests \in Nat \ {0}
  /\ QueueSize \in Nat
  /\ FailureThreshold \in Nat \ {0}
  /\ SuccessThreshold \in Nat \ {0}
  /\ MaxRequests \in Nat
  /\ Timeout \in Nat
  /\ RouteOrder \in Seq(Routes)
  /\ BackendsOf \in [Routes -> Seq(Backends)]
  /\ Strategy \in [Routes -> {RoundRobin, Random, LeastConnections}]
  /\ MaxAttempts \in Nat \ {0}
  /\ CounterCycle \in Nat \ {0}
  \* the counter is only used modulo the length of a subsequence of BackendsOf
  /\ \A p \in Routes : \A n \in 1..Len(BackendsOf[p]) : CounterCycle % n = 0
  \* the URLs of a route differ
  /\ \A p \in Routes : \A i, j \in 1..Len(BackendsOf[p]) :
       BackendsOf[p][i] = BackendsOf[p][j] => i = j
  /\ None \notin Routes \cup Requests \cup Backends \cup Outcomes

VARIABLES
  \* the bulkheads, see Bulkhead
  pc, at, semaphore, sendq, queue, popped, response,
  activeCount, queuedCount, leaked,
  breaker,        \* the circuit breakers, see CircuitBreaker
  loadBalancers,  \* loadBalancers[p]: the cached balancer, named by its creator
  counter,        \* counter[l]: the counter of round-robin balancer l
  connections,    \* connections[l][b]: the map of least-connections balancer l
  req,            \* req[r]: what ServeHTTP keeps of request r, see NewRequest
  picks,          \* history: picks[p][b], round-robin picks on route p
  failures        \* history: failures[e], failed calls since the last success

bulkheadVars == <<pc, at, semaphore, sendq, queue, popped, response,
                  activeCount, queuedCount, leaked>>
balancerVars == <<loadBalancers, counter, connections, picks>>
vars == <<bulkheadVars, breaker, balancerVars, req, failures>>

\* One bulkhead per URL, but one breaker per backend of a route.
Entries   == {e \in Routes \X Backends :
                \E i \in 1..Len(BackendsOf[e[1]]) : BackendsOf[e[1]][i] = e[2]}
Bulkheads == INSTANCE Bulkhead
Breakers  == INSTANCE CircuitBreaker WITH Backends <- Entries

\* Where a request is, in the order of the code.
Stages == {
  "new",        \* not arrived
  "matched",    \* has its route, about to look for the balancer
  "creating",   \* found no balancer under the read lock
  "selecting",  \* in selectBackend
  "acquiring",  \* in TryAcquire of target's bulkhead, or just admitted
  "calling",    \* in executeRequest
  "closing",    \* the closure returns: its deferred calls are due
  "releasing",  \* in Release of target's bulkhead
  "deciding",   \* back in ExecuteWithRetry
  "recording",  \* about to tell the breaker
  "done" }      \* ServeHTTP has returned or panicked

NewRequest == [
  stage       |-> "new",
  path        |-> None,
  route       |-> None,  \* the route it matched
  lb          |-> None,  \* the balancer it uses
  attempt     |-> 1,     \* of ExecuteWithRetry's loop
  scanned     |-> 0,     \* backends getHealthyBackends has asked so far
  healthy     |-> <<>>,  \* those that admitted it
  target      |-> None,  \* the backend picked
  result      |-> None,  \* what the attempt's closure returns
  finalStatus |-> None,  \* class of the last status of a backend
  reply       |-> <<>>]  \* the answers written to the client, in order

Request == [
  stage       : Stages,
  path        : Paths \cup {None},
  route       : Routes \cup {None},
  lb          : Requests \cup {None},
  attempt     : 1..MaxAttempts,
  scanned     : Nat,
  healthy     : Seq(Backends),
  target      : Backends \cup {None},
  result      : Outcomes \cup {None},
  finalStatus : {None, "ok", "error"},
  reply       : Seq(Answers)]

Init ==
  /\ Bulkheads!Init
  /\ Breakers!Init
  /\ loadBalancers = [p \in Routes |-> None]
  /\ counter       = [l \in Requests |-> 0]
  /\ connections   = [l \in Requests |-> [b \in Backends |-> 0]]
  /\ req           = [r \in Requests |-> NewRequest]
  /\ picks         = [p \in Routes |-> [b \in Backends |-> 0]]
  /\ failures      = [e \in Entries |-> 0]

At(r, stage) == req[r].stage = stage

RouteOf(r) == req[r].route

\* The breaker a request calls through, that of its backend on its route.
EntryOf(r) == <<RouteOf(r), req[r].target>>

Enter(r, stage) == req' = [req EXCEPT ![r].stage = stage]

\* ServeHTTP ends with this answer.
Finish(r, answer) ==
  req' = [req EXCEPT ![r].stage = "done", ![r].reply = Append(@, answer)]

\* A step that changes nothing but the request's own variables.
Locally == UNCHANGED <<bulkheadVars, breaker, balancerVars, failures>>

----------------------------------------------------------------------------
(* Before the attempts.                                                    *)

\* 404
RouteNotFound(r, path) ==
  /\ At(r, "new")
  /\ MatchRoute(path) = None
  /\ req' = [req EXCEPT ![r].stage = "done", ![r].path = path,
                        ![r].reply = <<"not_found">>]
  /\ Locally

FindRoute(r, path) ==
  /\ At(r, "new")
  /\ MatchRoute(path) # None
  /\ req' = [req EXCEPT ![r].stage = "matched", ![r].path = path,
                        ![r].route = MatchRoute(path)]
  /\ Locally

\* getLoadBalancer under the read lock.
LookUpBalancer(r) ==
  LET cached == loadBalancers[RouteOf(r)] IN
  /\ At(r, "matched")
  /\ req' = [req EXCEPT ![r].lb = cached,
               ![r].stage = IF cached = None THEN "creating" ELSE "selecting"]
  /\ Locally

\* r goes on with balancer l, which is in the cache from now on.
Install(r, l) ==
  /\ At(r, "creating")
  /\ loadBalancers' = [loadBalancers EXCEPT ![RouteOf(r)] = l]
  /\ req' = [req EXCEPT ![r].lb = l, ![r].stage = "selecting"]
  /\ UNCHANGED <<bulkheadVars, breaker, counter, connections, picks, failures>>

\* Mutant of CreateBalancer: no second look at the cache.
CreateBalancerUnchecked(r) == Install(r, r)

\* getLoadBalancer under the write lock, with its double check.
CreateBalancer(r) ==
  LET cached == loadBalancers[RouteOf(r)] IN
  Install(r, IF cached = None THEN r ELSE cached)

----------------------------------------------------------------------------
(* An attempt.                                                             *)

\* The one backend GetBackends makes of a Target has no breaker: the call of
\* CanRequest panics, and net/http aborts the connection.
TargetPanics(r) ==
  /\ At(r, "selecting")
  /\ BackendsOf[RouteOf(r)] = <<>>
  /\ Finish(r, "panicked")
  /\ Locally

\* One turn of the loop of getHealthyBackends.
Scan(r) ==
  /\ At(r, "selecting")
  /\ req[r].scanned < Len(BackendsOf[RouteOf(r)])
  /\ LET b == BackendsOf[RouteOf(r)][req[r].scanned + 1]
         e == <<RouteOf(r), b>>
     IN  /\ Breakers!CanRequest(e)
         /\ req' = [req EXCEPT ![r].scanned = @ + 1, ![r].healthy =
                      IF Breakers!Admits(breaker[e]) THEN Append(@, b) ELSE @]
  /\ UNCHANGED <<bulkheadVars, balancerVars, failures>>

\* The backends a strategy may pick among candidates, a sequence.
Choices(l, p, candidates) ==
  CASE Strategy[p] = RoundRobin ->
         {candidates[((counter[l] + 1) % Len(candidates)) + 1]}
    [] Strategy[p] = Random ->
         {candidates[i] : i \in 1..Len(candidates)}
    [] Strategy[p] = LeastConnections ->
         {candidates[i] : i \in {i \in 1..Len(candidates) :
            \A j \in 1..Len(candidates) :
              LET mine   == connections[l][candidates[i]]
                  theirs == connections[l][candidates[j]]
              IN  mine < theirs \/ (mine = theirs /\ i <= j)}}

\* SelectBackend, once all the breakers have been asked.
Select(r) ==
  LET p == RouteOf(r)
      l == req[r].lb
  IN
  /\ At(r, "selecting")
  /\ req[r].scanned = Len(BackendsOf[p]) /\ BackendsOf[p] # <<>>
  /\ IF req[r].healthy = <<>>
     THEN /\ req' = [req EXCEPT ![r].stage = "deciding", ![r].scanned = 0,
                                ![r].result = "error"]
          /\ UNCHANGED <<counter, picks>>
     ELSE \E b \in Choices(l, p, req[r].healthy) :
          /\ req' = [req EXCEPT ![r].stage = "acquiring", ![r].scanned = 0,
                                ![r].healthy = <<>>, ![r].target = b]
          /\ IF Strategy[p] = RoundRobin
             THEN /\ counter' = [counter EXCEPT ![l] = (@ + 1) % CounterCycle]
                  /\ picks' = [picks EXCEPT ![p][b] = @ + 1]
             ELSE UNCHANGED <<counter, picks>>
  /\ UNCHANGED <<bulkheadVars, breaker, loadBalancers, connections, failures>>

\* TryAcquire: its first select, and the steps after which it goes on.
TryAcquire(r) ==
  /\ At(r, "acquiring")
  /\ \/ Bulkheads!Acquire(r, req[r].target)
     \/ Bulkheads!FindFull(r, req[r].target)
     \/ Bulkheads!CountActive(r)
     \/ Bulkheads!Enqueue(r)
     \/ Bulkheads!CountQueued(r)
     \/ Bulkheads!ReceiveGrant(r)
  /\ UNCHANGED <<breaker, balancerVars, req, failures>>

\* TryAcquire returns an error.
Refused(r) == Bulkheads!Reject(r) \/ Bulkheads!GiveUp(r) \/ Bulkheads!GiveUpGranted(r)

\* Mutant of BulkheadRejects: the error of TryAcquire is only logged.
BulkheadRejectsIgnored(r) ==
  /\ Refused(r)
  /\ Enter(r, "calling")
  /\ UNCHANGED <<breaker, balancerVars, failures>>

\* The attempt ends with the error.
BulkheadRejects(r) ==
  /\ Refused(r)
  /\ req' = [req EXCEPT ![r].stage = "deciding", ![r].result = "error"]
  /\ UNCHANGED <<breaker, balancerVars, failures>>

\* r's balancer, if it counts connections, adds n.
CountConnection(r, n) ==
  connections' = IF Strategy[RouteOf(r)] = LeastConnections
                 THEN [connections EXCEPT ![req[r].lb][req[r].target] = @ + n]
                 ELSE connections

\* Admitted: a least-connections balancer counts the connection.
Connect(r) ==
  /\ At(r, "acquiring")
  /\ pc[r] = "running"
  /\ CountConnection(r, 1)
  /\ Enter(r, "calling")
  /\ UNCHANGED <<bulkheadVars, breaker, loadBalancers, counter, picks, failures>>

\* executeRequest returns with this outcome, and the closure has written answers.
CallReturns(r, outcome, answers) ==
  /\ At(r, "calling")
  /\ req' = [req EXCEPT ![r].stage = "closing", ![r].result = outcome,
                        ![r].finalStatus = outcome, ![r].reply = @ \o answers]
  /\ failures' = [failures EXCEPT ![EntryOf(r)] =
       IF outcome = "ok" THEN 0 ELSE IF @ < FailureThreshold THEN @ + 1 ELSE @]
  /\ UNCHANGED <<bulkheadVars, breaker, balancerVars>>

\* The backend answers with a status below 500, which is replayed to the client.
CallSucceeds(r) == CallReturns(r, "ok", <<"replayed">>)

\* Mutant of CallFails: the response is replayed whatever its status.
CallFailsReplayed(r) == CallReturns(r, "error", <<"replayed">>)

\* A status of at least 500, a timeout or no connection: nothing is replayed.
CallFails(r) == CallReturns(r, "error", <<>>)

\* Mutant of CallPanics: Release is a plain call at the end, not deferred.
CallPanicsUnreleased(r) ==
  At(r, "calling") /\ Finish(r, "panicked") /\ Locally

\* The body breaks off: ReverseProxy panics and only the deferred calls run.
CallPanics(r) ==
  /\ At(r, "calling")
  /\ req' = [req EXCEPT ![r].stage = "closing", ![r].result = "panic"]
  /\ Locally

\* DecrementConnections, which leaves a count of at most least alone.
DisconnectAbove(r, least) ==
  /\ At(r, "closing")
  /\ CountConnection(r,
       IF connections[req[r].lb][req[r].target] > least THEN -1 ELSE 0)
  /\ Enter(r, "releasing")
  /\ UNCHANGED <<bulkheadVars, breaker, loadBalancers, counter, picks, failures>>

\* Mutant of Disconnect: the guard keeps the last connection.
DisconnectKeepingOne(r) == DisconnectAbove(r, 1)

\* The deferred DecrementConnections.
Disconnect(r) == DisconnectAbove(r, 0)

\* The deferred Release: the steps after which it goes on.
Release(r) ==
  /\ At(r, "releasing")
  /\ \/ Bulkheads!FreeSlot(r)
     \/ Bulkheads!HandOver(r)
     \/ Bulkheads!CountFreed(r)
     \/ Bulkheads!PopQueue(r)
     \/ Bulkheads!Refill(r)
     \/ Bulkheads!Park(r)
     \/ Bulkheads!CountGrant(r)
  /\ UNCHANGED <<breaker, balancerVars, req, failures>>

\* Release returns, and the closure with it: to ExecuteWithRetry, or into the
\* panic that net/http recovers from by aborting the connection.
Released(r) ==
  /\ \/ Bulkheads!FindQueueEmpty(r)
     \/ Bulkheads!SendGrant(r)
     \/ Bulkheads!GrantNobody(r)
  /\ IF req[r].result = "panic" THEN Finish(r, "panicked") ELSE Enter(r, "deciding")
  /\ UNCHANGED <<breaker, balancerVars, failures>>

----------------------------------------------------------------------------
(* After an attempt: ExecuteWithRetry and the end of ServeHTTP.            *)

Succeed(r) ==
  At(r, "deciding") /\ req[r].result = "ok" /\ Enter(r, "recording") /\ Locally

\* Every failed attempt carries a status of 500 or more and is retried.
RetryBefore(r, last) ==
  /\ At(r, "deciding")
  /\ req[r].result = "error"
  /\ req[r].attempt < last
  /\ req' = [req EXCEPT ![r].stage = "selecting", ![r].attempt = @ + 1,
                        ![r].target = None, ![r].result = None]
  /\ Locally

\* Mutant of Retry: one attempt too many.
RetryOnceMore(r) == RetryBefore(r, MaxAttempts + 1)

Retry(r) == RetryBefore(r, MaxAttempts)

\* 503, and no breaker hears of it.
Fail(r) ==
  /\ At(r, "deciding")
  /\ req[r].result = "error"
  /\ req[r].attempt = MaxAttempts
  /\ Finish(r, "unavailable")
  /\ Locally

Record(r) ==
  /\ At(r, "recording")
  /\ IF req[r].finalStatus = "error"
     THEN Breakers!RecordFailure(EntryOf(r))
     ELSE Breakers!RecordSuccess(EntryOf(r))
  /\ Enter(r, "done")
  /\ UNCHANGED <<bulkheadVars, balancerVars, failures>>

\* Time passes for the breakers.
Tick ==
  Breakers!Tick /\ UNCHANGED <<bulkheadVars, balancerVars, req, failures>>

----------------------------------------------------------------------------
\* The steps of a request that has arrived.
Proceed(r) ==
  \/ LookUpBalancer(r) \/ CreateBalancer(r)
  \/ TargetPanics(r) \/ Scan(r) \/ Select(r)
  \/ TryAcquire(r) \/ BulkheadRejects(r) \/ Connect(r)
  \/ CallSucceeds(r) \/ CallFails(r) \/ CallPanics(r)
  \/ Disconnect(r) \/ Release(r) \/ Released(r)
  \/ Succeed(r) \/ Retry(r) \/ Fail(r) \/ Record(r)

Next ==
  \/ \E r \in Requests :
       \/ \E path \in Paths : RouteNotFound(r, path) \/ FindRoute(r, path)
       \/ Proceed(r)
  \/ Tick

Spec == Init /\ [][Next]_vars

\* Goroutines run, waits and calls end by their timeouts.  Nothing obliges a
\* request to arrive.
FairSpec == Spec /\ \A r \in Requests : WF_vars(Proceed(r))

----------------------------------------------------------------------------
(* Properties.                                                             *)

TypeOK ==
  /\ Bulkheads!TypeOK
  /\ Breakers!TypeOK
  /\ loadBalancers \in [Routes -> Requests \cup {None}]
  /\ counter \in [Requests -> 0..(CounterCycle - 1)]
  /\ connections \in [Requests -> [Backends -> Nat]]
  /\ req \in [Requests -> Request]
  /\ picks \in [Routes -> [Backends -> Nat]]
  /\ failures \in [Entries -> 0..FailureThreshold]

(* However often an attempt is retried, the client is answered once, and   *)
(* never before the last attempt: no retry follows a replayed response,    *)
(* and a 503 never follows one either (proxy.go:80-123, retry.go:31-67).   *)
AnsweredOnce ==
  \A r \in Requests :
    /\ Len(req[r].reply) <= 1
    /\ At(r, "done") => Len(req[r].reply) = 1
    /\ req[r].reply # <<>> =>
         req[r].result # "error" \/ req[r].reply = <<"unavailable">>

(* A path at or below the pattern of a route, segment by segment, is       *)
(* served by such a route: a prefix match that ignores the boundaries of   *)
(* segments, and the first match, hide no route of the table               *)
(* (config.go:109-126).                                                    *)
RoutedBySegments ==
  \A r \in Requests :
    LET owners == {p \in Routes : Below(req[r].path, PatternOf[p])} IN
    ~ At(r, "new") /\ owners # {} => RouteOf(r) \in owners

(* A backend never has more than MaxConcurrentRequests calls in progress,  *)
(* through whichever routes and attempts they come.                        *)
CallsLimited ==
  \A b \in Backends :
    Cardinality({r \in Requests : At(r, "calling") /\ req[r].target = b})
      <= MaxConcurrentRequests

(* The connections a least-connections balancer counts are the calls in    *)
(* progress, so that the guard of DecrementConnections never hides a       *)
(* decrement without its increment (loadbalancer.go:98-110).               *)
ConnectionsBalanced ==
  \A l \in Requests, b \in Backends :
    connections[l][b] =
      Cardinality({r \in Requests :
        /\ req[r].stage \in {"calling", "closing"}
        /\ Strategy[RouteOf(r)] = LeastConnections
        /\ req[r].lb = l /\ req[r].target = b})

(* Requests on one route share one balancer, also those that arrived       *)
(* before it was there: otherwise each would count its own turns and       *)
(* connections (proxy.go:148-172).                                         *)
OneBalancer ==
  \A r, s \in Requests :
    req[r].lb # None /\ req[s].lb # None /\ RouteOf(r) = RouteOf(s)
      => req[r].lb = req[s].lb

(* Concurrent requests on a round-robin route spread over its backends:    *)
(* no backend is ahead of another by more than one pick.                   *)
RoundRobinBalanced ==
  \A p \in Routes : Strategy[p] = RoundRobin =>
    \A i, j \in 1..Len(BackendsOf[p]) :
      picks[p][BackendsOf[p][i]] <= picks[p][BackendsOf[p][j]] + 1

Idle == \A r \in Requests : req[r].stage \in {"new", "done"}

(* Once all requests are over, also by a panic in the middle of a call,    *)
(* nothing of them is left behind in a bulkhead but the slots it leaked.   *)
NothingLeftBehind ==
  Idle => \A b \in Backends : /\ semaphore[b] = leaked[b]
                              /\ activeCount[b] = leaked[b]
                              /\ sendq[b] = <<>>

(* Every request is answered, unless some bulkhead has lost all its slots. *)
EveryRequestAnswered ==
  \A r \in Requests :
    At(r, "matched") ~>
      At(r, "done") \/ \E b \in Backends : leaked[b] = MaxConcurrentRequests

(* "open after 5 failures" for FailureThreshold = 5 (circuitbreaker.go:38):*)
(* when as many calls in a row have failed and no request is under way,    *)
(* the backend's breaker is no longer closed.                              *)
FailuresOpenBreaker ==
  \A e \in Entries :
    failures[e] >= FailureThreshold /\ Idle => breaker[e].state # Breakers!CLOSED

(* "fallback to single target as backend (backward compatibility)"         *)
(* (config.go:133): a route with only a Target is served.                  *)
TargetRoutesServed ==
  \A r \in Requests :
    RouteOf(r) # None /\ BackendsOf[RouteOf(r)] = <<>>
      => req[r].reply # <<"panicked">>
=============================================================================

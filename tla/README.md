# TLA+ models of go-ai-gateway

The gateway is an HTTP reverse proxy in Go: it routes requests to backends, with
load balancing, retries, a bulkhead per backend URL and a circuit breaker per
backend; it also keeps a service registry with a health checker, and serves a
small user/login API. This directory holds TLA+ models of its concurrent core,
TLC configurations that check them, and TLAPS proofs. Line numbers are those of
`src/`; files without a directory are in `internal/gateway/`.

## 1. Inventory

| Component | State | Operations | What makes it correct |
|---|---|---|---|
| Circuit breaker (`circuitbreaker.go`) | state, three counters, time of the last failure, under one mutex | CanRequest, RecordSuccess, RecordFailure | counters fit the state; legal transitions; bounded trials; an open breaker is tried again |
| Bulkhead (`bulkhead.go`) | semaphore channel, queue channel, two counters | TryAcquire, Release | never more than N calls; no slot duplicated or dropped; every wait ends; Release returns |
| Proxy (`proxy.go`, `timeout.go`) | cache of load balancers; per request: route, attempt, backend, answer | ServeHTTP, getLoadBalancer, executeRequest | one answer; slots and connections given back on every path; failures reach the breaker |
| Load balancers (`loadbalancer.go`) | round-robin counter, connection map | SelectBackend, Increment/DecrementConnections | picks spread evenly; counters are the calls in progress |
| Retry (`retry.go`) | attempt number | ExecuteWithRetry, calculateDelay | bounded attempts; nothing repeated after a success; time bounded, also for slow clients |
| Routing (`config.go`) | routing table, constant | MatchRoute, GetBackends | every configured route is served, with the paths below it |
| Registry (`registry.go`, `registry_handler.go`) | map route -> id -> instance, under a lock | register, deregister, list, update health | both levels of the map agree; no access outside the lock |
| Health checker (`healthchecker.go`) | failures by instance id, under a lock of its own | ticker loop, a goroutine per check, update under both locks | health follows the checks, whatever was registered; no lock is waited for in a circle |
| Process (`cmd/gateway/main.go`) | server, signal channel | start, signals, shutdown | a shutdown lets requests finish, and ends |
| User API (`internal/api/user_handler.go`, `internal/models`) | none | RegisterUser, Login | what was answered is true of the table |
| Authentication (`internal/middleware/auth_middleware.go`) | SECRET of the environment | Authenticate | a token that passes was earned by a login |
| Database (`internal/db`, `migrations`) | table users, connection pool | CreateUser, GetUserByEmail, migrations | one row per email; no connection is kept |

Interaction. Every proxied request runs in its own goroutine. It asks *all*
breakers of its route for admission, lets the route's balancer pick among the
backends that admit it, acquires a slot of that backend's bulkhead (it may wait
in the bulkhead's queue), calls the backend, and releases the slot in a deferred
call. The goroutine that releases a slot also takes the head of the queue and
grants it a slot. All attempts of a request happen inside ExecuteWithRetry;
after it, ServeHTTP tells the breaker of the last backend the outcome. The
registry and the health checker share a map; nothing connects them to the
proxy's routing table. The handlers of the user API send one statement each
through the pool; nothing is persisted but the users table. The main goroutine
starts everything and, on a signal, waits for the requests in progress.

What is hard: the channel operations of many requests interleave freely in the
bulkhead; timeouts race grants; an admission of a breaker may be answered late
or never; panics unwind through the attempt; balancers are created on demand; a
request may outlast its context; a statement may outlive its call, and a token
the process that signed it.
`PROJECT.json` lists these hazards at their lines.

## 2. Modules

| Module | Models | Uses |
|---|---|---|
| `CircuitBreaker` | the type `CircuitBreaker`, for a set of backends | |
| `CircuitBreakerClients` | breakers with the requests that use them | `CircuitBreaker` |
| `SlotPool` | abstract: a pool of slots per backend | |
| `Bulkhead` | `ServiceBulkhead`, step by step | `SlotPool` (refinement) |
| `Routing` | matchesPattern, MatchRoute | |
| `Proxy` | the life of a request: routing, balancers, attempts, retry, recording | `Routing` (extended), `Bulkhead`, `CircuitBreaker` (instances) |
| `MCProxy` | routing tables for TLC | `Proxy` |
| `Registry` | the map of instances and its lock | |
| `HealthChecker` | the checker's loop and goroutines, on the registry | `Registry` (extended) |
| `MCHealthChecker` | keys of instances for TLC | `HealthChecker` |
| `RetryLoop` | how long a request takes: attempts, timeouts, delays | |
| `Gateway` | the process: start, signals, shutdown | `RetryLoop` (extended) |
| `Users` | registration, login, tokens, the pool and the table | |
| `CircuitBreaker_proofs`, `CircuitBreakerClients_proofs` | theorems about the breakers | |
| `Bulkhead_proofs` | theorems: slots, limit, refinement | |
| `BulkheadCounts_proofs` | theorems: waiters and counters | `Bulkhead_proofs` (extended) |
| `Proxy_proofs` | theorems about the gateway as a whole | `BulkheadCounts_proofs`, `CircuitBreaker_proofs` (instances) |
| `HealthChecker_proofs` | theorems about the registry and the checker | |
| `Gateway_proofs` | theorems about time and shutdown | |
| `Users_proofs` | theorems about accounts and tokens | |

### CircuitBreaker, CircuitBreakerClients

Every Go method holds the breaker's mutex for its whole body, so a call is one
step; the methods are functions of the record of fields (`SetState`,
`AfterCanRequest`, ...). `lastFailureTime` is kept as its age, saturated at
`Timeout`, which is all the code compares; a new breaker's zero time is
infinitely old. `failureCount` saturates at the threshold. `Tick` is the clock.

`CircuitBreakerClients` adds the callers: a request is admitted (`Ask`) and
later reports a success, a failure, or nothing (`Abandon`: another backend was
picked, or the request ended in an error). It shows what the *type* does under
its full interface. In the gateway as it is, the proxy never reports a failure
(section 5), so the states beyond CLOSED are not reached there.

### Bulkhead, SlotPool

One step per channel operation and per mutex section; `pc` names what has just
happened to a request. A Go channel is a counter (the semaphore) or a sequence
(the queue). A plain send on a full channel parks the goroutine (`Park`, `sendq`)
and the next receive hands the freed place directly to it (`HandOver`), as the Go
runtime does. A queue entry is named by its request; the entry of a request
that has given up remains, as `None`. The queue timeout and the request context
may fire at any moment of a wait (`GiveUp`), also when the grant is ready
(`GiveUpGranted`: `select` chooses among ready cases). `leaked` counts slots
granted to requests that had gone. `Lost` adds the stale entries, in the queue and in
the hands of a Release, each of which will cost a slot: `TimeoutsCostOne` says that
it grows by one with each timeout and by nothing else.

`SlotPool` is what a user of a bulkhead may rely on: users take, return and pass
on slots, and a slot may be lost. `Bulkhead` implements it with
`users <- Holders`, `lost <- leaked`.

### Routing

Paths and patterns are sequences of tokens, cut so that a string is a prefix of
another exactly when its tokens are: `/api/usersX` is `/`, `api`, `/`, `users`, `X`.
So the prefix match without segment boundaries is in the model. `Below` is the
reference: at or below the pattern, segment by segment. `PatternsApart` is what a
table must fulfil for the two to agree on its paths: no wildcard takes the top of
a later pattern unless that is below it, and none is nested in a later one. The
built-in patterns do (`TableIsServed` in `MCProxy`, which TLC evaluates); nothing in
the code checks it.

### Proxy

`req[r]` holds what ServeHTTP keeps of request r; `req[r].stage` is where it is.
`FindRoute` and `RouteNotFound` are MatchRoute for one of the `Paths`. `LookUpBalancer`/`CreateBalancer`
are the two lock sections of getLoadBalancer; `Scan` is one turn of
getHealthyBackends, one call of CanRequest; `Select` is the strategy's choice
with its counter; `TryAcquire`, `BulkheadRejects`, `Release`, `Released` are the
bulkhead's steps, of which the second and fourth kind return to the proxy;
`Connect`, `CallSucceeds`/`CallFails`/`CallPanics`, `Disconnect` are the body of the
attempt; `Retry`, `Fail`, `Succeed`, `Record` follow. There is one bulkhead per
URL (NewProxy) but one breaker per backend *of a route* (`Entries`).

Abstractions: headers and bodies; the status of a backend, but for "at least
500"; every duration (those are in `RetryLoop`). A call may end at any moment in any of three ways.
`Healthy` and `Weight` are constant in this code and are left out; an
unparseable backend URL cannot occur with the built-in tables. The round-robin
counter is kept modulo `CounterCycle`, a multiple of every number of candidates,
so that the choices are those of the 64-bit counter before it wraps.
`picks` and `failures` are histories that only properties read.

### Registry, HealthChecker

Each call of the registration handler allocates an instance that goroutines may
still point to when it has left the map, so an instance is an object with an
identity, created at most once. `services` is the set of those in the map and
`listed` the set of routes with an inner map. A section under the registry's lock
is one step, but GetAllServicesHandler writes to its client before it unlocks:
`ListAll` and `ListedAll` are its ends and `readers` who is between them.

`Tick`, `BeginSweep`, `Visit` and `EndSweep` are the loop of the checker. It holds
`hc.mutex` for reading while it ranges over the maps, but not the registry's
lock, so a registration in the middle may abort the process (`MayCrash`) or be
seen or not by the range: `unseen` must still be visited, `added` may be. A check
is a goroutine in `calls`, then in `verdicts`; `CountResult` is updateServiceHealth
up to its call of the registry, which `ApplyResult` finishes when the registry's
lock is free. Holding `hc.mutex` for writing is `updating # None`. `failures` is
counted up to `FailureLimit`, which is all the code compares; `streak` is a
history. RegisterHandler decodes whatever the client sends, health included, and
RegisterService stores it as it came, so `Register(x, h)` is open to every `h` in
`Healths`; "unknown" stands for every text but "healthy" and "unhealthy". What is shown
of an instance is the client's word until the first result for its key reaches
the registry; `checked` is the history of the instances for which one has. The URL,
metadata and LastSeen are abstracted, and so is the cancellation of the context,
which main.go never does.

### RetryLoop, Gateway

`Proxy` has the shared state and no time; `RetryLoop` has time and nothing shared.
`req[r]` has a phase, the time `left` to the end of the context and the `timer` of
the wait it is in. `Tick` takes one unit from all of them, and not before every
step that the code takes without waiting (`Patient`): the model is a discrete
clock with urgent steps. What somebody else decides (a slot comes free, the
backend answers, the client leaves or reads, Release must wait) may happen at any
time. A sleep ignores the context, as time.Sleep does; the waits for a slot and
for a backend end with it. `calculateDelay` gives the set of delays that the cap
and the jitter allow, in integers. `PauseUnits` is the set of all units of time
the sleeps can take, sleep by sleep, so that their sum is a cardinality and needs
no recursion. `age` and `overtime` are histories.

Two waits are for the client. The attempt that succeeds writes the buffered
response to it before the deferred Release (`replaying`: replayTo, `proxy.go:115` and
237-250), and net/http flushes what its own buffer still holds when ServeHTTP has
returned (`flushing`). A client that does not read stops either, and neither the
context nor BackendTimeout ends it: only the server's WriteTimeout (`main.go:94`)
does, counted from the arrival of the request (`writable`), after which the write
fails at once and the request goes on. `stalled` is the history of requests that
have waited so. ServeHTTP reports no error of the write, so a failed one is
followed by the same steps. After a panic there is nothing to flush; the model
lets such a request flush too, which only adds behaviours.

Release may park without any limit (`Hold`, see `Bulkhead`). No bound can hold of such
a request, so its time is not counted any further: it stays in the phase `held`,
in progress, for any length of time, and then ends (`LetGo`).

`Gateway` is the main goroutine, the server goroutine and the signals. Shutdown closes
the listener, but net/http gives connections that were accepted before and have
sent nothing five seconds (`FreshLimit`), so `Serve` goes on that long. net/http polls,
so `ExpireShutdown` may also come when all requests are done. Every end of the
process resets the requests. Prepare stands for everything up to l.85.

### Users

A call waits for a connection, has a statement executed, gets its reply, and
answers. The database executes a statement atomically (`CreateUser` with the
unique index, `GetUserByEmail`). `QueryFails` may happen at every point: the
client leaves, the connection breaks, the statement fails; an INSERT may then
still be executed, at once or later (`stray`, `SettleStray`), and so it may after
a `Restart`, which may also change SECRET. `token[c]` is the last token of client c;
`admitted` says whom the middleware has just let pass. `acknowledged` and `earned`
are histories. An account is its email and password, and stands for its id.

## 3. Runs

| Run | Instance | Distinct states | Shows |
|---|---|---|---|
| breakers | 3 callers, 2 breakers, thresholds 2, MaxRequests 2, Timeout 2 | 13,456 | types, `CountersMatchState`, `LegalTransitions`, `TrialsBounded`, `StuckForever`; with fairness `OpenEventuallyProbes`, `HalfOpenDecidesOrSticks` |
| breaker_trials | as above, 1 breaker | violation | MaxRequests + 1 trials |
| bulkhead | 4 requests, 2 slots, queue of 2 | 172,809 | limit, slots, waiters, counters, what timeouts cost, refinement of `SlotPool`; waits end, Release returns unless all slots have leaked |
| bulkhead_leak | small | violation | a slot granted to a request that timed out |
| proxy_retry | 3 requests, 1 backend, 1 slot, queue of 1, 2 attempts | 506,154 | one answer, nothing left behind |
| proxy_routes | 2 requests, 5 routes with all strategies, 2 shared backends, 6 paths, 2 attempts | 242,778 | paths reach their route, limit across routes, one balancer per route, even picks, exact connection counts; every matched request is answered unless all slots of a bulkhead have leaked |
| proxy_breaker | 2 requests, 1 backend, threshold 2 | violation | failures never open a breaker |
| proxy_target | as proxy_routes | violation | a Target route panics |
| health_checker | 2 instances under one key, registered with any health, 1 reader, limit 2, 2 checks of an instance at a time | 200,327 | `LevelsAgree`, `UnhealthyAtLimit`; with fairness `UpdatesEnd`, `SweepsGoOn` |
| health_ids | 2 instances with one ID on two routes, limit 2 | violation | an instance that always fails is not shown as unhealthy |
| gateway | 2 requests, 2 attempts, waits of 1, delays capped to 4 (up to 5 with jitter), context of 5, WriteTimeout and grace of 11 | 1,654,829 | `OvertimeBounded`, `RequestsEnd`, `NoRequestCutOff`; with fairness `SignalStops` |
| users | 2 clients, 1 email, 2 passwords, 1 connection, tokens live 1, SECRET set or not, 1 restart, 1 stray statement | 120,296 | `AcknowledgedStored`, `RightPasswordAccepted`, `AccessIsEarned`; with fairness `CallsEnd` |

Why the bounds are enough to be interesting. A Release parks only if a third
request takes the slot it freed while a second waits: three requests and one
slot suffice, and four requests with two slots also let two Releases run at
once. A queue of two holds an abandoned entry in front of a live one. The trial
limit needs more callers than `MaxRequests`. The second look of getLoadBalancer
needs two requests. Time is bounded by saturation, not by a cut-off; the
requests arrive once each, which bounds everything in `Proxy`. In `Bulkhead`
requests return, and `leaked` is bounded by the slots. Symmetry of requests is
used in the safety runs of `Proxy` only. Two instances under one key are what a
replacement during a sweep needs, and two checks of an instance at a time are
what a result out of order needs; a tick while more are running is cut off
(`MaxChecks`), which the code does not do. In `Gateway` two attempts have one sleep
between them, of which the first delay (8) is above the cap (4). The grace is the
smallest that `GraceSuffices` allows, and WriteTimeout is equal to it and longer
than a request that has no slow client, as in the code, whose defaults satisfy
`GraceSuffices`: 5 s + 3 * (2 s + 5 s) + 125 ms + 250 ms are less than 30 s, and
WriteTimeout is 30 s. In `Users`
one email is what competing needs, one connection makes the other client wait,
and a token can expire, outlive a restart, or be signed without a SECRET.
`Horizon`, `MaxRestarts` and `MaxStray` cut the run off.

Deadlock is checked in the breaker and bulkhead runs. The runs of `Proxy` may
stop: requests that have been answered do not come back. `HealthChecker` and
`Gateway` may stop because the process may end.

### Fairness

- `Bulkhead`: weak fairness of each request's steps inside TryAcquire and
  Release, and of the start of Release: goroutines are scheduled, the queue
  timeout (l.95) always fires, a call to a backend ends (its context has
  BackendTimeout). No fairness for arrivals, and none that favours a parked
  sender: the channel serves those in order.
- `Proxy`: weak fairness of the steps of a request that has arrived, for the
  same reasons; `MaxAttempts` bounds the loop.
- `HealthChecker`: weak fairness of the ticker, of the visits, of the end of a
  call (the client's timeout), of the update and of the end of a response (the
  server's WriteTimeout); strong fairness of `BeginSweep` and `CountResult`, which
  wait for `hc.mutex`: Go's RWMutex passes over no waiter forever. Clients
  register and read as they like.
- `Gateway`: weak fairness of the main goroutine, of the clock and, taken together,
  of the steps that requests take without waiting for another: time does not
  pass before they are taken. Nobody has to send a signal; no slot has to come
  free, no backend has to answer, no client has to read, and a Release that
  waits may wait forever.
- `Users`: weak fairness of what the database executes and the handlers do next;
  strong fairness of `AcquireConn`: pgxpool serves those that wait in order. No
  fairness for calls that fail, for clients, for statements that have outlived
  their calls.
- `CircuitBreakerClients`: time passes, every admitted request ends (it reports
  or not), and for each backend requests keep asking when admitted.
  `OpenEventuallyProbes` is about a gateway under traffic.

### Mutants

Definitions called "Mutant of ..." are variants with a plausible bug: a missing
reset, a wrong bound, an unlocked second look, a plain call instead of a
deferred one. Each property of the passing runs is violated by one of them.

## 4. Proofs

Every safety invariant and every action property that a passing run checks is
proved, and so is the refinement: for every finite set of requests (or clients,
or callers) and every value of the parameters that the `ASSUME`s allow. These ask
for sizes that are numbers, thresholds and limits of at least one, finite sets of
goroutines, and a `None` that is not one of the values it stands beside. Three theorems
have a hypothesis on top: `UnhealthyIsAtLimit` (`IdsUnique`), `RoutesServeTheirPaths`
(`PatternsApart`) and `NoRequestIsCutOff` (`GraceSuffices`, how the times of the
configuration relate). Each hypothesis holds in the run that checks the property.

### Circuit breakers

- `CircuitBreaker_proofs`: `TypeCorrect`, `CountersCorrect`, `TransitionsLegal`.
  `CountersMatchState` is inductive together with types; the lemmas say what
  setState and each method do to one record.
- `CircuitBreakerClients_proofs`: `ClientsTypeCorrect`, `TrialsAreBounded`,
  `StuckIsForever`. The strengthening is `TrialsCounted`: in HALF_OPEN the number
  of trials is requestCount + 1, because the admission that opens the half-open
  state is not counted.

### Bulkheads

- `Bulkhead_proofs`: `TypeCorrect`, `SlotsCorrect`, `LimitHolds`, `PoolImplemented`. `ConcurrencyLimit` alone is not inductive: a request runs
  because it holds a value of the semaphore, so the invariant says who holds
  each value (`SlotsAccounted`), who is parked where and that each is parked once,
  and that a grant is on its way to one request of the same bulkhead only. The
  refinement maps each action to a
  step of the pool or to a stutter.
- `BulkheadCounts_proofs`: `StatsAreRight`, `WaitersAreKnown`, `OnlyTimeoutsCost`. The counters are
  cardinalities of sets of requests; each action moves one request in or out of
  one set at a time (`Stats`). For the waiters, `WaiterSomewhere` says that each has a place
  in the queue, in a Release or in the response channel; that it is exactly one
  place follows from the structure that `Bulkhead_proofs` keeps. `OnlyTimeoutsCost`
  follows a stale entry through the queue, the Release that takes it and the slot
  it costs: each step moves it and keeps their sum. That the entries left in the
  queue are as many when its head is taken is shown with a bijection.

### The gateway

`Proxy_proofs` composes the two. Its invariant describes a request's record stage
by stage (`Sound`, `Answered`) and ties each stage to the places its goroutine can
have in a bulkhead (`Placed`). With these, every step of `Proxy` is a step of
`Bulkhead` or leaves the bulkheads alone, and the same for the breakers:
`BulkheadsAreUsedRight` and `BreakersAreUsedRight` say that a behaviour of the gateway
is a behaviour of its parts. So the invariants proved of the parts hold in it, and
the rest adds to them:

- `CallsAreLimited`: a request in stage "calling" is "running" in its bulkhead.
- `NothingIsLeftBehind`: a request that is over is at rest in its bulkhead, so no
  value of a semaphore, no live entry and no parked sender has an owner.
- `AnswersAreSingle`: an answer is written only where the record shows none.
- `BalancerIsShared`: the cached balancer of a route was made by a request of that
  route, and whoever has one has the cached one (`Sharing`).
- `ConnectionsAreBalanced`: each counter is the number of requests between their
  increment and their decrement; inductive with `Sound`.
- `TurnsAreBalanced`: `TakingTurns` gives a number m of full rounds: the backends
  from the second (the counter is incremented first) up to the counter have had
  m + 1 picks and the others m. It needs that no
  breaker of the route ever refuses, so that the candidates are always all
  backends; that is `NoBreakerOpens`.
- `NoBreakerOpens`: every breaker stays CLOSED, whatever the backends do. A request
  reaches "recording" only after an attempt that succeeded. This proves for every
  instance what the run proxy_breaker shows on one (section 5, no. 1), and says
  that none of the breaker's protection is in effect.
- `RoutesServeTheirPaths`: for every table whose patterns keep apart
  (`PatternsApart`), whose routes are all in the order, and whose patterns and
  paths are sequences of tokens. The lemmas are about prefixes: two prefixes of
  one path are prefixes of one another, so an earlier pattern that takes a path
  from a later one either lies above the later one's top or reaches below it.
  `MatchRouteFirst` is the part that holds for every table.

### Registry and health checker

`HealthChecker_proofs`: `TypeCorrect`, `MapLevelsAgree`, `UnhealthyIsAtLimit`.
The bound on checks of one instance is part of the type, and needs that what a
sweep has still to visit leaves room for one check each; an instance that was
never registered is neither in the map nor checked nor has a result (`RangeSound`).
For `UnhealthyAtLimit`, whose theorem holds whatever health the clients register,
the invariant speaks of the update in progress (`UpdateDue`): the count is written before the registry is. It has the
hypothesis `IdsUnique`, that instances with one ID are on one route, which the run
health_checker satisfies; without it the property is false (section 5, no. 4).

### Time and shutdown

`Gateway_proofs`: `TypeCorrect`, `OvertimeIsBounded`, `RequestsDoEnd`,
`NoRequestIsCutOff`; the last for times that fulfil `GraceSuffices`, the others for all.
The strengthening `Sound` has two parts. As long as a request has not waited for its
client (`Paced`), it bounds in each phase the age with the time of the wait in
progress by the waits and sleeps of the attempts so far (`WaitsCounted`), the
overtime by their sleeps (`OvertimeCounted`), and the age with what is left of the
context by `RequestTimeout` and the overtime (`ContextCounted`). In every phase the age
and what is left of the deadline of writes are within WriteTimeout
(`WriteCounted`); and a request that has waited for its client has a successful
attempt behind it and does nothing but finish, without waiting for anything else
(`StallCounted`, `FlushCounted`), so this bound is its own. `Draining` adds that a
request in progress arrived at most `FreshLimit` after the shutdown began. That the
sleeps after n attempts are those after n - 1 and one more is a lemma about
finite sets.

### Users

`Users_proofs`: `TypeCorrect` (with the limit of the pool), `AcknowledgedIsStored`,
`RightPasswordIsAccepted`, `AccessWasEarned`. The strengthening says what a reply
on its way means: "created" has its row in the table, "found" carries a row of the
table (`RepliesTrue`); there is one row per email; a token agrees with the history
of the login it was signed for (`TokensEarned`).

### Only model-checked

Liveness (`OpenEventuallyProbes`, `HalfOpenDecidesOrSticks`, `EveryWaitEnds`,
`ReleaseReturns`, `EveryRequestAnswered`, `UpdatesEnd`, `SweepsGoOn`, `SignalStops`,
`CallsEnd`) is out of the prover's reach: it rests on fairness, hence on ENABLED. The five violations
are traces on one instance; of the first, `NoBreakerOpens` is the general form.

## 5. Disagreements found

1. **Failures never reach a breaker** (`proxy.go:120`, run proxy_breaker). A final
   status of 500 or more always comes with an error, and ServeHTTP returns
   before its call of RecordFailure. `circuitbreaker.go:38`: "open after 5
   failures". `scripts/test-circuit-breaker.sh:75`: "Circuit breaker should now
   be OPEN".
2. **A Target route panics** (`loadbalancer.go:115`, run proxy_target): the backend
   made for it has no breaker. `config.go:133`: "fallback to single target as
   backend (backward compatibility)". `/users` (other than POST) and `/auth/*` are
   such routes.
3. **Timed-out requests are granted slots** (`bulkhead.go:73`, run bulkhead_leak):
   their entries stay in the queue; each such slot is lost for good.
   `bulkhead.go:91`: "Wait for either being granted a slot or
   timeout/cancellation".
4. **Failures counted by ID alone** (`healthchecker.go:89`, run health_ids): the
   registry keys instances by route and ID (`registry.go:20`), so the success of
   another route's instance with the same ID clears the count of one that always
   fails. `registry_test.go:188-197`: "Simulate multiple failures", "Expected
   health 'unhealthy'".
5. **One trial too many** (`circuitbreaker.go:71`, run breaker_trials):
   `circuitbreaker.go:41`: "allow 3 test requests when half-open".

Observed but not claimed as a disagreement: once all slots have leaked, the plain
send of Release (`bulkhead.go:68`) waits forever, outside every timeout, and with
it a request whose answer is ready (`ReleaseReturns` and `EveryRequestAnswered`
except this case; `timeout.go:9` promises an "overall request timeout"); the
checker ranges over the registry's maps without their lock, which lets the
runtime abort the process (`healthchecker.go:55`, the step `MayCrash`); RecordFailure restarts the timeout of
an open breaker; a half-open breaker whose trials are never answered stays so
(`StuckForever`, proved of the type; in the gateway as it is no breaker gets there,
`NoBreakerOpens`); a waiter can sit beside a free slot until its timeout;
`ConnectTimeout` is never used.

More of these. Routing: `/api/usersX` is served by the route of `/api/users/*`.
Time: a request outlasts its context, by its sleeps at most or, with a client that
does not read, up to WriteTimeout (`OvertimeBounded`); such a client keeps the slot of
the backend as long, whatever `-request-timeout` says (`proxy.go:115`); WriteTimeout
equals RequestTimeout, so an answer at the end of the one has no time left in the
other. Registry: a client may register an instance as "unhealthy" with no failure
counted, and it is shown so until its first result (`registry.go:38`). Shutdown: a
request that waits in Release is cut off, and so may be the first request of a
connection accepted before, when it comes late and its client reads slowly: its
WriteTimeout ends after the grace. So may other handlers than the proxy's (a registration waits for a
connection with no timeout of its own, `main.go:106` gives it 30 s); a signal between
the start of the server and Notify kills the process with its requests. Users:
the 404 of Login is never sent, since GetUserByEmail returns
`models.ErrUserNotFound` and `user_handler.go:131` asks for `sql.ErrNoRows`, and an
unknown email is answered 500; so is an email that exists, although the repository
has an error of its own for it (`user_repository.go:44`); the DEFAULT of the column
role never applies, since "" is inserted; emails are validated trimmed and stored
as sent; without SECRET, Login hands out tokens that Authenticate refuses.

## 6. Not modelled, and the plan

Still to do:

1. An abstract specification of the registry, a function from keys to instances
   without levels or locks, which `HealthChecker` implements.
2. An abstract specification of the gateway for a client (a request arrives and is
   answered once, or aborted), which `Proxy` implements; its steps are known from
   `AnswersAreSingle`.
3. Theorems that say what the breakers would promise in the gateway if failures
   reached them: the proofs of `Proxy` that do not use `BreakersClosed` stay.

Left out:

- GetServicesByRouteHandler encodes instances outside the lock while
  UpdateServiceHealth writes them: it changes nothing, and a torn text has no
  meaning the models could tell apart.
- Request bodies, which a retry cannot send again (`proxy.go:105`), and the rewriting
  of paths and headers for the backend (`proxy.go:135-145`).
- The abort of the process by the health checker is not composed with `Gateway`, and
  no property is about it: the range without a lock is undefined behaviour.
- How evenly least connections spreads concurrent requests (`loadbalancer.go:78`): the
  gap between choice and increment is in `Proxy`, but no document promises more.
- Slow clients are in `RetryLoop` only. In `Proxy`, where nothing has a duration, the
  write is part of the time between the end of a call and Release.
- In the user API: roles, timestamps, what answers contain, requests refused before
  the database is asked; in the middleware, requests without the header or with
  one that is malformed; the migration runner (a library) and the trigger of the
  table, which no code fires.
- The JSON helper (pure output), mock services and fixtures, scripts and container
  files.

---------------------------- MODULE Proxy_proofs ----------------------------
(***************************************************************************)
(* Proofs about Proxy, for every finite set of requests and every routing  *)
(* table, size and threshold: the gateway runs its bulkheads and breakers  *)
(* only as their modules allow, and what each request, balancer and        *)
(* counter may rely on.                                                    *)
(*                                                                         *)
(* A request's record is described stage by stage (Sound), and so is the   *)
(* place its goroutine has in a bulkhead (Placed).  With these, every step *)
(* of the gateway is a step of Bulkhead or leaves the bulkheads alone, so  *)
(* that what is proved of them there holds here too.                       *)
(***************************************************************************)
EXTENDS Proxy, TLAPS

\* The proofs about the parts.
BP == INSTANCE BulkheadCounts_proofs
BR == INSTANCE CircuitBreaker_proofs WITH Backends <- Entries

\* Each instance brings its own copy of the operators of FiniteSets.
LEMMA SameFiniteSets ==
  ASSUME NEW S
  PROVE  /\ IsFiniteSet(S) <=> BP!IsFiniteSet(S)
         /\ Cardinality(S) = BP!Cardinality(S)
         /\ Bulkheads!Cardinality(S) = BP!Cardinality(S)
BY DEF IsFiniteSet, BP!IsFiniteSet, Cardinality, BP!Cardinality, Bulkheads!Cardinality

(* What the parts assume of their constants, the gateway assumes too.      *)
LEMMA PartsAssumptions == BP!BulkheadAssumption /\ BR!BreakerAssumption
BY ProxyAssumption, SameFiniteSets DEF BP!BulkheadAssumption, BR!BreakerAssumption

LEMMA CountRequests ==
  ASSUME NEW S \in SUBSET Requests, NEW r
  PROVE  /\ Cardinality(S) \in Nat
         /\ Cardinality(S \cup {r}) = IF r \in S THEN Cardinality(S) ELSE Cardinality(S) + 1
         /\ Cardinality(S \ {r}) = IF r \in S THEN Cardinality(S) - 1 ELSE Cardinality(S)
<1>1. BP!IsFiniteSet(Requests)
  BY PartsAssumptions DEF BP!BulkheadAssumption
<1>2. BP!IsFiniteSet(S) /\ BP!Cardinality(S) \in Nat
  BY <1>1, PartsAssumptions, BP!FS_Subset, BP!FS_CardinalityType
<1> QED
  BY <1>2, SameFiniteSets, PartsAssumptions, BP!FS_AddElement, BP!FS_RemoveElement

LEMMA CountNone == Cardinality({}) = 0
BY SameFiniteSets, PartsAssumptions, BP!FS_EmptySet

----------------------------------------------------------------------------
(* Operators of the model.                                                 *)

LEMMA Least ==
  ASSUME NEW S \in SUBSET Nat, S # {}
  PROVE  \E i \in S : \A j \in S : i <= j
<1> DEFINE R == BP!OpToRel(<, Nat)
<1>1. BP!IsWellFoundedOn(R, Nat)
  BY BP!NatLessThanWellFounded, PartsAssumptions
<1>2. \A i, j \in Nat : i < j => <<i, j>> \in R
  BY DEF BP!OpToRel
<1> HIDE DEF R
<1>3. PICK i \in S : \A j \in S : ~ (<<j, i>> \in R)
  BY <1>1, BP!WFMin, PartsAssumptions
<1>4. ASSUME NEW j \in S
      PROVE  i <= j
  <2>1. i \in Nat /\ j \in Nat /\ ~ (j < i)
    BY <1>2, <1>3
  <2> QED
    BY <2>1
<1> QED
  BY <1>4

(* MatchRoute is None when no pattern matches, and otherwise the first of  *)
(* the table whose pattern does (config.go:109-117).                       *)
THEOREM MatchRouteFirst ==
  ASSUME NEW path
  PROVE  \/ /\ MatchRoute(path) = None
            /\ \A i \in DOMAIN RouteOrder : ~ matchesPattern(PatternOf[RouteOrder[i]], path)
         \/ /\ MatchRoute(path) \in Routes
            /\ \E i \in DOMAIN RouteOrder :
                 /\ MatchRoute(path) = RouteOrder[i]
                 /\ matchesPattern(PatternOf[RouteOrder[i]], path)
                 /\ \A j \in 1..(i - 1) : ~ matchesPattern(PatternOf[RouteOrder[j]], path)
<1> DEFINE matching == {i \in DOMAIN RouteOrder :
                          matchesPattern(PatternOf[RouteOrder[i]], path)}
           first == CHOOSE i \in matching : \A j \in matching : i <= j
<1>1. DOMAIN RouteOrder = 1..Len(RouteOrder) /\ Len(RouteOrder) \in Nat
      /\ \A i \in DOMAIN RouteOrder : RouteOrder[i] \in Routes
  BY ProxyAssumption
<1>2. CASE matching = {}
  BY <1>2 DEF MatchRoute
<1>3. CASE matching # {}
  <2>1. matching \subseteq Nat
    BY <1>1
  <2>2. \E i \in matching : \A j \in matching : i <= j
    BY <1>3, <2>1, Least
  <2>3. first \in matching /\ \A j \in matching : first <= j
    BY <2>2
  <2>4. MatchRoute(path) = RouteOrder[first]
    BY <1>3 DEF MatchRoute
  <2> HIDE DEF first
  <2>5. \A j \in 1..(first - 1) : j \in DOMAIN RouteOrder /\ j \notin matching
    BY <1>1, <2>1, <2>3
  <2> QED
    BY <1>1, <2>3, <2>4, <2>5
<1> QED
  BY <1>2, <1>3

LEMMA MatchRouteType == \A path : MatchRoute(path) \in Routes \cup {None}
BY MatchRouteFirst

LEMMA ModRange ==
  ASSUME NEW n \in Nat \ {0}, NEW x \in Nat
  PROVE  x % n \in 0..(n - 1)
OBVIOUS

LEMMA ModZero == ASSUME NEW n \in Nat \ {0} PROVE 0 % n = 0
OBVIOUS

LEMMA ModUnique ==
  ASSUME NEW n \in Nat \ {0}, NEW q \in Nat, NEW i \in 0..(n - 1)
  PROVE  (n * q + i) % n = i
OBVIOUS

LEMMA ModNext ==
  ASSUME NEW n \in Nat \ {0}, NEW x \in Nat
  PROVE  (x + 1) % n = IF x % n = n - 1 THEN 0 ELSE (x % n) + 1
<1> DEFINE q == x \div n
           i == x % n
<1>1. q \in Nat /\ i \in 0..(n - 1) /\ x = n * q + i
  OBVIOUS
<1> HIDE DEF q, i
<1>2. CASE i = n - 1
  <2>1. x + 1 = n * (q + 1) + 0
    BY <1>1, <1>2
  <2>2. q + 1 \in Nat /\ 0 \in 0..(n - 1)
    BY <1>1
  <2>3. (n * (q + 1) + 0) % n = 0
    BY <2>2, ModUnique
  <2> QED
    BY <1>2, <2>1, <2>3 DEF i
<1>3. CASE i # n - 1
  <2>1. x + 1 = n * q + (i + 1) /\ i + 1 \in 0..(n - 1)
    BY <1>1, <1>3
  <2>2. (n * q + (i + 1)) % n = i + 1
    BY <1>1, <2>1, ModUnique
  <2> QED
    BY <1>3, <2>1, <2>2 DEF i
<1> QED
  BY <1>2, <1>3

(* The bound of the model's counter does not show modulo n.                *)
LEMMA ModWrap ==
  ASSUME NEW n \in Nat \ {0}, NEW c \in Nat \ {0}, c % n = 0, NEW x \in 0..(c - 1)
  PROVE  ((x + 1) % c) % n = (x + 1) % n
<1>1. CASE x + 1 = c
  <2>1. c % c = 0 /\ 0 % n = 0
    OBVIOUS
  <2> QED
    BY <1>1, <2>1
<1>2. CASE x + 1 # c
  <2>1. x + 1 \in 0..(c - 1)
    BY <1>2
  <2>2. (x + 1) % c = x + 1
    BY <2>1
  <2> QED
    BY <2>2
<1> QED
  BY <1>1, <1>2

LEMMA EntryHere ==
  ASSUME NEW p \in Routes, NEW i \in 1..Len(BackendsOf[p])
  PROVE  /\ BackendsOf[p][i] \in Backends
         /\ <<p, BackendsOf[p][i]>> \in Entries
<1>1. BackendsOf[p] \in Seq(Backends)
  BY ProxyAssumption
<1>2. BackendsOf[p][i] \in Backends
  BY <1>1
<1> QED
  BY <1>2 DEF Entries

LEMMA EntryType ==
  ASSUME NEW p, NEW b, <<p, b>> \in Entries
  PROVE  p \in Routes /\ b \in Backends
BY DEF Entries
----------------------------------------------------------------------------
(* One request.                                                            *)

Early     == {"new", "matched", "creating", "selecting"}
Attempted == {"acquiring", "calling", "closing", "releasing"}

\* The scan of the breakers has passed over the first q.scanned backends.
Scanning(q) ==
  LET bs == BackendsOf[q.route] IN
  /\ q.scanned <= Len(bs)
  /\ Len(q.healthy) = q.scanned
  /\ \A i \in 1..q.scanned : q.healthy[i] = bs[i]

\* What the fields of a request are at each stage.
Sound(q) ==
  /\ q.stage = "new" => q.route = None
  /\ q.stage \notin {"new", "done"} => q.route \in Routes
  /\ q.stage \in {"new", "matched", "creating"} => q.lb = None
  /\ q.stage \notin {"new", "matched", "creating", "done"} => q.lb # None
  /\ q.lb # None => q.route \in Routes
  /\ q.stage \in Early => q.target = None
  /\ q.stage \in Attempted => q.target # None
  /\ q.target # None => q.lb # None /\ <<q.route, q.target>> \in Entries
  /\ q.stage \in Early \cup {"acquiring", "calling"} => q.result = None
  /\ q.stage \in {"closing", "releasing"} => q.result # None
  /\ q.stage = "deciding" => q.result \in {"ok", "error"}
  /\ q.stage = "recording" => q.result = "ok"
  /\ q.result = "ok" => q.target # None /\ q.finalStatus = "ok"
  /\ q.stage \notin {"selecting", "done"} => q.scanned = 0 /\ q.healthy = <<>>
  /\ q.stage = "selecting" => Scanning(q)

\* What a request has been answered at each stage.
Answered(q) ==
  /\ q.stage # "done" => q.reply = IF q.result = "ok" THEN <<"replayed">> ELSE <<>>
  /\ q.stage = "done" => \E a \in Answers : /\ q.reply = <<a>>
                                            /\ q.result = "error" => a = "unavailable"

\* Where the goroutine of a request can be in the bulkhead, stage by stage.
LocationsOf(stage) ==
  CASE stage = "acquiring" ->
         {"idle", "acquired", "full", "queued", "waiting", "running"}
    [] stage \in {"calling", "closing"} -> {"running"}
    [] stage = "releasing" ->
         {"running", "freed", "draining", "refill", "blocked", "refilled", "granting"}
    [] OTHER -> {"idle"}

Placed(r) == /\ pc[r] \in LocationsOf(req[r].stage)
             /\ pc[r] # "idle" => at[r] = req[r].target

Requesting == \A r \in Requests : Sound(req[r]) /\ Answered(req[r])
Placing    == \A r \in Requests : Placed(r)

----------------------------------------------------------------------------
(* The parts they share.                                                   *)

\* A balancer belongs to the route of the request that created it, for good,
\* and every request that has a balancer has that of its route.
Sharing ==
  /\ \A p \in Routes : loadBalancers[p] # None => req[loadBalancers[p]].route = p
  /\ \A r \in Requests : req[r].lb # None => req[r].lb = loadBalancers[RouteOf(r)]

\* Only backends whose last answer was below 500 are reported on, as a success.
BreakersClosed == \A e \in Entries : breaker[e].state = Breakers!CLOSED

\* The types of the proxy's own variables.
OwnTypes ==
  /\ loadBalancers \in [Routes -> Requests \cup {None}]
  /\ counter \in [Requests -> 0..(CounterCycle - 1)]
  /\ connections \in [Requests -> [Backends -> Nat]]
  /\ req \in [Requests -> Request]
  /\ picks \in [Routes -> [Backends -> Nat]]
  /\ failures \in [Entries -> 0..FailureThreshold]

\* The connections counted on one balancer for one backend.
Connected(l, b) ==
  {r \in Requests : /\ req[r].stage \in {"calling", "closing"}
                    /\ Strategy[RouteOf(r)] = LeastConnections
                    /\ req[r].lb = l /\ req[r].target = b}

\* m full rounds, and the turns of the round that has begun: the counter starts
\* at 0 and is increased first, so that a round starts with the second backend.
Turns(p, m) ==
  \A i \in 1..Len(BackendsOf[p]) :
    picks[p][BackendsOf[p][i]] =
      m + (IF 2 <= i /\ i <= (counter[loadBalancers[p]] % Len(BackendsOf[p])) + 1
           THEN 1 ELSE 0)

TakingTurns ==
  \A p \in Routes :
    /\ loadBalancers[p] = None => \A b \in Backends : picks[p][b] = 0
    /\ loadBalancers[p] # None /\ Strategy[p] = RoundRobin /\ BackendsOf[p] # <<>>
         => \E m \in Nat : Turns(p, m)

NotYetCounting ==
  \A l \in Requests : (\A p \in Routes : loadBalancers[p] # l) => counter[l] = 0

----------------------------------------------------------------------------
\* The inductive invariant.
Inv == /\ OwnTypes
       /\ BP!CountsInv
       /\ BR!BreakerInv
       /\ Requesting
       /\ Placing
       /\ Sharing
       /\ BreakersClosed
       /\ ConnectionsBalanced
       /\ NotYetCounting
       /\ TakingTurns

----------------------------------------------------------------------------
(* The steps of one request.                                               *)

\* A step takes r from one stage to the next, soundly, and nobody else.
Moves(r, from, to) ==
  /\ req' \in [Requests -> Request]
  /\ \A s \in Requests : s # r => req'[s] = req[s]
  /\ req[r].stage = from /\ req'[r].stage = to
  /\ Sound(req'[r]) /\ Answered(req'[r])

Keeps(r) == /\ req'[r].route = req[r].route /\ req'[r].lb = req[r].lb
            /\ req'[r].target = req[r].target


(* Who is inside a bulkhead is at the stage that goes with it.             *)
LEMMA RefusedWhere ==
  ASSUME Placing, NEW r \in Requests, Refused(r)
  PROVE  req[r].stage = "acquiring"
BY DEF Placing, Placed, LocationsOf, Refused, Bulkheads!Reject, Bulkheads!GiveUp,
       Bulkheads!GiveUpGranted

LEMMA ReleasedWhere ==
  ASSUME Placing, NEW r \in Requests, Released(r)
  PROVE  req[r].stage = "releasing"
BY DEF Placing, Placed, LocationsOf, Released, Bulkheads!FindQueueEmpty,
       Bulkheads!SendGrant, Bulkheads!GrantNobody

LEMMA NoOutcome == None # "ok" /\ None # "error" /\ None # "panic"
BY ProxyAssumption DEF Outcomes

\* The sequences of answers that occur.
LEMMA OneAnswer ==
  /\ <<>> \in Seq(Answers) /\ <<>> \o <<>> = <<>>
  /\ \A a \in Answers : <<a>> \in Seq(Answers)
  /\ {"not_found", "panicked", "replayed", "unavailable"} = Answers
  /\ \A a : Append(<<>>, a) = <<a>> /\ <<>> \o <<a>> = <<a>>
<1>1. ASSUME NEW a
      PROVE  Append(<<>>, a) = <<a>> /\ <<>> \o <<a>> = <<a>>
  OBVIOUS
<1>2. ASSUME NEW a \in Answers
      PROVE  <<a>> \in Seq(Answers)
  OBVIOUS
<1>3. <<>> \in Seq(Answers) /\ <<>> \o <<>> = <<>>
  OBVIOUS
<1> QED
  BY <1>1, <1>2, <1>3 DEF Answers

(* The scan of the breakers begins.                                        *)
LEMMA NoBackendScanned ==
  ASSUME NEW q, q.route \in Routes, q.scanned = 0, q.healthy = <<>>
  PROVE  Scanning(q)
<1>1. BackendsOf[q.route] \in Seq(Backends)
  BY ProxyAssumption
<1>2. Len(BackendsOf[q.route]) \in Nat
  BY <1>1
<1> QED
  BY <1>2 DEF Scanning

(* 404.                                                                    *)
LEMMA RouteNotFoundMoves ==
  ASSUME OwnTypes, Requesting, NEW r \in Requests, NEW path \in Paths, RouteNotFound(r, path)
  PROVE  Moves(r, "new", "done") /\ Keeps(r)
<1> DEFINE q == req[r]
           p == [q EXCEPT !.stage = "done", !.path = path, !.reply = <<"not_found">>]
<1>1. q \in Request /\ req \in [Requests -> Request] /\ Sound(q) /\ Answered(q)
  BY DEF OwnTypes, Requesting
<1>2. q.stage = "new"
  BY DEF RouteNotFound, At
<1>e. q.reply = <<>>
  BY <1>1, <1>2, NoOutcome DEF Answered, Sound, Early
<1>3. req' = [req EXCEPT ![r] = p]
  BY <1>1, <1>e, OneAnswer DEF RouteNotFound
<1>4. p \in Request
  BY <1>1, OneAnswer DEF Request, Stages
<1>5. /\ p.stage = "done" /\ p.route = q.route /\ p.lb = q.lb
      /\ p.scanned = q.scanned /\ p.healthy = q.healthy /\ p.target = q.target
      /\ p.result = q.result /\ p.finalStatus = q.finalStatus
      /\ p.reply = <<"not_found">>
  BY <1>1 DEF Request
<1> HIDE DEF p
<1>6. Sound(p)
  BY <1>1, <1>2, <1>5, NoOutcome DEF Sound, Early, Attempted
<1>7. Answered(p)
  BY <1>1, <1>2, <1>5, NoOutcome, OneAnswer DEF Answered, Sound, Early
<1> QED
  BY <1>1, <1>2, <1>3, <1>4, <1>5, <1>6, <1>7 DEF Moves, Keeps

(* A route is found.                                                       *)
LEMMA FindRouteMoves ==
  ASSUME OwnTypes, Requesting, NEW r \in Requests, NEW path \in Paths, FindRoute(r, path)
  PROVE  Moves(r, "new", "matched")
         /\ req'[r].lb = req[r].lb
         /\ req'[r].target = req[r].target
<1> DEFINE q == req[r]
           p == [q EXCEPT !.stage = "matched", !.path = path, !.route = MatchRoute(path)]
<1>1. q \in Request /\ req \in [Requests -> Request] /\ Sound(q) /\ Answered(q)
  BY DEF OwnTypes, Requesting
<1>2. q.stage = "new"
  BY DEF FindRoute, At
<1>r. MatchRoute(path) \in Routes
  BY MatchRouteType DEF FindRoute
<1>3. req' = [req EXCEPT ![r] = p]
  BY <1>1 DEF FindRoute
<1>4. p \in Request
  BY <1>1, <1>r DEF Request, Stages
<1>5. /\ p.stage = "matched" /\ p.route = MatchRoute(path) /\ p.lb = q.lb
      /\ p.scanned = q.scanned /\ p.healthy = q.healthy /\ p.target = q.target
      /\ p.result = q.result /\ p.finalStatus = q.finalStatus /\ p.reply = q.reply
  BY <1>1 DEF Request
<1> HIDE DEF p
<1>6. Sound(p)
  BY <1>1, <1>2, <1>5, <1>r, NoOutcome DEF Sound, Early, Attempted
<1>7. Answered(p)
  BY <1>1, <1>2, <1>5, NoOutcome DEF Answered, Sound, Early
<1> QED
  BY <1>1, <1>2, <1>3, <1>4, <1>5, <1>6, <1>7 DEF Moves

(* A route without backends.                                               *)
LEMMA TargetPanicsMoves ==
  ASSUME OwnTypes, Requesting, NEW r \in Requests, TargetPanics(r)
  PROVE  Moves(r, "selecting", "done") /\ Keeps(r)
<1> DEFINE q == req[r]
           p == [q EXCEPT !.stage = "done", !.reply = <<"panicked">>]
<1>1. q \in Request /\ req \in [Requests -> Request] /\ Sound(q) /\ Answered(q)
  BY DEF OwnTypes, Requesting
<1>2. q.stage = "selecting"
  BY DEF TargetPanics, Finish, At
<1>e. q.reply = <<>>
  BY <1>1, <1>2, NoOutcome DEF Answered, Sound, Early
<1>3. req' = [req EXCEPT ![r] = p]
  BY <1>1, <1>e, OneAnswer DEF TargetPanics, Finish
<1>4. p \in Request
  BY <1>1, OneAnswer DEF Request, Stages
<1>5. /\ p.stage = "done" /\ p.route = q.route /\ p.lb = q.lb
      /\ p.scanned = q.scanned /\ p.healthy = q.healthy /\ p.target = q.target
      /\ p.result = q.result /\ p.finalStatus = q.finalStatus
      /\ p.reply = <<"panicked">>
  BY <1>1 DEF Request
<1> HIDE DEF p
<1>6. Sound(p)
  BY <1>1, <1>2, <1>5, NoOutcome DEF Sound, Early, Attempted
<1>7. Answered(p)
  BY <1>1, <1>2, <1>5, NoOutcome, OneAnswer DEF Answered, Sound, Early
<1> QED
  BY <1>1, <1>2, <1>3, <1>4, <1>5, <1>6, <1>7 DEF Moves, Keeps

(* The bulkhead refuses the request.                                       *)
LEMMA RejectMoves ==
  ASSUME OwnTypes, Requesting, NEW r \in Requests, Placing, BulkheadRejects(r)
  PROVE  Moves(r, "acquiring", "deciding") /\ Keeps(r)
<1> DEFINE q == req[r]
           p == [q EXCEPT !.stage = "deciding", !.result = "error"]
<1>1. q \in Request /\ req \in [Requests -> Request] /\ Sound(q) /\ Answered(q)
  BY DEF OwnTypes, Requesting
<1>2. q.stage = "acquiring"
  BY RefusedWhere DEF BulkheadRejects
<1>3. req' = [req EXCEPT ![r] = p]
  BY <1>1 DEF BulkheadRejects
<1>4. p \in Request
  BY <1>1 DEF Request, Stages, Outcomes
<1>5. /\ p.stage = "deciding" /\ p.route = q.route /\ p.lb = q.lb
      /\ p.scanned = q.scanned /\ p.healthy = q.healthy /\ p.target = q.target
      /\ p.result = "error" /\ p.finalStatus = q.finalStatus /\ p.reply = q.reply
  BY <1>1 DEF Request
<1> HIDE DEF p
<1>6. Sound(p)
  BY <1>1, <1>2, <1>5, NoOutcome DEF Sound, Early, Attempted
<1>7. Answered(p)
  BY <1>1, <1>2, <1>5, NoOutcome DEF Answered, Sound, Early
<1> QED
  BY <1>1, <1>2, <1>3, <1>4, <1>5, <1>6, <1>7 DEF Moves, Keeps

(* Admitted.                                                               *)
LEMMA ConnectMoves ==
  ASSUME OwnTypes, Requesting, NEW r \in Requests, Connect(r)
  PROVE  Moves(r, "acquiring", "calling") /\ Keeps(r)
<1> DEFINE q == req[r]
           p == [q EXCEPT !.stage = "calling"]
<1>1. q \in Request /\ req \in [Requests -> Request] /\ Sound(q) /\ Answered(q)
  BY DEF OwnTypes, Requesting
<1>2. q.stage = "acquiring"
  BY DEF Connect, Enter, At
<1>3. req' = [req EXCEPT ![r] = p]
  BY <1>1 DEF Connect, Enter
<1>4. p \in Request
  BY <1>1 DEF Request, Stages
<1>5. /\ p.stage = "calling" /\ p.route = q.route /\ p.lb = q.lb
      /\ p.scanned = q.scanned /\ p.healthy = q.healthy /\ p.target = q.target
      /\ p.result = q.result /\ p.finalStatus = q.finalStatus /\ p.reply = q.reply
  BY <1>1 DEF Request
<1> HIDE DEF p
<1>6. Sound(p)
  BY <1>1, <1>2, <1>5, NoOutcome DEF Sound, Early, Attempted
<1>7. Answered(p)
  BY <1>1, <1>2, <1>5, NoOutcome DEF Answered, Sound, Early
<1> QED
  BY <1>1, <1>2, <1>3, <1>4, <1>5, <1>6, <1>7 DEF Moves, Keeps

(* An answer below 500.                                                    *)
LEMMA CallSucceedsMoves ==
  ASSUME OwnTypes, Requesting, NEW r \in Requests, CallSucceeds(r)
  PROVE  Moves(r, "calling", "closing") /\ Keeps(r)
<1> DEFINE q == req[r]
           p == [q EXCEPT !.stage = "closing", !.result = "ok", !.finalStatus = "ok", !.reply = <<"replayed">>]
<1>1. q \in Request /\ req \in [Requests -> Request] /\ Sound(q) /\ Answered(q)
  BY DEF OwnTypes, Requesting
<1>2. q.stage = "calling"
  BY DEF CallSucceeds, CallReturns, At
<1>e. q.reply = <<>>
  BY <1>1, <1>2, NoOutcome DEF Answered, Sound, Early
<1>3. req' = [req EXCEPT ![r] = p]
  BY <1>1, <1>e, OneAnswer DEF CallSucceeds, CallReturns
<1>4. p \in Request
  BY <1>1, OneAnswer DEF Request, Stages, Outcomes
<1>5. /\ p.stage = "closing" /\ p.route = q.route /\ p.lb = q.lb
      /\ p.scanned = q.scanned /\ p.healthy = q.healthy /\ p.target = q.target
      /\ p.result = "ok" /\ p.finalStatus = "ok" /\ p.reply = <<"replayed">>
  BY <1>1 DEF Request
<1> HIDE DEF p
<1>6. Sound(p)
  BY <1>1, <1>2, <1>5, NoOutcome DEF Sound, Early, Attempted
<1>7. Answered(p)
  BY <1>1, <1>2, <1>5, NoOutcome, OneAnswer DEF Answered, Sound, Early
<1> QED
  BY <1>1, <1>2, <1>3, <1>4, <1>5, <1>6, <1>7 DEF Moves, Keeps

(* No answer, or one of at least 500.                                      *)
LEMMA CallFailsMoves ==
  ASSUME OwnTypes, Requesting, NEW r \in Requests, CallFails(r)
  PROVE  Moves(r, "calling", "closing") /\ Keeps(r)
<1> DEFINE q == req[r]
           p == [q EXCEPT !.stage = "closing", !.result = "error", !.finalStatus = "error", !.reply = <<>>]
<1>1. q \in Request /\ req \in [Requests -> Request] /\ Sound(q) /\ Answered(q)
  BY DEF OwnTypes, Requesting
<1>2. q.stage = "calling"
  BY DEF CallFails, CallReturns, At
<1>e. q.reply = <<>>
  BY <1>1, <1>2, NoOutcome DEF Answered, Sound, Early
<1>3. req' = [req EXCEPT ![r] = p]
  BY <1>1, <1>e, OneAnswer DEF CallFails, CallReturns
<1>4. p \in Request
  BY <1>1, OneAnswer DEF Request, Stages, Outcomes
<1>5. /\ p.stage = "closing" /\ p.route = q.route /\ p.lb = q.lb
      /\ p.scanned = q.scanned /\ p.healthy = q.healthy /\ p.target = q.target
      /\ p.result = "error" /\ p.finalStatus = "error" /\ p.reply = <<>>
  BY <1>1 DEF Request
<1> HIDE DEF p
<1>6. Sound(p)
  BY <1>1, <1>2, <1>5, NoOutcome DEF Sound, Early, Attempted
<1>7. Answered(p)
  BY <1>1, <1>2, <1>5, NoOutcome, OneAnswer DEF Answered, Sound, Early
<1> QED
  BY <1>1, <1>2, <1>3, <1>4, <1>5, <1>6, <1>7 DEF Moves, Keeps

(* The body breaks off.                                                    *)
LEMMA CallPanicsMoves ==
  ASSUME OwnTypes, Requesting, NEW r \in Requests, CallPanics(r)
  PROVE  Moves(r, "calling", "closing") /\ Keeps(r)
<1> DEFINE q == req[r]
           p == [q EXCEPT !.stage = "closing", !.result = "panic"]
<1>1. q \in Request /\ req \in [Requests -> Request] /\ Sound(q) /\ Answered(q)
  BY DEF OwnTypes, Requesting
<1>2. q.stage = "calling"
  BY DEF CallPanics, At
<1>3. req' = [req EXCEPT ![r] = p]
  BY <1>1 DEF CallPanics
<1>4. p \in Request
  BY <1>1 DEF Request, Stages, Outcomes
<1>5. /\ p.stage = "closing" /\ p.route = q.route /\ p.lb = q.lb
      /\ p.scanned = q.scanned /\ p.healthy = q.healthy /\ p.target = q.target
      /\ p.result = "panic" /\ p.finalStatus = q.finalStatus /\ p.reply = q.reply
  BY <1>1 DEF Request
<1> HIDE DEF p
<1>6. Sound(p)
  BY <1>1, <1>2, <1>5, NoOutcome DEF Sound, Early, Attempted
<1>7. Answered(p)
  BY <1>1, <1>2, <1>5, NoOutcome DEF Answered, Sound, Early
<1> QED
  BY <1>1, <1>2, <1>3, <1>4, <1>5, <1>6, <1>7 DEF Moves, Keeps

(* The deferred DecrementConnections.                                      *)
LEMMA DisconnectMoves ==
  ASSUME OwnTypes, Requesting, NEW r \in Requests, Disconnect(r)
  PROVE  Moves(r, "closing", "releasing") /\ Keeps(r)
<1> DEFINE q == req[r]
           p == [q EXCEPT !.stage = "releasing"]
<1>1. q \in Request /\ req \in [Requests -> Request] /\ Sound(q) /\ Answered(q)
  BY DEF OwnTypes, Requesting
<1>2. q.stage = "closing"
  BY DEF Disconnect, DisconnectAbove, Enter, At
<1>3. req' = [req EXCEPT ![r] = p]
  BY <1>1 DEF Disconnect, DisconnectAbove, Enter
<1>4. p \in Request
  BY <1>1 DEF Request, Stages
<1>5. /\ p.stage = "releasing" /\ p.route = q.route /\ p.lb = q.lb
      /\ p.scanned = q.scanned /\ p.healthy = q.healthy /\ p.target = q.target
      /\ p.result = q.result /\ p.finalStatus = q.finalStatus /\ p.reply = q.reply
  BY <1>1 DEF Request
<1> HIDE DEF p
<1>6. Sound(p)
  BY <1>1, <1>2, <1>5, NoOutcome DEF Sound, Early, Attempted
<1>7. Answered(p)
  BY <1>1, <1>2, <1>5, NoOutcome DEF Answered, Sound, Early
<1> QED
  BY <1>1, <1>2, <1>3, <1>4, <1>5, <1>6, <1>7 DEF Moves, Keeps

(* Release returns, and the attempt is over.                               *)
LEMMA ReturnMoves ==
  ASSUME OwnTypes, Requesting, NEW r \in Requests, Placing, req[r].result # "panic", Released(r)
  PROVE  Moves(r, "releasing", "deciding") /\ Keeps(r)
<1> DEFINE q == req[r]
           p == [q EXCEPT !.stage = "deciding"]
<1>1. q \in Request /\ req \in [Requests -> Request] /\ Sound(q) /\ Answered(q)
  BY DEF OwnTypes, Requesting
<1>2. q.stage = "releasing"
  BY ReleasedWhere
<1>r. q.result \in {"ok", "error"}
  BY <1>1, <1>2 DEF Sound, Request, Outcomes
<1>3. req' = [req EXCEPT ![r] = p]
  BY <1>1 DEF Released, Enter
<1>4. p \in Request
  BY <1>1 DEF Request, Stages
<1>5. /\ p.stage = "deciding" /\ p.route = q.route /\ p.lb = q.lb
      /\ p.scanned = q.scanned /\ p.healthy = q.healthy /\ p.target = q.target
      /\ p.result = q.result /\ p.finalStatus = q.finalStatus /\ p.reply = q.reply
  BY <1>1 DEF Request
<1> HIDE DEF p
<1>6. Sound(p)
  BY <1>1, <1>2, <1>5, <1>r, NoOutcome DEF Sound, Early, Attempted
<1>7. Answered(p)
  BY <1>1, <1>2, <1>5, NoOutcome DEF Answered, Sound, Early
<1> QED
  BY <1>1, <1>2, <1>3, <1>4, <1>5, <1>6, <1>7 DEF Moves, Keeps

(* Release returns into a panic.                                           *)
LEMMA AbortMoves ==
  ASSUME OwnTypes, Requesting, NEW r \in Requests, Placing, req[r].result = "panic", Released(r)
  PROVE  Moves(r, "releasing", "done") /\ Keeps(r)
<1> DEFINE q == req[r]
           p == [q EXCEPT !.stage = "done", !.reply = <<"panicked">>]
<1>1. q \in Request /\ req \in [Requests -> Request] /\ Sound(q) /\ Answered(q)
  BY DEF OwnTypes, Requesting
<1>2. q.stage = "releasing"
  BY ReleasedWhere
<1>e. q.reply = <<>>
  BY <1>1, <1>2, NoOutcome DEF Answered, Sound, Early
<1>3. req' = [req EXCEPT ![r] = p]
  BY <1>1, <1>e, OneAnswer DEF Released, Finish
<1>4. p \in Request
  BY <1>1, OneAnswer DEF Request, Stages
<1>5. /\ p.stage = "done" /\ p.route = q.route /\ p.lb = q.lb
      /\ p.scanned = q.scanned /\ p.healthy = q.healthy /\ p.target = q.target
      /\ p.result = q.result /\ p.finalStatus = q.finalStatus
      /\ p.reply = <<"panicked">>
  BY <1>1 DEF Request
<1> HIDE DEF p
<1>6. Sound(p)
  BY <1>1, <1>2, <1>5, NoOutcome DEF Sound, Early, Attempted
<1>7. Answered(p)
  BY <1>1, <1>2, <1>5, NoOutcome, OneAnswer DEF Answered, Sound, Early
<1> QED
  BY <1>1, <1>2, <1>3, <1>4, <1>5, <1>6, <1>7 DEF Moves, Keeps

(* The attempt was a success.                                              *)
LEMMA SucceedMoves ==
  ASSUME OwnTypes, Requesting, NEW r \in Requests, Succeed(r)
  PROVE  Moves(r, "deciding", "recording") /\ Keeps(r)
<1> DEFINE q == req[r]
           p == [q EXCEPT !.stage = "recording"]
<1>1. q \in Request /\ req \in [Requests -> Request] /\ Sound(q) /\ Answered(q)
  BY DEF OwnTypes, Requesting
<1>2. q.stage = "deciding"
  BY DEF Succeed, Enter, At
<1>r. q.result = "ok"
  BY DEF Succeed
<1>3. req' = [req EXCEPT ![r] = p]
  BY <1>1 DEF Succeed, Enter
<1>4. p \in Request
  BY <1>1 DEF Request, Stages
<1>5. /\ p.stage = "recording" /\ p.route = q.route /\ p.lb = q.lb
      /\ p.scanned = q.scanned /\ p.healthy = q.healthy /\ p.target = q.target
      /\ p.result = q.result /\ p.finalStatus = q.finalStatus /\ p.reply = q.reply
  BY <1>1 DEF Request
<1> HIDE DEF p
<1>6. Sound(p)
  BY <1>1, <1>2, <1>5, <1>r, NoOutcome DEF Sound, Early, Attempted
<1>7. Answered(p)
  BY <1>1, <1>2, <1>5, NoOutcome DEF Answered, Sound, Early
<1> QED
  BY <1>1, <1>2, <1>3, <1>4, <1>5, <1>6, <1>7 DEF Moves, Keeps

(* Another attempt.                                                        *)
LEMMA RetryMoves ==
  ASSUME OwnTypes, Requesting, NEW r \in Requests, Retry(r)
  PROVE  Moves(r, "deciding", "selecting")
         /\ req'[r].route = req[r].route
         /\ req'[r].lb = req[r].lb
<1> DEFINE q == req[r]
           p == [q EXCEPT !.stage = "selecting", !.attempt = @ + 1, !.target = None, !.result = None]
<1>1. q \in Request /\ req \in [Requests -> Request] /\ Sound(q) /\ Answered(q)
  BY DEF OwnTypes, Requesting
<1>2. q.stage = "deciding"
  BY DEF Retry, RetryBefore, At
<1>r. q.result = "error" /\ q.attempt < MaxAttempts
  BY DEF Retry, RetryBefore
<1>a. q.attempt + 1 \in 1..MaxAttempts
  BY <1>1, <1>r, ProxyAssumption DEF Request
<1>3. req' = [req EXCEPT ![r] = p]
  BY <1>1 DEF Retry, RetryBefore
<1>4. p \in Request
  BY <1>1, <1>a DEF Request, Stages, Outcomes
<1>5. /\ p.stage = "selecting" /\ p.route = q.route /\ p.lb = q.lb
      /\ p.scanned = q.scanned /\ p.healthy = q.healthy /\ p.target = None
      /\ p.result = None /\ p.finalStatus = q.finalStatus /\ p.reply = q.reply
  BY <1>1 DEF Request
<1> HIDE DEF p
<1>6. Sound(p)
  BY <1>1, <1>2, <1>5, <1>r, NoBackendScanned, ProxyAssumption, NoOutcome DEF Sound, Early, Attempted
<1>7. Answered(p)
  BY <1>1, <1>2, <1>5, <1>r, ProxyAssumption, NoOutcome DEF Answered, Sound, Early
<1> QED
  BY <1>1, <1>2, <1>3, <1>4, <1>5, <1>6, <1>7 DEF Moves

(* 503.                                                                    *)
LEMMA FailMoves ==
  ASSUME OwnTypes, Requesting, NEW r \in Requests, Fail(r)
  PROVE  Moves(r, "deciding", "done") /\ Keeps(r)
<1> DEFINE q == req[r]
           p == [q EXCEPT !.stage = "done", !.reply = <<"unavailable">>]
<1>1. q \in Request /\ req \in [Requests -> Request] /\ Sound(q) /\ Answered(q)
  BY DEF OwnTypes, Requesting
<1>2. q.stage = "deciding"
  BY DEF Fail, Finish, At
<1>r. q.result = "error"
  BY DEF Fail
<1>e. q.reply = <<>>
  BY <1>1, <1>2, NoOutcome, <1>r DEF Answered, Sound, Early
<1>3. req' = [req EXCEPT ![r] = p]
  BY <1>1, <1>e, OneAnswer DEF Fail, Finish
<1>4. p \in Request
  BY <1>1, OneAnswer DEF Request, Stages
<1>5. /\ p.stage = "done" /\ p.route = q.route /\ p.lb = q.lb
      /\ p.scanned = q.scanned /\ p.healthy = q.healthy /\ p.target = q.target
      /\ p.result = q.result /\ p.finalStatus = q.finalStatus
      /\ p.reply = <<"unavailable">>
  BY <1>1 DEF Request
<1> HIDE DEF p
<1>6. Sound(p)
  BY <1>1, <1>2, <1>5, NoOutcome DEF Sound, Early, Attempted
<1>7. Answered(p)
  BY <1>1, <1>2, <1>5, <1>r, NoOutcome, OneAnswer DEF Answered, Sound, Early
<1> QED
  BY <1>1, <1>2, <1>3, <1>4, <1>5, <1>6, <1>7 DEF Moves, Keeps

(* The breaker has been told.                                              *)
LEMMA RecordMoves ==
  ASSUME OwnTypes, Requesting, NEW r \in Requests, Record(r)
  PROVE  Moves(r, "recording", "done") /\ Keeps(r)
<1> DEFINE q == req[r]
           p == [q EXCEPT !.stage = "done"]
<1>1. q \in Request /\ req \in [Requests -> Request] /\ Sound(q) /\ Answered(q)
  BY DEF OwnTypes, Requesting
<1>2. q.stage = "recording"
  BY DEF Record, Enter, At
<1>r. q.result = "ok" /\ q.reply = <<"replayed">> /\ "replayed" \in Answers
  BY <1>1, <1>2 DEF Sound, Answered, Answers
<1>3. req' = [req EXCEPT ![r] = p]
  BY <1>1 DEF Record, Enter
<1>4. p \in Request
  BY <1>1 DEF Request, Stages
<1>5. /\ p.stage = "done" /\ p.route = q.route /\ p.lb = q.lb
      /\ p.scanned = q.scanned /\ p.healthy = q.healthy /\ p.target = q.target
      /\ p.result = q.result /\ p.finalStatus = q.finalStatus /\ p.reply = q.reply
  BY <1>1 DEF Request
<1> HIDE DEF p
<1>6. Sound(p)
  BY <1>1, <1>2, <1>5, NoOutcome DEF Sound, Early, Attempted
<1>7. Answered(p)
  BY <1>1, <1>2, <1>5, <1>r, NoOutcome DEF Answered, Sound, Early
<1> QED
  BY <1>1, <1>2, <1>3, <1>4, <1>5, <1>6, <1>7 DEF Moves, Keeps

(* The look at the cached balancers.                                       *)
LEMMA LookUpMoves ==
  ASSUME OwnTypes, Requesting, NEW r \in Requests, LookUpBalancer(r)
  PROVE  /\ \/ loadBalancers[RouteOf(r)] = None /\ Moves(r, "matched", "creating")
            \/ loadBalancers[RouteOf(r)] # None /\ Moves(r, "matched", "selecting")
         /\ req'[r].lb = loadBalancers[RouteOf(r)]
         /\ req'[r].route = req[r].route /\ req'[r].target = req[r].target
<1> DEFINE q == req[r]
           cached == loadBalancers[q.route]
           p == [q EXCEPT !.lb = cached,
                          !.stage = IF cached = None THEN "creating" ELSE "selecting"]
<1>1. q \in Request /\ req \in [Requests -> Request] /\ Sound(q) /\ Answered(q)
  BY DEF OwnTypes, Requesting
<1>2. q.stage = "matched"
  BY DEF LookUpBalancer, At
<1>r. cached \in Requests \cup {None}
  BY <1>1, <1>2 DEF OwnTypes, Sound
<1>3. req' = [req EXCEPT ![r] = p]
  BY <1>1 DEF LookUpBalancer, RouteOf
<1> HIDE DEF cached
<1>4. p \in Request
  BY <1>1, <1>r DEF Request, Stages
<1>5. /\ p.stage = (IF cached = None THEN "creating" ELSE "selecting")
      /\ p.route = q.route /\ p.lb = cached /\ p.scanned = q.scanned
      /\ p.healthy = q.healthy /\ p.target = q.target
      /\ p.result = q.result /\ p.finalStatus = q.finalStatus /\ p.reply = q.reply
  BY <1>1 DEF Request
<1> HIDE DEF p
<1>6. Sound(p)
  <2>1. p.route \in Routes /\ p.scanned = 0 /\ p.healthy = <<>>
    BY <1>1, <1>2, <1>5 DEF Sound
  <2>2. Scanning(p)
    BY <2>1, NoBackendScanned
  <2> QED
    BY <1>1, <1>2, <1>5, <2>2, NoOutcome DEF Sound, Early, Attempted
<1>7. Answered(p)
  BY <1>1, <1>2, <1>5, NoOutcome DEF Answered, Sound, Early
<1>8. cached = loadBalancers[RouteOf(r)]
  BY DEF cached, RouteOf
<1> QED
  BY <1>1, <1>2, <1>3, <1>4, <1>5, <1>6, <1>7, <1>8 DEF Moves

(* The balancer a request goes on with.                                    *)
LEMMA InstallMoves ==
  ASSUME OwnTypes, Requesting, NEW r \in Requests, NEW l \in Requests, Install(r, l)
  PROVE  /\ Moves(r, "creating", "selecting") /\ req'[r].lb = l
         /\ req'[r].route = req[r].route /\ req'[r].target = req[r].target
<1> DEFINE q == req[r]
           p == [q EXCEPT !.lb = l, !.stage = "selecting"]
<1>1. q \in Request /\ req \in [Requests -> Request] /\ Sound(q) /\ Answered(q)
  BY DEF OwnTypes, Requesting
<1>2. q.stage = "creating"
  BY DEF Install, At
<1>3. req' = [req EXCEPT ![r] = p]
  BY <1>1 DEF Install
<1>4. p \in Request
  BY <1>1 DEF Request, Stages
<1>5. /\ p.stage = "selecting" /\ p.route = q.route /\ p.lb = l
      /\ p.scanned = q.scanned /\ p.healthy = q.healthy /\ p.target = q.target
      /\ p.result = q.result /\ p.finalStatus = q.finalStatus /\ p.reply = q.reply
  BY <1>1 DEF Request
<1> HIDE DEF p
<1>6. Sound(p)
  <2>1. p.route \in Routes /\ p.scanned = 0 /\ p.healthy = <<>> /\ p.lb # None
    BY <1>1, <1>2, <1>5, ProxyAssumption DEF Sound
  <2>2. Scanning(p)
    BY <2>1, NoBackendScanned
  <2> QED
    BY <1>1, <1>2, <1>5, <2>1, <2>2, NoOutcome DEF Sound, Early, Attempted
<1>7. Answered(p)
  BY <1>1, <1>2, <1>5, NoOutcome DEF Answered, Sound, Early
<1> QED
  BY <1>1, <1>2, <1>3, <1>4, <1>5, <1>6, <1>7 DEF Moves

(* A turn of getHealthyBackends: a closed breaker admits.                  *)
LEMMA ScanMoves ==
  ASSUME OwnTypes, Requesting, BreakersClosed, NEW r \in Requests, Scan(r)
  PROVE  Moves(r, "selecting", "selecting") /\ Keeps(r)
<1> DEFINE q == req[r]
           n == q.scanned + 1
           bs == BackendsOf[q.route]
           p == [q EXCEPT !.scanned = n, !.healthy = Append(q.healthy, bs[n])]
<1>1. q \in Request /\ req \in [Requests -> Request] /\ Sound(q) /\ Answered(q)
  BY DEF OwnTypes, Requesting
<1>2. q.stage = "selecting" /\ q.scanned < Len(bs)
  BY DEF Scan, At, RouteOf
<1>3. /\ q.route \in Routes /\ Scanning(q) /\ q.scanned \in Nat
      /\ q.healthy \in Seq(Backends)
  BY <1>1, <1>2 DEF Sound, Request
<1>4. Len(bs) \in Nat /\ n \in 1..Len(bs)
  <2>1. bs \in Seq(Backends)
    BY <1>3, ProxyAssumption
  <2> QED
    BY <1>2, <1>3, <2>1
<1>5. bs[n] \in Backends /\ <<q.route, bs[n]>> \in Entries
  BY <1>3, <1>4, EntryHere
<1>6. Breakers!Admits(breaker[<<q.route, bs[n]>>])
  BY <1>5 DEF BreakersClosed, Breakers!Admits
<1>7. req' = [req EXCEPT ![r] = p]
  BY <1>1, <1>6 DEF Scan, RouteOf
<1> HIDE DEF bs
<1>8. Append(q.healthy, bs[n]) \in Seq(Backends) /\ n \in Nat
  BY <1>3, <1>5
<1>9. p \in Request
  BY <1>1, <1>8 DEF Request
<1>10. /\ p.stage = q.stage /\ p.route = q.route /\ p.lb = q.lb /\ p.scanned = n
       /\ p.healthy = Append(q.healthy, bs[n]) /\ p.target = q.target
       /\ p.result = q.result /\ p.finalStatus = q.finalStatus /\ p.reply = q.reply
  BY <1>1 DEF Request
<1> HIDE DEF p
<1>11. Scanning(p)
  <2>1. /\ Len(q.healthy) = q.scanned
        /\ \A i \in 1..q.scanned : q.healthy[i] = bs[i]
    BY <1>3 DEF Scanning, bs
  <2>2. /\ Len(p.healthy) = n /\ p.healthy[n] = bs[n]
        /\ \A i \in 1..q.scanned : p.healthy[i] = q.healthy[i]
    BY <1>3, <1>5, <1>10, <2>1
  <2>3. \A i \in 1..n : i = n \/ i \in 1..q.scanned
    BY <1>3
  <2> QED
    BY <1>4, <1>10, <2>1, <2>2, <2>3 DEF Scanning, bs
<1>12. Sound(p)
  BY <1>1, <1>2, <1>10, <1>11, NoOutcome DEF Sound, Early, Attempted
<1>13. Answered(p)
  BY <1>1, <1>2, <1>10 DEF Answered
<1> QED
  BY <1>1, <1>2, <1>7, <1>9, <1>10, <1>12, <1>13 DEF Moves, Keeps

\* b is one of the elements of a sequence.
Among(b, candidates) == \E i \in 1..Len(candidates) : b = candidates[i]

(* A strategy picks one of its candidates.                                 *)
LEMMA ChoiceAmong ==
  ASSUME OwnTypes, NEW l \in Requests, NEW p \in Routes,
         NEW candidates \in Seq(Backends), candidates # <<>>,
         NEW b \in Choices(l, p, candidates)
  PROVE  Among(b, candidates)
<1> DEFINE n == Len(candidates)
<1>0. n \in Nat \ {0}
  OBVIOUS
<1> HIDE DEF n
<1>1. CASE Strategy[p] = RoundRobin
  <2>1. counter[l] + 1 \in Nat
    BY ProxyAssumption DEF OwnTypes
  <2>2. (counter[l] + 1) % n \in 0..(n - 1)
    BY <1>0, <2>1, ModRange
  <2>3. ((counter[l] + 1) % n) + 1 \in 1..n
    BY <1>0, <2>2
  <2> QED
    BY <1>1, <2>3 DEF Choices, Among, n
<1>2. CASE Strategy[p] = Random
  BY <1>2 DEF Choices, Among, Random, RoundRobin
<1>3. CASE Strategy[p] = LeastConnections
  BY <1>3 DEF Choices, Among, Random, RoundRobin, LeastConnections
<1> QED
  BY <1>1, <1>2, <1>3, ProxyAssumption

(* SelectBackend picks one of all the backends of the route: no breaker is *)
(* ever open, so that none is passed over and there is always one.         *)
LEMMA SelectMoves ==
  ASSUME OwnTypes, Requesting, NEW r \in Requests, Select(r)
  PROVE  /\ Moves(r, "selecting", "acquiring")
         /\ req'[r].route = req[r].route /\ req'[r].lb = req[r].lb
         /\ Len(req[r].healthy) = Len(BackendsOf[RouteOf(r)])
         /\ \A i \in 1..Len(BackendsOf[RouteOf(r)]) :
              req[r].healthy[i] = BackendsOf[RouteOf(r)][i]
         /\ req[r].lb \in Requests /\ RouteOf(r) \in Routes
         /\ Len(BackendsOf[RouteOf(r)]) \in Nat \ {0}
         /\ \E b \in Choices(req[r].lb, RouteOf(r), req[r].healthy) :
              /\ req'[r].target = b
              /\ IF Strategy[RouteOf(r)] = RoundRobin
                 THEN /\ counter' = [counter EXCEPT ![req[r].lb] = (@ + 1) % CounterCycle]
                      /\ picks' = [picks EXCEPT ![RouteOf(r)][b] = @ + 1]
                 ELSE UNCHANGED <<counter, picks>>
<1> DEFINE q == req[r]
           bs == BackendsOf[q.route]
<1>1. q \in Request /\ req \in [Requests -> Request] /\ Sound(q) /\ Answered(q)
  BY DEF OwnTypes, Requesting
<1>2. q.stage = "selecting" /\ q.scanned = Len(bs) /\ bs # <<>>
  BY DEF Select, At, RouteOf
<1>3. /\ q.route \in Routes /\ Scanning(q) /\ q.lb \in Requests
      /\ q.healthy \in Seq(Backends)
  BY <1>1, <1>2 DEF Sound, Request
<1>4. bs \in Seq(Backends) /\ Len(bs) \in Nat \ {0}
  <2>1. bs \in Seq(Backends)
    BY <1>3, ProxyAssumption
  <2> QED
    BY <1>2, <2>1
<1>5. Len(q.healthy) = Len(bs) /\ \A i \in 1..Len(bs) : q.healthy[i] = bs[i]
  BY <1>2, <1>3 DEF Scanning
<1>6. q.healthy # <<>>
  BY <1>3, <1>4, <1>5
<1>7. PICK b \in Choices(q.lb, q.route, q.healthy) :
        /\ req' = [req EXCEPT ![r].stage = "acquiring", ![r].scanned = 0,
                              ![r].healthy = <<>>, ![r].target = b]
        /\ IF Strategy[q.route] = RoundRobin
           THEN /\ counter' = [counter EXCEPT ![q.lb] = (@ + 1) % CounterCycle]
                /\ picks' = [picks EXCEPT ![q.route][b] = @ + 1]
           ELSE UNCHANGED <<counter, picks>>
  BY <1>6 DEF Select, RouteOf
<1>8. PICK i \in 1..Len(bs) : b = bs[i]
  <2>1. Among(b, q.healthy)
    BY <1>3, <1>6, <1>7, ChoiceAmong
  <2> QED
    BY <1>5, <2>1 DEF Among
<1>9. b \in Backends /\ <<q.route, b>> \in Entries /\ b # None
  BY <1>3, <1>8, EntryHere, ProxyAssumption
<1> DEFINE p == [q EXCEPT !.stage = "acquiring", !.scanned = 0, !.healthy = <<>>,
                          !.target = b]
<1>10. req' = [req EXCEPT ![r] = p]
  BY <1>1, <1>7
<1>11. p \in Request
  <2>1. <<>> \in Seq(Backends)
    OBVIOUS
  <2> QED
    BY <1>1, <1>9, <2>1 DEF Request, Stages
<1>12. /\ p.stage = "acquiring" /\ p.route = q.route /\ p.lb = q.lb /\ p.scanned = 0
       /\ p.healthy = <<>> /\ p.target = b
       /\ p.result = q.result /\ p.finalStatus = q.finalStatus /\ p.reply = q.reply
  BY <1>1 DEF Request
<1> HIDE DEF p, bs
<1>13. Sound(p)
  BY <1>1, <1>2, <1>9, <1>12, NoOutcome DEF Sound, Early, Attempted
<1>14. Answered(p)
  BY <1>1, <1>2, <1>12, NoOutcome DEF Answered, Sound, Early
<1>15. Moves(r, "selecting", "acquiring") /\ req'[r] = p
  BY <1>1, <1>2, <1>10, <1>11, <1>12, <1>13, <1>14 DEF Moves
<1> QED
  BY <1>3, <1>4, <1>5, <1>7, <1>12, <1>15 DEF bs, RouteOf
----------------------------------------------------------------------------
(* The gateway uses the bulkheads as Bulkhead allows.                      *)

LEMMA AcquiringTarget ==
  ASSUME OwnTypes, Requesting, NEW r \in Requests, req[r].stage = "acquiring"
  PROVE  req[r].target \in Backends
BY EntryType DEF OwnTypes, Requesting, Sound, Attempted

LEMMA BulkheadStep ==
  ASSUME OwnTypes, Requesting, [Next]_vars
  PROVE  [BP!Next]_(BP!vars)
<1>1. ASSUME NEW r \in Requests, TryAcquire(r)
      PROVE  BP!Next
  <2> DEFINE b == req[r].target
  <2>1. b \in Backends
    BY <1>1, AcquiringTarget DEF TryAcquire, At
  <2>2. CASE Bulkheads!Acquire(r, b)
    <3>1. BP!Acquire(r, b)
      BY <2>2 DEF Bulkheads!Acquire, Bulkheads!Goto, BP!Acquire, BP!Goto
    <3> QED
      BY <2>1, <3>1 DEF BP!Next
  <2>3. CASE Bulkheads!FindFull(r, b)
    <3>1. BP!FindFull(r, b)
      BY <2>3 DEF Bulkheads!FindFull, Bulkheads!Goto, BP!FindFull, BP!Goto
    <3> QED
      BY <2>1, <3>1 DEF BP!Next
  <2>4. CASE Bulkheads!CountActive(r)
    BY <2>4 DEF Bulkheads!CountActive, Bulkheads!Goto, BP!CountActive, BP!Goto,
                BP!TryAcquireStep, BP!Next
  <2>5. CASE Bulkheads!Enqueue(r)
    BY <2>5 DEF Bulkheads!Enqueue, Bulkheads!Goto, BP!Enqueue, BP!Goto,
                BP!TryAcquireStep, BP!Next
  <2>6. CASE Bulkheads!CountQueued(r)
    BY <2>6 DEF Bulkheads!CountQueued, Bulkheads!Goto, BP!CountQueued, BP!Goto,
                BP!TryAcquireStep, BP!Next
  <2>7. CASE Bulkheads!ReceiveGrant(r)
    BY <2>7 DEF Bulkheads!ReceiveGrant, Bulkheads!Goto, BP!ReceiveGrant, BP!Goto,
                BP!TryAcquireStep, BP!Next
  <2> QED
    BY <1>1, <2>2, <2>3, <2>4, <2>5, <2>6, <2>7 DEF TryAcquire
<1>2. ASSUME NEW r \in Requests, BulkheadRejects(r)
      PROVE  BP!Next
  <2>1. CASE Bulkheads!Reject(r)
    BY <2>1 DEF Bulkheads!Reject, Bulkheads!Exit, Bulkheads!Goto, BP!Reject, BP!Exit,
                BP!Goto, BP!TryAcquireStep, BP!Next
  <2>2. CASE Bulkheads!GiveUp(r)
    BY <2>2 DEF Bulkheads!GiveUp, Bulkheads!Abandoned, Bulkheads!Exit, Bulkheads!Goto,
                BP!GiveUp, BP!Abandoned, BP!Exit, BP!Goto, BP!TryAcquireStep, BP!Next
  <2>3. CASE Bulkheads!GiveUpGranted(r)
    BY <2>3 DEF Bulkheads!GiveUpGranted, Bulkheads!Exit, Bulkheads!Goto,
                BP!GiveUpGranted, BP!Exit, BP!Goto, BP!TryAcquireStep, BP!Next
  <2> QED
    BY <1>2, <2>1, <2>2, <2>3 DEF BulkheadRejects, Refused
<1>3. ASSUME NEW r \in Requests, Release(r)
      PROVE  BP!Next
  <2>1. CASE Bulkheads!FreeSlot(r)
    BY <2>1 DEF Bulkheads!FreeSlot, Bulkheads!Goto, BP!FreeSlot, BP!Goto,
                BP!StartRelease, BP!Next
  <2>2. CASE Bulkheads!HandOver(r)
    BY <2>2 DEF Bulkheads!HandOver, BP!HandOver, BP!StartRelease, BP!Next
  <2>3. CASE Bulkheads!CountFreed(r)
    BY <2>3 DEF Bulkheads!CountFreed, Bulkheads!Goto, BP!CountFreed, BP!Goto,
                BP!ReleaseStep, BP!Next
  <2>4. CASE Bulkheads!PopQueue(r)
    BY <2>4 DEF Bulkheads!PopQueue, Bulkheads!Goto, BP!PopQueue, BP!Goto,
                BP!ReleaseStep, BP!Next
  <2>5. CASE Bulkheads!Refill(r)
    BY <2>5 DEF Bulkheads!Refill, Bulkheads!Goto, BP!Refill, BP!Goto,
                BP!ReleaseStep, BP!Next
  <2>6. CASE Bulkheads!Park(r)
    BY <2>6 DEF Bulkheads!Park, Bulkheads!Goto, BP!Park, BP!Goto,
                BP!ReleaseStep, BP!Next
  <2>7. CASE Bulkheads!CountGrant(r)
    BY <2>7 DEF Bulkheads!CountGrant, Bulkheads!Goto, BP!CountGrant, BP!Goto,
                BP!ReleaseStep, BP!Next
  <2> QED
    BY <1>3, <2>1, <2>2, <2>3, <2>4, <2>5, <2>6, <2>7 DEF Release
<1>4. ASSUME NEW r \in Requests, Released(r)
      PROVE  BP!Next
  <2>1. CASE Bulkheads!FindQueueEmpty(r)
    BY <2>1 DEF Bulkheads!FindQueueEmpty, Bulkheads!Exit, Bulkheads!Goto,
                BP!FindQueueEmpty, BP!Exit, BP!Goto, BP!ReleaseStep, BP!Next
  <2>2. CASE Bulkheads!SendGrant(r)
    BY <2>2 DEF Bulkheads!SendGrant, Bulkheads!Exit, Bulkheads!Goto,
                BP!SendGrant, BP!Exit, BP!Goto, BP!ReleaseStep, BP!Next
  <2>3. CASE Bulkheads!GrantNobody(r)
    BY <2>3 DEF Bulkheads!GrantNobody, Bulkheads!Exit, Bulkheads!Goto,
                BP!GrantNobody, BP!Exit, BP!Goto, BP!ReleaseStep, BP!Next
  <2> QED
    BY <1>4, <2>1, <2>2, <2>3 DEF Released
<1>5. ASSUME UNCHANGED bulkheadVars
      PROVE  UNCHANGED BP!vars
  BY <1>5 DEF bulkheadVars, BP!vars
<1>6. ASSUME NEW r \in Requests,
             \/ \E path \in Paths : RouteNotFound(r, path) \/ FindRoute(r, path)
             \/ LookUpBalancer(r) \/ CreateBalancer(r) \/ TargetPanics(r) \/ Scan(r)
             \/ Select(r) \/ Connect(r) \/ CallSucceeds(r) \/ CallFails(r)
             \/ CallPanics(r) \/ Disconnect(r) \/ Succeed(r) \/ Retry(r) \/ Fail(r)
             \/ Record(r)
      PROVE  UNCHANGED bulkheadVars
  BY <1>6 DEF RouteNotFound, FindRoute, LookUpBalancer, CreateBalancer, Install,
       TargetPanics, Scan, Select, Connect, CallSucceeds, CallFails, CallReturns,
       CallPanics, Disconnect, DisconnectAbove, Succeed, Retry, RetryBefore, Fail,
       Record, Locally
<1>7. Tick \/ UNCHANGED vars => UNCHANGED bulkheadVars
  BY DEF Tick, vars
<1> QED
  BY <1>1, <1>2, <1>3, <1>4, <1>5, <1>6, <1>7 DEF Next, Proceed
----------------------------------------------------------------------------
(* The gateway uses the breakers as CircuitBreaker allows, and only reports*)
(* successes: none ever leaves CLOSED.                                     *)

LEMMA ClosedBreaker ==
  ASSUME NEW cb \in BR!Breaker, cb.state = Breakers!CLOSED
  PROVE  /\ Breakers!AfterCanRequest(cb) = cb
         /\ Breakers!AfterSuccess(cb).state = Breakers!CLOSED
<1>1. Breakers!AfterCanRequest(cb) = cb
  BY DEF Breakers!AfterCanRequest, Breakers!CLOSED, Breakers!OPEN, Breakers!HALF_OPEN
<1>2. Breakers!AfterSuccess(cb) = [cb EXCEPT !.failureCount = 0]
  BY DEF Breakers!AfterSuccess, Breakers!CLOSED, Breakers!HALF_OPEN
<1> QED
  BY <1>1, <1>2 DEF BR!Breaker

LEMMA RecordedEntry ==
  ASSUME Requesting, NEW r \in Requests, Record(r)
  PROVE  EntryOf(r) \in Entries /\ req[r].finalStatus = "ok"
BY DEF Requesting, Sound, Record, At, EntryOf, RouteOf

LEMMA ScannedEntry ==
  ASSUME OwnTypes, Requesting, NEW r \in Requests, Scan(r)
  PROVE  <<RouteOf(r), BackendsOf[RouteOf(r)][req[r].scanned + 1]>> \in Entries
<1> DEFINE q == req[r]
           bs == BackendsOf[q.route]
<1>1. q.route \in Routes /\ q.scanned \in Nat /\ q.scanned < Len(bs)
  BY DEF OwnTypes, Requesting, Sound, Request, Scan, At, RouteOf
<1>2. Len(bs) \in Nat
  <2>1. bs \in Seq(Backends)
    BY <1>1, ProxyAssumption
  <2> QED
    BY <2>1
<1>3. q.scanned + 1 \in 1..Len(bs)
  BY <1>1, <1>2
<1> QED
  BY <1>1, <1>3, EntryHere DEF RouteOf

LEMMA BreakerStep ==
  ASSUME OwnTypes, Requesting, BreakersClosed, BR!BreakerInv, [Next]_vars
  PROVE  /\ [BR!Next]_breaker
         /\ BreakersClosed'
<1>0. breaker \in [Entries -> BR!Breaker]
  BY DEF BR!BreakerInv, BR!TypeOK
<1>1. ASSUME NEW r \in Requests, Scan(r)
      PROVE  BR!Next /\ BreakersClosed'
  <2> DEFINE e == <<RouteOf(r), BackendsOf[RouteOf(r)][req[r].scanned + 1]>>
  <2>1. e \in Entries /\ Breakers!CanRequest(e)
    BY <1>1, ScannedEntry DEF Scan
  <2> HIDE DEF e
  <2>2. BR!CanRequest(e)
    BY <2>1 DEF Breakers!CanRequest, BR!CanRequest, Breakers!AfterCanRequest,
       BR!AfterCanRequest, Breakers!Admits, BR!Admits, Breakers!SetState, BR!SetState,
       Breakers!CLOSED, Breakers!OPEN, Breakers!HALF_OPEN, BR!CLOSED, BR!OPEN, BR!HALF_OPEN
  <2>3. breaker' = breaker
    BY <1>0, <2>1, ClosedBreaker DEF BreakersClosed, Breakers!CanRequest
  <2> QED
    BY <2>1, <2>2, <2>3 DEF BR!Next, BreakersClosed
<1>2. ASSUME NEW r \in Requests, Record(r)
      PROVE  BR!Next /\ BreakersClosed'
  <2> DEFINE e == EntryOf(r)
  <2>1. e \in Entries /\ Breakers!RecordSuccess(e)
    BY <1>2, RecordedEntry DEF Record
  <2> HIDE DEF e
  <2>2. BR!RecordSuccess(e)
    BY <2>1 DEF Breakers!RecordSuccess, BR!RecordSuccess, Breakers!AfterSuccess,
       BR!AfterSuccess, Breakers!SetState, BR!SetState,
       Breakers!CLOSED, Breakers!OPEN, Breakers!HALF_OPEN, BR!CLOSED, BR!OPEN, BR!HALF_OPEN
  <2>3. BreakersClosed'
    <3>1. \A f \in Entries : breaker'[f] = IF f = e THEN Breakers!AfterSuccess(breaker[e])
                                           ELSE breaker[f]
      BY <1>0, <2>1 DEF Breakers!RecordSuccess
    <3>2. Breakers!AfterSuccess(breaker[e]).state = Breakers!CLOSED
      BY <1>0, <2>1, ClosedBreaker DEF BreakersClosed
    <3> QED
      BY <3>1, <3>2 DEF BreakersClosed
  <2> QED
    BY <2>1, <2>2, <2>3 DEF BR!Next
<1>3. ASSUME Tick
      PROVE  BR!Next /\ BreakersClosed'
  <2>1. BR!Tick
    BY <1>3 DEF Tick, Breakers!Tick, BR!Tick
  <2>2. \A e \in Entries : breaker'[e].state = breaker[e].state
    BY <1>0, <1>3 DEF Tick, Breakers!Tick, BR!Breaker
  <2> QED
    BY <2>1, <2>2 DEF BR!Next, BreakersClosed
<1>4. ASSUME NEW r \in Requests,
             \/ \E path \in Paths : RouteNotFound(r, path) \/ FindRoute(r, path)
             \/ LookUpBalancer(r) \/ CreateBalancer(r) \/ TargetPanics(r)
             \/ Select(r) \/ TryAcquire(r) \/ BulkheadRejects(r) \/ Connect(r)
             \/ CallSucceeds(r) \/ CallFails(r) \/ CallPanics(r) \/ Disconnect(r)
             \/ Release(r) \/ Released(r) \/ Succeed(r) \/ Retry(r) \/ Fail(r)
      PROVE  UNCHANGED breaker
  BY <1>4 DEF RouteNotFound, FindRoute, LookUpBalancer, CreateBalancer, Install,
       TargetPanics, Select, TryAcquire, BulkheadRejects, Connect, CallSucceeds,
       CallFails, CallReturns, CallPanics, Disconnect, DisconnectAbove, Release,
       Released, Succeed, Retry, RetryBefore, Fail, Locally
<1>5. UNCHANGED breaker => BreakersClosed'
  BY DEF BreakersClosed
<1>6. UNCHANGED vars => UNCHANGED breaker
  BY DEF vars
<1> QED
  BY <1>1, <1>2, <1>3, <1>4, <1>5, <1>6 DEF Next, Proceed
----------------------------------------------------------------------------
(* Every step leaves the requests alone or moves one of them on.           *)

LEMMA CreateInstalls ==
  ASSUME OwnTypes, Requesting, NEW r \in Requests, CreateBalancer(r)
  PROVE  \E l \in Requests : /\ Install(r, l)
                             /\ loadBalancers[RouteOf(r)] = None => l = r
                             /\ loadBalancers[RouteOf(r)] # None
                                  => l = loadBalancers[RouteOf(r)]
<1>1. RouteOf(r) \in Routes
  BY DEF OwnTypes, Requesting, Sound, CreateBalancer, Install, At, RouteOf
<1>2. loadBalancers[RouteOf(r)] \in Requests \cup {None}
  BY <1>1 DEF OwnTypes
<1> QED
  BY <1>2 DEF CreateBalancer

MovesOn(r) == \E from, to \in Stages : Moves(r, from, to)

LEMMA EveryMove ==
  ASSUME OwnTypes, Requesting, Placing, BreakersClosed, [Next]_vars
  PROVE  UNCHANGED req \/ \E r \in Requests : MovesOn(r)
<1>1. ASSUME NEW r \in Requests, NEW path \in Paths,
             RouteNotFound(r, path) \/ FindRoute(r, path)
      PROVE  MovesOn(r)
  <2>1. Moves(r, "new", "done") \/ Moves(r, "new", "matched")
    BY <1>1, RouteNotFoundMoves, FindRouteMoves
  <2> QED
    BY <2>1 DEF MovesOn, Stages
<1>2. ASSUME NEW r \in Requests, LookUpBalancer(r) \/ CreateBalancer(r)
      PROVE  MovesOn(r)
  <2>1. \/ Moves(r, "matched", "creating") \/ Moves(r, "matched", "selecting")
        \/ Moves(r, "creating", "selecting")
    BY <1>2, LookUpMoves, CreateInstalls, InstallMoves
  <2> QED
    BY <2>1 DEF MovesOn, Stages
<1>3. ASSUME NEW r \in Requests, TargetPanics(r) \/ Scan(r) \/ Select(r)
      PROVE  MovesOn(r)
  <2>1. \/ Moves(r, "selecting", "done") \/ Moves(r, "selecting", "selecting")
        \/ Moves(r, "selecting", "acquiring")
    BY <1>3, TargetPanicsMoves, ScanMoves, SelectMoves
  <2> QED
    BY <2>1 DEF MovesOn, Stages
<1>4. ASSUME NEW r \in Requests, BulkheadRejects(r) \/ Connect(r)
      PROVE  MovesOn(r)
  <2>1. Moves(r, "acquiring", "deciding") \/ Moves(r, "acquiring", "calling")
    BY <1>4, RejectMoves, ConnectMoves
  <2> QED
    BY <2>1 DEF MovesOn, Stages
<1>5. ASSUME NEW r \in Requests, CallSucceeds(r) \/ CallFails(r) \/ CallPanics(r)
      PROVE  MovesOn(r)
  <2>1. Moves(r, "calling", "closing")
    BY <1>5, CallSucceedsMoves, CallFailsMoves, CallPanicsMoves
  <2> QED
    BY <2>1 DEF MovesOn, Stages
<1>6. ASSUME NEW r \in Requests, Disconnect(r) \/ Released(r)
      PROVE  MovesOn(r)
  <2>1. \/ Moves(r, "closing", "releasing") \/ Moves(r, "releasing", "deciding")
        \/ Moves(r, "releasing", "done")
    BY <1>6, DisconnectMoves, ReturnMoves, AbortMoves
  <2> QED
    BY <2>1 DEF MovesOn, Stages
<1>7. ASSUME NEW r \in Requests, Succeed(r) \/ Retry(r) \/ Fail(r) \/ Record(r)
      PROVE  MovesOn(r)
  <2>1. \/ Moves(r, "deciding", "recording") \/ Moves(r, "deciding", "selecting")
        \/ Moves(r, "deciding", "done") \/ Moves(r, "recording", "done")
    BY <1>7, SucceedMoves, RetryMoves, FailMoves, RecordMoves
  <2> QED
    BY <2>1 DEF MovesOn, Stages
<1>8. ASSUME NEW r \in Requests, TryAcquire(r) \/ Release(r)
      PROVE  UNCHANGED req
  BY <1>8 DEF TryAcquire, Release
<1>9. Tick \/ UNCHANGED vars => UNCHANGED req
  BY DEF Tick, vars
<1> QED
  BY <1>1, <1>2, <1>3, <1>4, <1>5, <1>6, <1>7, <1>8, <1>9 DEF Next, Proceed

LEMMA RequestingStep ==
  ASSUME OwnTypes, Requesting, Placing, BreakersClosed, [Next]_vars
  PROVE  req' \in [Requests -> Request] /\ Requesting'
<1>1. CASE UNCHANGED req
  BY <1>1 DEF OwnTypes, Requesting
<1>2. ASSUME NEW r \in Requests, MovesOn(r)
      PROVE  req' \in [Requests -> Request] /\ Requesting'
  <2>1. /\ req' \in [Requests -> Request]
        /\ \A s \in Requests : s # r => req'[s] = req[s]
        /\ Sound(req'[r]) /\ Answered(req'[r])
    BY <1>2 DEF MovesOn, Moves
  <2> QED
    BY <2>1 DEF Requesting
<1> QED
  BY <1>1, <1>2, EveryMove

----------------------------------------------------------------------------
(* Every step keeps the requests at their places in the bulkheads.         *)

\* A step outside the bulkheads.
LEMMA PlacedAsBefore ==
  ASSUME Placing, NEW r \in Requests, NEW from, NEW to, Moves(r, from, to),
         UNCHANGED bulkheadVars, pc[r] \in LocationsOf(to),
         pc[r] = "idle" \/ req'[r].target = req[r].target
  PROVE  Placing'
BY DEF Placing, Placed, Moves, bulkheadVars

\* A step of r inside its bulkhead.
LEMMA PlacedInside ==
  ASSUME OwnTypes, Placing, pc \in [Requests -> Bulkheads!Locations],
         at \in [Requests -> Backends \cup {None}], UNCHANGED req,
         NEW r \in Requests, NEW l \in LocationsOf(req[r].stage),
         Bulkheads!Goto(r, l),
         \/ at' = at /\ pc[r] # "idle"
         \/ at' = [at EXCEPT ![r] = req[r].target]
  PROVE  Placing'
<1>1. \A s \in Requests : s # r => pc'[s] = pc[s] /\ at'[s] = at[s] /\ req'[s] = req[s]
  BY DEF Bulkheads!Goto
<1>2. pc'[r] = l /\ at'[r] = req[r].target /\ req'[r] = req[r]
  BY DEF Bulkheads!Goto, Placing, Placed
<1> QED
  BY <1>1, <1>2 DEF Placing, Placed

\* A step of r out of its bulkhead.
LEMMA PlacedOutside ==
  ASSUME Placing, pc \in [Requests -> Bulkheads!Locations],
         at \in [Requests -> Backends \cup {None}],
         NEW r \in Requests, NEW from, NEW to, Moves(r, from, to),
         Bulkheads!Exit(r), "idle" \in LocationsOf(to)
  PROVE  Placing'
<1>1. \A s \in Requests : s # r => pc'[s] = pc[s] /\ at'[s] = at[s] /\ req'[s] = req[s]
  BY DEF Bulkheads!Exit, Bulkheads!Goto, Moves
<1>2. pc'[r] = "idle" /\ req'[r].stage = to
  BY DEF Bulkheads!Exit, Bulkheads!Goto, Moves
<1> QED
  BY <1>1, <1>2 DEF Placing, Placed

LEMMA PlacingStep ==
  ASSUME OwnTypes, Requesting, Placing, BreakersClosed, BP!CountsInv, [Next]_vars
  PROVE  Placing'
<1>t. pc \in [Requests -> Bulkheads!Locations] /\ at \in [Requests -> Backends \cup {None}]
  BY DEF BP!CountsInv, BP!Inv, BP!TypeOK, BP!Locations, Bulkheads!Locations
<1>p. ASSUME NEW r \in Requests
      PROVE  /\ pc[r] \in LocationsOf(req[r].stage)
             /\ pc[r] # "idle" => at[r] = req[r].target
  BY DEF Placing, Placed
<1>1. ASSUME NEW r \in Requests, NEW path \in Paths,
             RouteNotFound(r, path) \/ FindRoute(r, path)
      PROVE  Placing'
  <2>1. PICK to \in {"matched", "done"} : Moves(r, "new", to)
    BY <1>1, RouteNotFoundMoves, FindRouteMoves
  <2>2. pc[r] = "idle" /\ pc[r] \in LocationsOf(to)
    BY <1>p, <2>1 DEF Moves, LocationsOf
  <2>3. UNCHANGED bulkheadVars
    BY <1>1 DEF RouteNotFound, FindRoute, Locally
  <2> QED
    BY <2>1, <2>2, <2>3, PlacedAsBefore
<1>2. ASSUME NEW r \in Requests,
             LookUpBalancer(r) \/ CreateBalancer(r) \/ TargetPanics(r) \/ Scan(r) \/ Select(r)
      PROVE  Placing'
  <2>1. PICK from \in {"matched", "creating", "selecting"},
             to \in {"creating", "selecting", "acquiring", "done"} : Moves(r, from, to)
    BY <1>2, LookUpMoves, CreateInstalls, InstallMoves, TargetPanicsMoves, ScanMoves,
       SelectMoves
  <2>2. pc[r] = "idle" /\ pc[r] \in LocationsOf(to)
    BY <1>p, <2>1 DEF Moves, LocationsOf
  <2>3. UNCHANGED bulkheadVars
    BY <1>2 DEF LookUpBalancer, CreateBalancer, Install, TargetPanics, Scan, Select, Locally
  <2> QED
    BY <2>1, <2>2, <2>3, PlacedAsBefore
<1>3. ASSUME NEW r \in Requests, Connect(r)
      PROVE  Placing'
  <2>1. Moves(r, "acquiring", "calling") /\ req'[r].target = req[r].target
    BY <1>3, ConnectMoves DEF Keeps
  <2>2. pc[r] \in LocationsOf("calling") /\ UNCHANGED bulkheadVars
    BY <1>3 DEF Connect, LocationsOf
  <2> QED
    BY <2>1, <2>2, PlacedAsBefore
<1>4. ASSUME NEW r \in Requests, CallSucceeds(r) \/ CallFails(r) \/ CallPanics(r)
      PROVE  Placing'
  <2>1. Moves(r, "calling", "closing") /\ req'[r].target = req[r].target
    BY <1>4, CallSucceedsMoves, CallFailsMoves, CallPanicsMoves DEF Keeps
  <2>2. pc[r] \in LocationsOf("closing")
    BY <1>p, <2>1 DEF Moves, LocationsOf
  <2>3. UNCHANGED bulkheadVars
    BY <1>4 DEF CallSucceeds, CallFails, CallReturns, CallPanics, Locally
  <2> QED
    BY <2>1, <2>2, <2>3, PlacedAsBefore
<1>5. ASSUME NEW r \in Requests, Disconnect(r)
      PROVE  Placing'
  <2>1. Moves(r, "closing", "releasing") /\ req'[r].target = req[r].target
    BY <1>5, DisconnectMoves DEF Keeps
  <2>2. pc[r] \in LocationsOf("releasing")
    BY <1>p, <2>1 DEF Moves, LocationsOf
  <2>3. UNCHANGED bulkheadVars
    BY <1>5 DEF Disconnect, DisconnectAbove
  <2> QED
    BY <2>1, <2>2, <2>3, PlacedAsBefore
<1>6. ASSUME NEW r \in Requests, Succeed(r) \/ Retry(r) \/ Fail(r) \/ Record(r)
      PROVE  Placing'
  <2>1. PICK from \in {"deciding", "recording"},
             to \in {"recording", "selecting", "done"} : Moves(r, from, to)
    BY <1>6, SucceedMoves, RetryMoves, FailMoves, RecordMoves
  <2>2. pc[r] = "idle" /\ pc[r] \in LocationsOf(to)
    BY <1>p, <2>1 DEF Moves, LocationsOf
  <2>3. UNCHANGED bulkheadVars
    BY <1>6 DEF Succeed, Retry, RetryBefore, Fail, Record, Locally
  <2> QED
    BY <2>1, <2>2, <2>3, PlacedAsBefore
<1>7. ASSUME NEW r \in Requests, TryAcquire(r)
      PROVE  Placing'
  <2>1. req[r].stage = "acquiring" /\ UNCHANGED req
    BY <1>7 DEF TryAcquire, At
  <2>2. PICK l \in {"acquired", "full", "queued", "waiting", "running"} :
          /\ Bulkheads!Goto(r, l)
          /\ \/ at' = at /\ pc[r] # "idle"
             \/ at' = [at EXCEPT ![r] = req[r].target]
    BY <1>7 DEF TryAcquire, Bulkheads!Acquire, Bulkheads!FindFull, Bulkheads!CountActive,
         Bulkheads!Enqueue, Bulkheads!CountQueued, Bulkheads!ReceiveGrant
  <2>3. l \in LocationsOf(req[r].stage)
    BY <2>1, <2>2 DEF LocationsOf
  <2> QED
    BY <1>t, <2>1, <2>2, <2>3, PlacedInside
<1>8. ASSUME NEW r \in Requests, BulkheadRejects(r)
      PROVE  Placing'
  <2>1. Moves(r, "acquiring", "deciding") /\ "idle" \in LocationsOf("deciding")
    BY <1>8, RejectMoves DEF LocationsOf
  <2>2. Bulkheads!Exit(r)
    BY <1>8 DEF BulkheadRejects, Refused, Bulkheads!Reject, Bulkheads!GiveUp,
         Bulkheads!GiveUpGranted
  <2> QED
    BY <1>t, <2>1, <2>2, PlacedOutside
<1>9. ASSUME NEW r \in Requests, Release(r)
      PROVE  Placing'
  <2>1. req[r].stage = "releasing" /\ UNCHANGED req
    BY <1>9 DEF Release, At
  <2>2. CASE Bulkheads!HandOver(r)
    <3> DEFINE h == Head(sendq[at[r]])
    <3>1. at[r] \in Backends /\ sendq[at[r]] # <<>> /\ pc[r] = "running"
      BY <2>2, BP!WhereInside, PartsAssumptions
         DEF Bulkheads!HandOver, BP!CountsInv, BP!Inv, BP!Structure
    <3>2. h \in Requests /\ pc[h] = "blocked"
      BY <3>1, BP!FirstParked, PartsAssumptions DEF BP!CountsInv, BP!Inv, BP!Structure
    <3> HIDE DEF h
    <3>3. at' = at /\ pc' = [pc EXCEPT ![r] = "freed", ![h] = "refilled"]
      BY <2>2 DEF Bulkheads!HandOver, h
    <3>4. req[h].stage = "releasing"
      BY <1>p, <3>2 DEF LocationsOf
    <3>5. /\ pc'[h] = "refilled" /\ pc'[r] = "freed"
          /\ \A s \in Requests : s # r /\ s # h => pc'[s] = pc[s]
      BY <1>t, <3>1, <3>2, <3>3
    <3>6. pc'[h] \in LocationsOf("releasing") /\ pc'[r] \in LocationsOf("releasing")
      BY <3>5 DEF LocationsOf
    <3> QED
      BY <1>p, <2>1, <3>1, <3>2, <3>3, <3>4, <3>5, <3>6 DEF Placing, Placed
  <2>3. CASE ~ Bulkheads!HandOver(r)
    <3>1. PICK l \in {"freed", "draining", "refill", "refilled", "blocked", "granting"} :
            Bulkheads!Goto(r, l) /\ at' = at /\ pc[r] # "idle"
      BY <1>9, <2>3 DEF Release, Bulkheads!FreeSlot, Bulkheads!CountFreed,
         Bulkheads!PopQueue, Bulkheads!Refill, Bulkheads!Park, Bulkheads!CountGrant
    <3>2. l \in LocationsOf(req[r].stage)
      BY <2>1, <3>1 DEF LocationsOf
    <3> QED
      BY <1>t, <2>1, <3>1, <3>2, PlacedInside
  <2> QED
    BY <2>2, <2>3
<1>10. ASSUME NEW r \in Requests, Released(r)
       PROVE  Placing'
  <2>1. PICK to \in {"deciding", "done"} : Moves(r, "releasing", to)
    BY <1>10, ReturnMoves, AbortMoves
  <2>2. Bulkheads!Exit(r)
    BY <1>10 DEF Released, Bulkheads!FindQueueEmpty, Bulkheads!SendGrant,
         Bulkheads!GrantNobody
  <2>3. "idle" \in LocationsOf(to)
    BY <2>1 DEF LocationsOf
  <2> QED
    BY <1>t, <2>1, <2>2, <2>3, PlacedOutside
<1>11. ASSUME Tick \/ UNCHANGED vars
       PROVE  Placing'
  <2>1. pc' = pc /\ at' = at /\ req' = req
    BY <1>11 DEF Tick, vars, bulkheadVars
  <2> QED
    BY <2>1 DEF Placing, Placed
<1> QED
  BY <1>1, <1>2, <1>3, <1>4, <1>5, <1>6, <1>7, <1>8, <1>9, <1>10, <1>11 DEF Next, Proceed
----------------------------------------------------------------------------
(* Every step keeps the balancers shared.                                  *)

SameBalancers == /\ UNCHANGED loadBalancers
                 /\ \A s \in Requests : /\ req'[s].route = req[s].route
                                        /\ req'[s].lb = req[s].lb

\* What does not look for a balancer leaves routes and balancers alone.
LEMMA BalancersKept ==
  ASSUME OwnTypes, Requesting, Placing, BreakersClosed, [Next]_vars
  PROVE  \/ \E r \in Requests : \/ \E path \in Paths : FindRoute(r, path)
                                \/ LookUpBalancer(r) \/ CreateBalancer(r)
         \/ SameBalancers
<1>1. ASSUME NEW r \in Requests, NEW path \in Paths, RouteNotFound(r, path)
      PROVE  SameBalancers
  <2>1. UNCHANGED loadBalancers
    BY <1>1 DEF RouteNotFound, Locally, balancerVars
  <2> QED
    BY <1>1, <2>1, RouteNotFoundMoves DEF SameBalancers, Moves, Keeps
<1>2. ASSUME NEW r \in Requests, TargetPanics(r) \/ Scan(r) \/ Select(r)
      PROVE  SameBalancers
  <2>1. UNCHANGED loadBalancers
    BY <1>2 DEF TargetPanics, Scan, Select, Locally, balancerVars
  <2>2. /\ req'[r].route = req[r].route /\ req'[r].lb = req[r].lb
        /\ \A s \in Requests : s # r => req'[s] = req[s]
    BY <1>2, TargetPanicsMoves, ScanMoves, SelectMoves DEF Moves, Keeps
  <2> QED
    BY <2>1, <2>2 DEF SameBalancers
<1>3. ASSUME NEW r \in Requests,
             \/ BulkheadRejects(r) \/ Connect(r) \/ CallSucceeds(r) \/ CallFails(r)
             \/ CallPanics(r) \/ Disconnect(r) \/ Released(r)
      PROVE  SameBalancers
  <2>1. UNCHANGED loadBalancers
    BY <1>3 DEF BulkheadRejects, Connect, CallSucceeds, CallFails, CallReturns,
         CallPanics, Disconnect, DisconnectAbove, Released, Locally, balancerVars
  <2>2. /\ req'[r].route = req[r].route /\ req'[r].lb = req[r].lb
        /\ \A s \in Requests : s # r => req'[s] = req[s]
    BY <1>3, RejectMoves, ConnectMoves, CallSucceedsMoves, CallFailsMoves,
       CallPanicsMoves, DisconnectMoves, ReturnMoves, AbortMoves DEF Moves, Keeps
  <2> QED
    BY <2>1, <2>2 DEF SameBalancers
<1>4. ASSUME NEW r \in Requests, Succeed(r) \/ Retry(r) \/ Fail(r) \/ Record(r)
      PROVE  SameBalancers
  <2>1. UNCHANGED loadBalancers
    BY <1>4 DEF Succeed, Retry, RetryBefore, Fail, Record, Locally, balancerVars
  <2>2. /\ req'[r].route = req[r].route /\ req'[r].lb = req[r].lb
        /\ \A s \in Requests : s # r => req'[s] = req[s]
    BY <1>4, SucceedMoves, RetryMoves, FailMoves, RecordMoves DEF Moves, Keeps
  <2> QED
    BY <2>1, <2>2 DEF SameBalancers
<1>5. ASSUME NEW r \in Requests, TryAcquire(r) \/ Release(r)
      PROVE  SameBalancers
  BY <1>5 DEF TryAcquire, Release, balancerVars, SameBalancers
<1>6. Tick \/ UNCHANGED vars => SameBalancers
  BY DEF Tick, vars, balancerVars, SameBalancers
<1> QED
  BY <1>1, <1>2, <1>3, <1>4, <1>5, <1>6 DEF Next, Proceed

\* What changes when a balancer is installed: nothing, or a route gets its own.
LEMMA InstallEffect ==
  ASSUME OwnTypes, Requesting, Sharing, NEW r \in Requests, CreateBalancer(r)
  PROVE  /\ RouteOf(r) \in Routes /\ req[r].lb = None
         /\ req'[r].route = RouteOf(r) /\ req'[r].lb = loadBalancers'[RouteOf(r)]
         /\ \A s \in Requests : s # r => req'[s] = req[s]
         /\ UNCHANGED <<counter, connections, picks>>
         /\ \/ loadBalancers' = loadBalancers
            \/ /\ loadBalancers[RouteOf(r)] = None
               /\ loadBalancers' = [loadBalancers EXCEPT ![RouteOf(r)] = r]
               /\ \A p \in Routes : loadBalancers[p] # r
<1>1. PICK l \in Requests : /\ Install(r, l)
                            /\ loadBalancers[RouteOf(r)] = None => l = r
                            /\ loadBalancers[RouteOf(r)] # None
                                 => l = loadBalancers[RouteOf(r)]
  BY CreateInstalls
<1>2. RouteOf(r) \in Routes /\ req[r].lb = None
  BY <1>1 DEF Requesting, Sound, Install, At, RouteOf
<1>3. /\ Moves(r, "creating", "selecting") /\ req'[r].lb = l
      /\ req'[r].route = req[r].route
  BY <1>1, InstallMoves
<1>4. /\ loadBalancers' = [loadBalancers EXCEPT ![RouteOf(r)] = l]
      /\ UNCHANGED <<counter, connections, picks>>
  BY <1>1 DEF Install
<1>5. loadBalancers \in [Routes -> Requests \cup {None}]
  BY DEF OwnTypes
<1>6. loadBalancers'[RouteOf(r)] = l
  BY <1>2, <1>4, <1>5
<1>7. CASE loadBalancers[RouteOf(r)] = None
  <2>1. \A p \in Routes : loadBalancers[p] # r
    BY <1>2, <1>7, ProxyAssumption DEF Sharing, RouteOf
  <2> QED
    BY <1>1, <1>2, <1>3, <1>4, <1>6, <1>7, <2>1 DEF Moves, RouteOf
<1>8. CASE loadBalancers[RouteOf(r)] # None
  <2>1. loadBalancers' = loadBalancers
    BY <1>1, <1>2, <1>4, <1>5, <1>8
  <2> QED
    BY <1>2, <1>3, <1>4, <1>6, <2>1 DEF Moves, RouteOf
<1> QED
  BY <1>7, <1>8

LEMMA SharingStep ==
  ASSUME OwnTypes, Requesting, Placing, Sharing, BreakersClosed, [Next]_vars
  PROVE  Sharing' /\ loadBalancers' \in [Routes -> Requests \cup {None}]
<1>t. loadBalancers \in [Routes -> Requests \cup {None}] /\ None \notin Requests \cup Routes
  BY ProxyAssumption DEF OwnTypes
<1>1. ASSUME NEW r \in Requests, NEW path \in Paths, FindRoute(r, path)
      PROVE  Sharing' /\ UNCHANGED loadBalancers
  <2>1. /\ UNCHANGED loadBalancers /\ req[r].route = None /\ req[r].lb = None
    BY <1>1 DEF FindRoute, Locally, balancerVars, Requesting, Sound, At
  <2>2. req'[r].lb = None /\ \A s \in Requests : s # r => req'[s] = req[s]
    BY <1>1, <2>1, FindRouteMoves DEF Moves
  <2>3. \A p \in Routes : loadBalancers[p] # None =>
          loadBalancers[p] \in Requests /\ loadBalancers[p] # r
    BY <1>t, <2>1 DEF Sharing
  <2> QED
    BY <2>1, <2>2, <2>3 DEF Sharing, RouteOf
<1>2. ASSUME NEW r \in Requests, LookUpBalancer(r)
      PROVE  Sharing' /\ UNCHANGED loadBalancers
  <2>1. UNCHANGED loadBalancers
    BY <1>2 DEF LookUpBalancer, Locally, balancerVars
  <2>2. /\ req'[r].lb = loadBalancers[RouteOf(r)] /\ req'[r].route = req[r].route
        /\ \A s \in Requests : s # r => req'[s] = req[s]
    BY <1>2, LookUpMoves DEF Moves
  <2>3. \A p \in Routes : loadBalancers[p] # None => loadBalancers[p] \in Requests
    BY <1>t
  <2> QED
    BY <2>1, <2>2, <2>3 DEF Sharing, RouteOf
<1>3. ASSUME NEW r \in Requests, CreateBalancer(r)
      PROVE  Sharing' /\ loadBalancers' \in [Routes -> Requests \cup {None}]
  <2> DEFINE p0 == RouteOf(r)
  <2>1. /\ p0 \in Routes /\ req[r].lb = None
        /\ req'[r].route = p0 /\ req'[r].lb = loadBalancers'[p0]
        /\ \A s \in Requests : s # r => req'[s] = req[s]
    BY <1>3, InstallEffect
  <2>2. req[r].route = p0
    BY DEF RouteOf
  <2>3. CASE loadBalancers' = loadBalancers
    <3>1. \A p \in Routes : loadBalancers[p] # None => loadBalancers[p] \in Requests
      BY <1>t
    <3> QED
      BY <1>t, <2>1, <2>2, <2>3, <3>1 DEF Sharing, RouteOf
  <2>4. CASE /\ loadBalancers[p0] = None
             /\ loadBalancers' = [loadBalancers EXCEPT ![p0] = r]
             /\ \A p \in Routes : loadBalancers[p] # r
    <3> HIDE DEF p0
    <3>1. \A p \in Routes : loadBalancers'[p] = IF p = p0 THEN r ELSE loadBalancers[p]
      BY <1>t, <2>4
    <3>2. \A p \in Routes : p # p0 /\ loadBalancers[p] # None =>
            loadBalancers[p] \in Requests /\ loadBalancers[p] # r
      BY <1>t, <2>4
    <3>3. \A p \in Routes : loadBalancers'[p] # None => req'[loadBalancers'[p]].route = p
      BY <2>1, <3>1, <3>2 DEF Sharing
    <3>4. \A s \in Requests : s # r /\ req[s].lb # None =>
            /\ req[s].route \in Routes /\ req[s].route # p0
            /\ req[s].lb = loadBalancers[req[s].route]
      BY <2>4 DEF Sharing, Requesting, Sound, RouteOf
    <3>5. \A s \in Requests : req'[s].lb # None =>
            req'[s].lb = loadBalancers'[req'[s].route]
      BY <2>1, <3>1, <3>4
    <3> QED
      BY <1>t, <2>1, <2>4, <3>3, <3>5 DEF Sharing, RouteOf
  <2> QED
    BY <1>3, <2>3, <2>4, InstallEffect
<1>4. SameBalancers => Sharing' /\ UNCHANGED loadBalancers
  <2> SUFFICES ASSUME SameBalancers PROVE Sharing' /\ UNCHANGED loadBalancers
    OBVIOUS
  <2>1. \A p \in Routes : loadBalancers[p] # None => loadBalancers[p] \in Requests
    BY <1>t
  <2> QED
    BY <2>1 DEF SameBalancers, Sharing, RouteOf
<1> QED
  BY <1>t, <1>1, <1>2, <1>3, <1>4, BalancersKept
----------------------------------------------------------------------------
(* Every step takes the turns of a round-robin balancer in order.          *)

LEMMA RoundRobinChoice ==
  ASSUME NEW l, NEW p, NEW candidates, Strategy[p] = RoundRobin,
         NEW b \in Choices(l, p, candidates)
  PROVE  b = candidates[((counter[l] + 1) % Len(candidates)) + 1]
<1>1. RoundRobin # Random /\ RoundRobin # LeastConnections
  BY DEF RoundRobin, Random, LeastConnections
<1>2. Choices(l, p, candidates) = {candidates[((counter[l] + 1) % Len(candidates)) + 1]}
  BY <1>1, Zenon DEF Choices
<1> QED
  BY <1>2, Zenon

\* A selection: the balancer of the route takes the next turn, if it counts.
LEMMA SelectEffect ==
  ASSUME OwnTypes, Requesting, Sharing, NEW r \in Requests, Select(r)
  PROVE  LET p  == RouteOf(r)
             l  == loadBalancers[p]
             bs == BackendsOf[p]
             n  == Len(bs)
         IN  /\ p \in Routes /\ l \in Requests /\ n \in Nat \ {0} /\ bs # <<>>
             /\ UNCHANGED <<loadBalancers, connections>>
             /\ \/ Strategy[p] # RoundRobin /\ UNCHANGED <<counter, picks>>
                \/ /\ Strategy[p] = RoundRobin
                   /\ counter' = [counter EXCEPT ![l] = (@ + 1) % CounterCycle]
                   /\ picks' = [picks EXCEPT ![p][bs[((counter[l] + 1) % n) + 1]] = @ + 1]
<1> DEFINE p  == RouteOf(r)
           l  == req[r].lb
           bs == BackendsOf[p]
           n  == Len(bs)
           hs == req[r].healthy
<1>1. /\ p \in Routes /\ l \in Requests /\ n \in Nat \ {0}
      /\ Len(hs) = n /\ \A i \in 1..n : hs[i] = bs[i]
  BY SelectMoves
<1>2. PICK b \in Choices(l, p, hs) :
        IF Strategy[p] = RoundRobin
        THEN /\ counter' = [counter EXCEPT ![l] = (@ + 1) % CounterCycle]
             /\ picks' = [picks EXCEPT ![p][b] = @ + 1]
        ELSE UNCHANGED <<counter, picks>>
  BY SelectMoves
<1>3. l = loadBalancers[p]
  BY <1>1, ProxyAssumption DEF Sharing, RouteOf
<1>4. UNCHANGED <<loadBalancers, connections>> /\ bs # <<>>
  BY DEF Select
<1>5. CASE Strategy[p] = RoundRobin
  <2>1. b = hs[((counter[l] + 1) % Len(hs)) + 1]
    BY <1>5, RoundRobinChoice
  <2>2. counter[l] + 1 \in Nat
    BY <1>1, ProxyAssumption DEF OwnTypes
  <2>3. (counter[l] + 1) % n \in 0..(n - 1)
    BY <1>1, <2>2, ModRange
  <2> DEFINE k == (counter[l] + 1) % n
  <2>4. b = hs[k + 1]
    BY <1>1, <2>1
  <2> HIDE DEF k
  <2>5. k + 1 \in 1..n
    BY <1>1, <2>3 DEF k
  <2>6. b = bs[k + 1]
    BY <1>1, <2>4, <2>5
  <2> QED
    BY <1>1, <1>2, <1>3, <1>4, <1>5, <2>6 DEF k
<1>6. CASE Strategy[p] # RoundRobin
  BY <1>1, <1>2, <1>3, <1>4, <1>6
<1> QED
  BY <1>5, <1>6

\* The steps that turn no balancer.
LEMMA TurnsKept ==
  ASSUME [Next]_vars
  PROVE  \/ \E r \in Requests : Select(r) \/ CreateBalancer(r)
         \/ UNCHANGED <<loadBalancers, counter, picks>>
<1>1. ASSUME NEW r \in Requests,
             \/ \E path \in Paths : RouteNotFound(r, path) \/ FindRoute(r, path)
             \/ LookUpBalancer(r) \/ TargetPanics(r) \/ Scan(r)
             \/ TryAcquire(r) \/ BulkheadRejects(r) \/ Connect(r)
             \/ CallSucceeds(r) \/ CallFails(r) \/ CallPanics(r) \/ Disconnect(r)
             \/ Release(r) \/ Released(r) \/ Succeed(r) \/ Retry(r) \/ Fail(r)
             \/ Record(r)
      PROVE  UNCHANGED <<loadBalancers, counter, picks>>
  BY <1>1 DEF RouteNotFound, FindRoute, LookUpBalancer, TargetPanics, Scan, TryAcquire,
       BulkheadRejects, Connect, CallSucceeds, CallFails, CallReturns, CallPanics,
       Disconnect, DisconnectAbove, Release, Released, Succeed, Retry, RetryBefore,
       Fail, Record, Locally, balancerVars
<1>2. Tick \/ UNCHANGED vars => UNCHANGED <<loadBalancers, counter, picks>>
  BY DEF Tick, vars, balancerVars
<1> QED
  BY <1>1, <1>2 DEF Next, Proceed

\* After m rounds and turns number 2 to k + 1 of n: what each has had.
Served(had, n, k, m) ==
  \A i \in 1..n : had[i] = m + (IF 2 <= i /\ i <= k + 1 THEN 1 ELSE 0)

\* One more turn of a round, or of the next round.
LEMMA NextTurn ==
  ASSUME NEW n \in Nat \ {0}, NEW c \in Nat, NEW m \in Nat, NEW old, NEW new,
         Served(old, n, c % n, m),
         \A i \in 1..n : new[i] = IF i = ((c + 1) % n) + 1 THEN old[i] + 1 ELSE old[i]
  PROVE  \E m2 \in Nat : Served(new, n, (c + 1) % n, m2)
<1> DEFINE k == c % n
           j == (c + 1) % n
<1>1. k \in 0..(n - 1) /\ j = (IF k = n - 1 THEN 0 ELSE k + 1)
  BY ModRange, ModNext
<1>2. /\ \A i \in 1..n : old[i] = m + (IF 2 <= i /\ i <= k + 1 THEN 1 ELSE 0)
      /\ \A i \in 1..n : new[i] = IF i = j + 1 THEN old[i] + 1 ELSE old[i]
  BY DEF Served
<1> HIDE DEF k, j
<1>3. CASE k = n - 1
  <2>1. \A i \in 1..n : new[i] = (m + 1) + (IF 2 <= i /\ i <= j + 1 THEN 1 ELSE 0)
    BY <1>1, <1>2, <1>3
  <2> QED
    BY <2>1 DEF j, Served
<1>4. CASE k # n - 1
  <2>1. \A i \in 1..n : new[i] = m + (IF 2 <= i /\ i <= j + 1 THEN 1 ELSE 0)
    BY <1>1, <1>2, <1>4
  <2> QED
    BY <2>1 DEF j, Served
<1> QED
  BY <1>3, <1>4
CountingTypes == /\ counter \in [Requests -> 0..(CounterCycle - 1)]
                 /\ picks \in [Routes -> [Backends -> Nat]]

LEMMA NoTurn ==
  ASSUME OwnTypes, NotYetCounting, TakingTurns,
         UNCHANGED <<loadBalancers, counter, picks>>
  PROVE  TakingTurns' /\ NotYetCounting' /\ CountingTypes'
BY DEF OwnTypes, TakingTurns, NotYetCounting, CountingTypes, Turns

LEMMA TurnStep ==
  ASSUME OwnTypes, Requesting, Sharing, NotYetCounting, TakingTurns,
         NEW r \in Requests, Select(r), NEW p, p = RouteOf(r)
  PROVE  TakingTurns' /\ NotYetCounting' /\ CountingTypes'
<1> DEFINE l  == loadBalancers[p]
           bs == BackendsOf[p]
           n  == Len(bs)
           c  == counter[l]
           x  == bs[((c + 1) % n) + 1]
<1>1. /\ p \in Routes /\ l \in Requests /\ n \in Nat \ {0} /\ bs # <<>>
      /\ loadBalancers' = loadBalancers
      /\ \/ Strategy[p] # RoundRobin /\ UNCHANGED <<counter, picks>>
         \/ /\ Strategy[p] = RoundRobin
            /\ counter' = [counter EXCEPT ![l] = (@ + 1) % CounterCycle]
            /\ picks' = [picks EXCEPT ![p][x] = @ + 1]
  BY SelectEffect
<1>t. /\ counter \in [Requests -> 0..(CounterCycle - 1)]
      /\ picks \in [Routes -> [Backends -> Nat]]
      /\ loadBalancers \in [Routes -> Requests \cup {None}] /\ None \notin Requests
      /\ CounterCycle \in Nat \ {0} /\ CounterCycle % n = 0
  <2>1. n \in 1..Len(BackendsOf[p])
    BY <1>1
  <2> QED
    BY <1>1, <2>1, ProxyAssumption DEF OwnTypes
<1>p. p \in Routes /\ l \in Requests /\ n \in Nat \ {0} /\ loadBalancers' = loadBalancers
  BY <1>1
<1>2. CASE UNCHANGED <<counter, picks>>
  BY <1>p, <1>2, NoTurn
<1>3. CASE /\ Strategy[p] = RoundRobin
           /\ counter' = [counter EXCEPT ![l] = (@ + 1) % CounterCycle]
           /\ picks' = [picks EXCEPT ![p][x] = @ + 1]
  <2>1. c \in 0..(CounterCycle - 1) /\ c \in Nat /\ c + 1 \in Nat
    BY <1>1, <1>t
  <2>2. /\ (c + 1) % CounterCycle \in 0..(CounterCycle - 1)
        /\ ((c + 1) % CounterCycle) % n = (c + 1) % n
        /\ (c + 1) % n \in 0..(n - 1)
    <3> HIDE DEF c, n
    <3> QED
      BY <1>p, <1>t, <2>1, ModRange, ModWrap
  <2> DEFINE j == (c + 1) % n
             cw == (c + 1) % CounterCycle
  <2>3. /\ counter' \in [Requests -> 0..(CounterCycle - 1)] /\ counter'[l] = cw
        /\ \A k \in Requests : k # l => counter'[k] = counter[k]
    BY <1>1, <1>3, <1>t, <2>2
  <2>4. j + 1 \in 1..n
    BY <1>1, <2>2
  <2> HIDE DEF j
  <2>5. bs[j + 1] \in Backends /\ x = bs[j + 1]
    BY <1>1, <2>4, EntryHere DEF j
  <2>6. /\ picks' \in [Routes -> [Backends -> Nat]]
        /\ \A q \in Routes : q # p => picks'[q] = picks[q]
        /\ \A b \in Backends : picks'[p][b] = IF b = bs[j + 1] THEN picks[p][b] + 1
                                                              ELSE picks[p][b]
    <3> DEFINE y == bs[j + 1]
    <3>1. picks' = [picks EXCEPT ![p] = [picks[p] EXCEPT ![y] = picks[p][y] + 1]]
      BY <1>3, <2>5
    <3>2. y \in Backends /\ picks[p] \in [Backends -> Nat] /\ picks[p][y] + 1 \in Nat
      BY <1>1, <1>t, <2>5
    <3> HIDE DEF y
    <3> QED
      BY <1>1, <1>t, <3>1, <3>2 DEF y
  <2>7. \A i \in 1..n : bs[i] \in Backends /\ (bs[i] = bs[j + 1] => i = j + 1)
    BY <1>1, <2>4, EntryHere, ProxyAssumption
  <2> DEFINE old == [i \in 1..n |-> picks[p][bs[i]]]
             new == [i \in 1..n |-> picks'[p][bs[i]]]
  <2>8. PICK m1 \in Nat : Served(old, n, c % n, m1)
    <3>1. PICK m \in Nat : Turns(p, m)
      BY <1>1, <1>3, <1>t DEF TakingTurns
    <3>2. Served(old, n, c % n, m)
      BY <3>1 DEF Turns, Served
    <3> QED
      BY <3>2
  <2>9. PICK m2 \in Nat : Served(new, n, j, m2)
    <3>1. \A i \in 1..n : new[i] = IF i = ((c + 1) % n) + 1 THEN old[i] + 1 ELSE old[i]
      BY <2>6, <2>7 DEF j
    <3> HIDE DEF old, new, n, c
    <3> QED
      BY <1>1, <2>1, <2>8, <3>1, NextTurn DEF j
  <2>10. Turns(p, m2)'
    <3>1. counter'[loadBalancers'[p]] % n = j
      BY <1>1, <2>2, <2>3 DEF j
    <3>2. \A i \in 1..n : picks'[p][bs[i]] = m2 + (IF 2 <= i /\ i <= j + 1 THEN 1 ELSE 0)
      BY <2>9 DEF Served
    <3> QED
      BY <3>1, <3>2 DEF Turns
  <2>11. \A q \in Routes : q # p /\ loadBalancers[q] # None =>
           loadBalancers[q] \in Requests /\ loadBalancers[q] # l
    <3>1. \A q \in Routes : loadBalancers[q] # None =>
            loadBalancers[q] \in Requests /\ req[loadBalancers[q]].route = q
      BY <1>t DEF Sharing
    <3> QED
      BY <1>p, <1>t, <3>1
  <2>12. ASSUME NEW q \in Routes, q # p
         PROVE  /\ picks'[q] = picks[q] /\ loadBalancers'[q] = loadBalancers[q]
                /\ loadBalancers[q] # None =>
                     counter'[loadBalancers[q]] = counter[loadBalancers[q]]
    BY <1>1, <2>3, <2>6, <2>11, <2>12
  <2>13. \A q \in Routes : q # p /\ loadBalancers[q] # None =>
           \A m \in Nat : Turns(q, m) => Turns(q, m)'
    BY <2>12 DEF Turns
  <2>14. TakingTurns'
    <3>1. ASSUME NEW q \in Routes, loadBalancers'[q] = None
          PROVE  \A b \in Backends : picks'[q][b] = 0
      <4>1. q # p
        BY <1>1, <1>t, <3>1
      <4> QED
        BY <2>12, <3>1, <4>1 DEF TakingTurns
    <3>2. ASSUME NEW q \in Routes, loadBalancers'[q] # None, Strategy[q] = RoundRobin,
                 BackendsOf[q] # <<>>
          PROVE  \E m \in Nat : Turns(q, m)'
      <4>1. CASE q = p
        BY <2>10, <4>1
      <4>2. CASE q # p
        <5>1. loadBalancers[q] # None
          BY <2>12, <3>2, <4>2
        <5>2. PICK m \in Nat : Turns(q, m)
          BY <3>2, <5>1 DEF TakingTurns
        <5> QED
          BY <2>13, <4>2, <5>1, <5>2
      <4> QED
        BY <4>1, <4>2
    <3> QED
      BY <3>1, <3>2 DEF TakingTurns
  <2>15. NotYetCounting'
    BY <1>1, <2>3 DEF NotYetCounting
  <2> QED
    BY <2>3, <2>6, <2>14, <2>15 DEF CountingTypes
<1> QED
  BY <1>1, <1>2, <1>3

LEMMA FirstTurn ==
  ASSUME OwnTypes, Requesting, Sharing, NotYetCounting, TakingTurns,
         NEW r \in Requests, CreateBalancer(r), NEW p, p = RouteOf(r)
  PROVE  TakingTurns' /\ NotYetCounting' /\ CountingTypes'
<1>t. /\ counter \in [Requests -> 0..(CounterCycle - 1)]
      /\ picks \in [Routes -> [Backends -> Nat]]
      /\ loadBalancers \in [Routes -> Requests \cup {None}] /\ None \notin Requests
  BY ProxyAssumption DEF OwnTypes
<1>1. p \in Routes /\ UNCHANGED <<counter, picks>>
  BY InstallEffect
<1>2. CASE loadBalancers' = loadBalancers
  BY <1>1, <1>2, NoTurn
<1>3. CASE /\ loadBalancers[p] = None /\ loadBalancers' = [loadBalancers EXCEPT ![p] = r]
           /\ \A q \in Routes : loadBalancers[q] # r
  <2>1. \A q \in Routes : loadBalancers'[q] = IF q = p THEN r ELSE loadBalancers[q]
    BY <1>1, <1>3, <1>t
  <2>2. counter[r] = 0 /\ \A b \in Backends : picks[p][b] = 0
    BY <1>1, <1>3 DEF NotYetCounting, TakingTurns
  <2>3. ASSUME BackendsOf[p] # <<>>
        PROVE  Turns(p, 0)'
    <3> DEFINE n == Len(BackendsOf[p])
    <3>1. BackendsOf[p] \in Seq(Backends) /\ n \in Nat \ {0}
      <4>1. BackendsOf[p] \in Seq(Backends)
        BY <1>1, ProxyAssumption
      <4> QED
        BY <2>3, <4>1
    <3>2. 0 % n = 0
      BY <3>1, ModZero
    <3>3. counter'[loadBalancers'[p]] % n = 0
      BY <1>1, <2>1, <2>2, <3>2
    <3>4. \A i \in 1..n : picks'[p][BackendsOf[p][i]] = 0
      BY <1>1, <2>2, EntryHere
    <3>5. \A i \in 1..n : ~ (2 <= i /\ i <= 0 + 1)
      OBVIOUS
    <3> QED
      BY <3>3, <3>4, <3>5 DEF Turns
  <2>4. \A q \in Routes : q # p => \A m \in Nat : Turns(q, m) => Turns(q, m)'
    BY <1>1, <2>1 DEF Turns
  <2>5. TakingTurns'
    <3>1. \A q \in Routes : loadBalancers'[q] = None =>
            \A b \in Backends : picks'[q][b] = 0
      BY <1>1, <1>t, <2>1 DEF TakingTurns
    <3>2. ASSUME NEW q \in Routes, loadBalancers'[q] # None, Strategy[q] = RoundRobin,
                 BackendsOf[q] # <<>>
          PROVE  \E m \in Nat : Turns(q, m)'
      <4>1. CASE q = p
        BY <2>3, <3>2, <4>1
      <4>2. CASE q # p
        <5>1. PICK m \in Nat : Turns(q, m)
          BY <2>1, <3>2, <4>2 DEF TakingTurns
        <5> QED
          BY <2>4, <4>2, <5>1
      <4> QED
        BY <4>1, <4>2
    <3> QED
      BY <3>1, <3>2 DEF TakingTurns
  <2>6. NotYetCounting'
    BY <1>1, <1>3, <1>t, <2>1 DEF NotYetCounting
  <2> QED
    BY <1>1, <1>t, <2>5, <2>6 DEF CountingTypes
<1> QED
  BY <1>2, <1>3, InstallEffect

LEMMA TurnsStep ==
  ASSUME OwnTypes, Requesting, Sharing, NotYetCounting, TakingTurns, [Next]_vars
  PROVE  TakingTurns' /\ NotYetCounting' /\ CountingTypes'
BY NoTurn, TurnsKept, TurnStep, FirstTurn
----------------------------------------------------------------------------
(* Every step counts the connections it opens and closes.                  *)

Counts(q, l, b) == /\ q.stage \in {"calling", "closing"}
                   /\ Strategy[q.route] = LeastConnections
                   /\ q.lb = l /\ q.target = b

LEMMA ConnectedNamed ==
  /\ \A l, b : Connected(l, b) = {s \in Requests : Counts(req[s], l, b)}
  /\ ConnectionsBalanced <=> \A l \in Requests, b \in Backends :
       connections[l][b] = Cardinality(Connected(l, b))
  /\ ConnectionsBalanced' <=> \A l \in Requests, b \in Backends :
       connections'[l][b] = Cardinality({s \in Requests : Counts(req'[s], l, b)})
BY DEF ConnectionsBalanced, Connected, Counts, RouteOf

\* No request enters or leaves its call.
SameCalls ==
  \A s \in Requests :
    \/ req'[s] = req[s]
    \/ /\ req[s].stage \notin {"calling", "closing"}
       /\ req'[s].stage \notin {"calling", "closing"}
    \/ /\ req[s].stage \in {"calling", "closing"} /\ req'[s].stage \in {"calling", "closing"}
       /\ req'[s].route = req[s].route /\ req'[s].lb = req[s].lb
       /\ req'[s].target = req[s].target

LEMMA CallsKept ==
  ASSUME OwnTypes, Requesting, Placing, BreakersClosed, [Next]_vars
  PROVE  \/ \E r \in Requests : Connect(r) \/ Disconnect(r)
         \/ UNCHANGED connections /\ SameCalls
<1>1. ASSUME NEW r \in Requests, NEW path \in Paths,
             RouteNotFound(r, path) \/ FindRoute(r, path)
      PROVE  UNCHANGED connections /\ SameCalls
  <2>1. UNCHANGED connections
    BY <1>1 DEF RouteNotFound, FindRoute, Locally, balancerVars
  <2>2. Moves(r, "new", "done") \/ Moves(r, "new", "matched")
    BY <1>1, RouteNotFoundMoves, FindRouteMoves
  <2> QED
    BY <2>1, <2>2 DEF Moves, SameCalls
<1>2. ASSUME NEW r \in Requests,
             LookUpBalancer(r) \/ CreateBalancer(r) \/ TargetPanics(r) \/ Scan(r) \/ Select(r)
      PROVE  UNCHANGED connections /\ SameCalls
  <2>1. UNCHANGED connections
    BY <1>2 DEF LookUpBalancer, CreateBalancer, Install, TargetPanics, Scan, Select,
         Locally, balancerVars
  <2>2. PICK from \in {"matched", "creating", "selecting"},
             to \in {"creating", "selecting", "acquiring", "done"} : Moves(r, from, to)
    BY <1>2, LookUpMoves, CreateInstalls, InstallMoves, TargetPanicsMoves, ScanMoves,
       SelectMoves
  <2> QED
    BY <2>1, <2>2 DEF Moves, SameCalls
<1>3. ASSUME NEW r \in Requests, BulkheadRejects(r) \/ Released(r)
      PROVE  UNCHANGED connections /\ SameCalls
  <2>1. UNCHANGED connections
    BY <1>3 DEF BulkheadRejects, Released, balancerVars
  <2>2. \/ Moves(r, "acquiring", "deciding") \/ Moves(r, "releasing", "deciding")
        \/ Moves(r, "releasing", "done")
    BY <1>3, RejectMoves, ReturnMoves, AbortMoves
  <2> QED
    BY <2>1, <2>2 DEF Moves, SameCalls
<1>4. ASSUME NEW r \in Requests, CallSucceeds(r) \/ CallFails(r) \/ CallPanics(r)
      PROVE  UNCHANGED connections /\ SameCalls
  <2>1. UNCHANGED connections
    BY <1>4 DEF CallSucceeds, CallFails, CallReturns, CallPanics, Locally, balancerVars
  <2>2. Moves(r, "calling", "closing") /\ Keeps(r)
    BY <1>4, CallSucceedsMoves, CallFailsMoves, CallPanicsMoves
  <2> QED
    BY <2>1, <2>2 DEF Moves, Keeps, SameCalls
<1>5. ASSUME NEW r \in Requests, Succeed(r) \/ Retry(r) \/ Fail(r) \/ Record(r)
      PROVE  UNCHANGED connections /\ SameCalls
  <2>1. UNCHANGED connections
    BY <1>5 DEF Succeed, Retry, RetryBefore, Fail, Record, Locally, balancerVars
  <2>2. PICK from \in {"deciding", "recording"},
             to \in {"recording", "selecting", "done"} : Moves(r, from, to)
    BY <1>5, SucceedMoves, RetryMoves, FailMoves, RecordMoves
  <2> QED
    BY <2>1, <2>2 DEF Moves, SameCalls
<1>6. ASSUME NEW r \in Requests, TryAcquire(r) \/ Release(r)
      PROVE  UNCHANGED connections /\ SameCalls
  BY <1>6 DEF TryAcquire, Release, balancerVars, SameCalls
<1>7. Tick \/ UNCHANGED vars => UNCHANGED connections /\ SameCalls
  BY DEF Tick, vars, balancerVars, SameCalls
<1> QED
  BY <1>1, <1>2, <1>3, <1>4, <1>5, <1>6, <1>7 DEF Next, Proceed

\* The balancer and the backend of a request in an attempt.
LEMMA AttemptTypes ==
  ASSUME OwnTypes, Requesting, NEW r \in Requests, req[r].stage \in Attempted
  PROVE  /\ req[r].lb \in Requests /\ req[r].target \in Backends
         /\ req[r].route \in Routes /\ EntryOf(r) \in Entries
BY EntryType DEF OwnTypes, Requesting, Request, Sound, Attempted, Early, EntryOf, RouteOf

\* A change of one count.
LEMMA CountedOne ==
  ASSUME OwnTypes, NEW r \in Requests, NEW k \in Requests, NEW a \in Backends,
         k = req[r].lb, a = req[r].target, Strategy[RouteOf(r)] = LeastConnections,
         NEW n \in Int, connections[k][a] + n \in Nat, CountConnection(r, n)
  PROVE  /\ connections' \in [Requests -> [Backends -> Nat]]
         /\ \A l \in Requests, b \in Backends :
              connections'[l][b] = IF l = k /\ b = a THEN connections[k][a] + n
                                                     ELSE connections[l][b]
<1>1. connections \in [Requests -> [Backends -> Nat]]
  BY DEF OwnTypes
<1>2. connections' = [connections EXCEPT ![k] =
                        [connections[k] EXCEPT ![a] = connections[k][a] + n]]
  BY DEF CountConnection
<1>3. connections[k] \in [Backends -> Nat]
  BY <1>1
<1> QED
  BY <1>1, <1>2, <1>3

\* Nothing counted changes.
LEMMA CountedNone ==
  ASSUME OwnTypes, ConnectionsBalanced, UNCHANGED connections,
         \A s \in Requests : \A l, b : Counts(req'[s], l, b) <=> Counts(req[s], l, b)
  PROVE  ConnectionsBalanced' /\ connections' \in [Requests -> [Backends -> Nat]]
<1>1. ASSUME NEW l \in Requests, NEW b \in Backends
      PROVE  connections'[l][b] = Cardinality({s \in Requests : Counts(req'[s], l, b)})
  <2>1. {s \in Requests : Counts(req'[s], l, b)} = Connected(l, b)
    BY ConnectedNamed
  <2>2. connections'[l][b] = Cardinality(Connected(l, b))
    BY ConnectedNamed
  <2> QED
    BY <2>1, <2>2
<1> QED
  BY <1>1, ConnectedNamed DEF OwnTypes

LEMMA ConnectStep ==
  ASSUME OwnTypes, Requesting, ConnectionsBalanced, NEW r \in Requests, Connect(r)
  PROVE  ConnectionsBalanced' /\ connections' \in [Requests -> [Backends -> Nat]]
<1> DEFINE k == req[r].lb
           a == req[r].target
<1>1. Moves(r, "acquiring", "calling") /\ Keeps(r) /\ req[r].stage = "acquiring"
  BY ConnectMoves DEF Moves
<1>2. k \in Requests /\ a \in Backends
  BY <1>1, AttemptTypes DEF Attempted
<1>3. /\ \A s \in Requests : s # r => req'[s] = req[s]
      /\ \A l, b : ~ Counts(req[r], l, b)
      /\ \A l, b : Counts(req'[r], l, b) <=>
           Strategy[req[r].route] = LeastConnections /\ l = k /\ b = a
  BY <1>1 DEF Moves, Keeps, Counts
<1>4. \A l \in Requests, b \in Backends :
        /\ connections[l][b] = Cardinality(Connected(l, b))
        /\ connections[l][b] \in Nat
  BY ConnectedNamed DEF OwnTypes
<1>5. CASE Strategy[req[r].route] = LeastConnections
  <2>1. CountConnection(r, 1) /\ Strategy[RouteOf(r)] = LeastConnections
    BY <1>5 DEF Connect, RouteOf
  <2>2. connections[k][a] + 1 \in Nat
    BY <1>2, <1>4
  <2>3. /\ connections' \in [Requests -> [Backends -> Nat]]
        /\ \A l \in Requests, b \in Backends :
             connections'[l][b] = IF l = k /\ b = a THEN connections[k][a] + 1
                                                    ELSE connections[l][b]
    BY <1>2, <2>1, <2>2, CountedOne
  <2> HIDE DEF k, a
  <2>4. ASSUME NEW l \in Requests, NEW b \in Backends
        PROVE  connections'[l][b] = Cardinality({s \in Requests : Counts(req'[s], l, b)})
    <3>1. CASE l = k /\ b = a
      <4>1. {s \in Requests : Counts(req'[s], l, b)} = Connected(l, b) \cup {r}
            /\ r \notin Connected(l, b) /\ Connected(l, b) \in SUBSET Requests
        BY <1>3, <1>5, <3>1, ConnectedNamed
      <4>2. Cardinality(Connected(l, b) \cup {r}) = Cardinality(Connected(l, b)) + 1
        BY <4>1, CountRequests
      <4> QED
        BY <1>4, <2>3, <3>1, <4>1, <4>2
    <3>2. CASE ~ (l = k /\ b = a)
      <4>1. {s \in Requests : Counts(req'[s], l, b)} = Connected(l, b)
        BY <1>3, <3>2, ConnectedNamed
      <4>2. connections'[l][b] = connections[l][b]
        BY <2>3, <3>2
      <4> QED
        BY <1>4, <4>1, <4>2
    <3> QED
      BY <3>1, <3>2
  <2> QED
    BY <2>3, <2>4, ConnectedNamed
<1>6. CASE Strategy[req[r].route] # LeastConnections
  <2>1. connections' = connections
    BY <1>6 DEF Connect, CountConnection, RouteOf
  <2> QED
    BY <1>3, <1>6, <2>1, CountedNone
<1> QED
  BY <1>5, <1>6

LEMMA DisconnectStep ==
  ASSUME OwnTypes, Requesting, ConnectionsBalanced, NEW r \in Requests, Disconnect(r)
  PROVE  ConnectionsBalanced' /\ connections' \in [Requests -> [Backends -> Nat]]
<1> DEFINE k == req[r].lb
           a == req[r].target
<1>1. Moves(r, "closing", "releasing") /\ Keeps(r) /\ req[r].stage = "closing"
  BY DisconnectMoves DEF Moves
<1>2. k \in Requests /\ a \in Backends
  BY <1>1, AttemptTypes DEF Attempted
<1>3. /\ \A s \in Requests : s # r => req'[s] = req[s]
      /\ \A l, b : ~ Counts(req'[r], l, b)
      /\ \A l, b : Counts(req[r], l, b) <=>
           Strategy[req[r].route] = LeastConnections /\ l = k /\ b = a
  BY <1>1 DEF Moves, Keeps, Counts
<1>4. \A l \in Requests, b \in Backends :
        /\ connections[l][b] = Cardinality(Connected(l, b))
        /\ connections[l][b] \in Nat
  BY ConnectedNamed DEF OwnTypes
<1>5. CASE Strategy[req[r].route] = LeastConnections
  <2>0. /\ Cardinality(Connected(k, a) \ {r}) = Cardinality(Connected(k, a)) - 1
        /\ Cardinality(Connected(k, a) \ {r}) \in Nat
    <3>1. r \in Connected(k, a) /\ Connected(k, a) \in SUBSET Requests
          /\ Connected(k, a) \ {r} \in SUBSET Requests
      BY <1>3, <1>5, ConnectedNamed
    <3> QED
      BY <3>1, CountRequests
  <2>1. connections[k][a] > 0 /\ connections[k][a] + (-1) \in Nat
    BY <1>2, <1>4, <2>0
  <2>2. CountConnection(r, -1) /\ Strategy[RouteOf(r)] = LeastConnections
    BY <1>5, <2>1 DEF Disconnect, DisconnectAbove, RouteOf
  <2>3. /\ connections' \in [Requests -> [Backends -> Nat]]
        /\ \A l \in Requests, b \in Backends :
             connections'[l][b] = IF l = k /\ b = a THEN connections[k][a] + (-1)
                                                    ELSE connections[l][b]
    BY <1>2, <2>1, <2>2, CountedOne
  <2> HIDE DEF k, a
  <2>4. ASSUME NEW l \in Requests, NEW b \in Backends
        PROVE  connections'[l][b] = Cardinality({s \in Requests : Counts(req'[s], l, b)})
    <3>1. CASE l = k /\ b = a
      <4>1. {s \in Requests : Counts(req'[s], l, b)} = Connected(k, a) \ {r}
        BY <1>3, <3>1, ConnectedNamed
      <4> QED
        BY <1>2, <1>4, <2>0, <2>3, <3>1, <4>1
    <3>2. CASE ~ (l = k /\ b = a)
      <4>1. {s \in Requests : Counts(req'[s], l, b)} = Connected(l, b)
        BY <1>3, <3>2, ConnectedNamed
      <4>2. connections'[l][b] = connections[l][b]
        BY <2>3, <3>2
      <4> QED
        BY <1>4, <4>1, <4>2
    <3> QED
      BY <3>1, <3>2
  <2> QED
    BY <2>3, <2>4, ConnectedNamed
<1>6. CASE Strategy[req[r].route] # LeastConnections
  <2>1. connections' = connections
    BY <1>6 DEF Disconnect, DisconnectAbove, CountConnection, RouteOf
  <2> QED
    BY <1>3, <1>6, <2>1, CountedNone
<1> QED
  BY <1>5, <1>6

LEMMA ConnectionsStep ==
  ASSUME OwnTypes, Requesting, Placing, BreakersClosed, ConnectionsBalanced, [Next]_vars
  PROVE  ConnectionsBalanced' /\ connections' \in [Requests -> [Backends -> Nat]]
<1>1. ASSUME UNCHANGED connections, SameCalls
      PROVE  ConnectionsBalanced' /\ connections' \in [Requests -> [Backends -> Nat]]
  <2>1. \A s \in Requests : \A l, b : Counts(req'[s], l, b) <=> Counts(req[s], l, b)
    BY <1>1 DEF SameCalls, Counts
  <2> QED
    BY <1>1, <2>1, CountedNone
<1> QED
  BY <1>1, CallsKept, ConnectStep, DisconnectStep

(* The count of failed calls in a row keeps its range.                     *)
LEMMA FailuresStep ==
  ASSUME OwnTypes, Requesting, [Next]_vars
  PROVE  failures' \in [Entries -> 0..FailureThreshold]
<1>t. failures \in [Entries -> 0..FailureThreshold] /\ FailureThreshold \in Nat
  BY ProxyAssumption DEF OwnTypes
<1>1. ASSUME NEW r \in Requests, CallSucceeds(r) \/ CallFails(r)
      PROVE  failures' \in [Entries -> 0..FailureThreshold]
  <2> DEFINE e == EntryOf(r)
  <2>1. e \in Entries
    BY <1>1, AttemptTypes DEF CallSucceeds, CallFails, CallReturns, At, Attempted
  <2> HIDE DEF e
  <2>2. \/ failures' = [failures EXCEPT ![e] = 0]
        \/ failures' = [failures EXCEPT ![e] = IF @ < FailureThreshold THEN @ + 1 ELSE @]
    BY <1>1 DEF CallSucceeds, CallFails, CallReturns, e
  <2> QED
    BY <1>t, <2>1, <2>2
<1>2. ASSUME NEW r \in Requests,
             \/ \E path \in Paths : RouteNotFound(r, path) \/ FindRoute(r, path)
             \/ LookUpBalancer(r) \/ CreateBalancer(r) \/ TargetPanics(r) \/ Scan(r)
             \/ Select(r) \/ TryAcquire(r) \/ BulkheadRejects(r) \/ Connect(r)
             \/ CallPanics(r) \/ Disconnect(r) \/ Release(r) \/ Released(r)
             \/ Succeed(r) \/ Retry(r) \/ Fail(r) \/ Record(r)
      PROVE  UNCHANGED failures
  BY <1>2 DEF RouteNotFound, FindRoute, LookUpBalancer, CreateBalancer, Install,
       TargetPanics, Scan, Select, TryAcquire, BulkheadRejects, Connect, CallPanics,
       Disconnect, DisconnectAbove, Release, Released, Succeed, Retry, RetryBefore,
       Fail, Record, Locally
<1>3. Tick \/ UNCHANGED vars => UNCHANGED failures
  BY DEF Tick, vars
<1> QED
  BY <1>t, <1>1, <1>2, <1>3 DEF Next, Proceed
----------------------------------------------------------------------------
(* The invariant is inductive.                                             *)

LEMMA NewRequestSound ==
  NewRequest \in Request /\ Sound(NewRequest) /\ Answered(NewRequest)
<1>1. <<>> \in Seq(Backends) /\ <<>> \in Seq(Answers)
  OBVIOUS
<1>2. NewRequest \in Request
  BY <1>1, ProxyAssumption DEF NewRequest, Request, Stages
<1> DEFINE q == NewRequest
<1>3. /\ q.stage = "new" /\ q.route = None /\ q.lb = None /\ q.target = None
      /\ q.result = None /\ q.scanned = 0 /\ q.healthy = <<>> /\ q.reply = <<>>
  BY DEF NewRequest
<1> HIDE DEF q
<1>4. Sound(q) /\ Answered(q)
  BY <1>3, NoOutcome DEF Sound, Answered, Early, Attempted
<1> QED
  BY <1>2, <1>4 DEF q

LEMMA InvInit == Init => Inv
<1> SUFFICES ASSUME Init PROVE Inv
  OBVIOUS
<1>1. OwnTypes
  <2>1. 0 \in 0..(CounterCycle - 1) /\ 0 \in 0..FailureThreshold /\ 0 \in Nat
    BY ProxyAssumption
  <2> QED
    BY <2>1, NewRequestSound DEF Init, OwnTypes
<1>2. BP!CountsInv
  <2>1. BP!Init
    BY DEF Init, Bulkheads!Init, BP!Init
  <2> QED
    BY <2>1, BP!CountsInit, PartsAssumptions
<1>3. BR!BreakerInv /\ BreakersClosed
  <2>1. BR!Init
    BY DEF Init, Breakers!Init, BR!Init, Breakers!NewCircuitBreaker, BR!NewCircuitBreaker,
           Breakers!CLOSED, BR!CLOSED
  <2>2. BreakersClosed
    BY DEF Init, Breakers!Init, Breakers!NewCircuitBreaker, BreakersClosed
  <2> QED
    BY <2>1, <2>2, BR!InitInv, PartsAssumptions
<1>4. \A r \in Requests : req[r] = NewRequest
  BY DEF Init
<1>n. NewRequest.stage = "new" /\ NewRequest.lb = None
  BY DEF NewRequest
<1>5. Requesting
  BY <1>4, NewRequestSound DEF Requesting
<1>6. Placing
  <2>1. \A r \in Requests : req[r].stage = "new" /\ pc[r] = "idle"
    BY <1>4, <1>n DEF Init, Bulkheads!Init
  <2> QED
    BY <2>1 DEF Placing, Placed, LocationsOf
<1>7. Sharing
  BY <1>4, <1>n DEF Init, Sharing
<1>8. ConnectionsBalanced
  <2>1. ASSUME NEW l \in Requests, NEW b \in Backends
        PROVE  connections[l][b] = Cardinality(Connected(l, b))
    <3>1. Connected(l, b) = {}
      BY <1>4, <1>n DEF Connected
    <3> QED
      BY <3>1, CountNone DEF Init
  <2> QED
    BY <2>1, ConnectedNamed
<1>9. NotYetCounting /\ TakingTurns
  BY DEF Init, NotYetCounting, TakingTurns
<1> QED
  BY <1>1, <1>2, <1>3, <1>5, <1>6, <1>7, <1>8, <1>9 DEF Inv

LEMMA InvStep == Inv /\ [Next]_vars => Inv'
<1> SUFFICES ASSUME Inv, [Next]_vars PROVE Inv'
  OBVIOUS
<1>0. /\ OwnTypes /\ BP!CountsInv /\ BR!BreakerInv /\ Requesting /\ Placing /\ Sharing
      /\ BreakersClosed /\ ConnectionsBalanced /\ NotYetCounting /\ TakingTurns
  BY DEF Inv
<1>1. BP!CountsInv'
  BY <1>0, BulkheadStep, BP!CountsStep, PartsAssumptions
<1>2. BR!BreakerInv' /\ BreakersClosed'
  BY <1>0, BreakerStep, BR!StepOfNext, PartsAssumptions
<1>3. Requesting' /\ req' \in [Requests -> Request]
  BY <1>0, RequestingStep
<1>4. Placing'
  BY <1>0, PlacingStep
<1>5. Sharing' /\ loadBalancers' \in [Routes -> Requests \cup {None}]
  BY <1>0, SharingStep
<1>6. ConnectionsBalanced' /\ connections' \in [Requests -> [Backends -> Nat]]
  BY <1>0, ConnectionsStep
<1>7. TakingTurns' /\ NotYetCounting' /\ CountingTypes'
  BY <1>0, TurnsStep
<1>8. OwnTypes'
  BY <1>0, <1>3, <1>5, <1>6, <1>7, FailuresStep DEF OwnTypes, CountingTypes
<1> QED
  BY <1>1, <1>2, <1>3, <1>4, <1>5, <1>6, <1>7, <1>8 DEF Inv

LEMMA InvAlways == Spec => []Inv
BY InvInit, InvStep, PTL DEF Spec

----------------------------------------------------------------------------
(* What the gateway keeps in every behaviour.                              *)

(* Type correctness, of the parts too.                                     *)
THEOREM TypeCorrect == Spec => []TypeOK
<1>1. Inv => TypeOK
  <2> SUFFICES ASSUME Inv PROVE TypeOK
    OBVIOUS
  <2>1. Bulkheads!TypeOK
    BY DEF Inv, BP!CountsInv, BP!Inv, BP!TypeOK, BP!Locations, BP!Entry,
           Bulkheads!TypeOK, Bulkheads!Locations, Bulkheads!Entry
  <2>2. Breakers!TypeOK
    BY DEF Inv, BR!BreakerInv, BR!TypeOK, BR!Breaker, BR!CLOSED, BR!OPEN, BR!HALF_OPEN,
           Breakers!TypeOK, Breakers!Breaker, Breakers!CLOSED, Breakers!OPEN,
           Breakers!HALF_OPEN
  <2> QED
    BY <2>1, <2>2 DEF Inv, OwnTypes, TypeOK
<1> QED
  BY <1>1, InvAlways, PTL

(* However often its attempts are retried, a client is answered once, and  *)
(* no retry follows an answer (proxy.go:80-123, retry.go:31-67).           *)
THEOREM AnswersAreSingle == Spec => []AnsweredOnce
<1>1. Inv => AnsweredOnce
  <2> SUFFICES ASSUME Inv, NEW r \in Requests
               PROVE  /\ Len(req[r].reply) <= 1
                      /\ At(r, "done") => Len(req[r].reply) = 1
                      /\ req[r].reply # <<>> =>
                           req[r].result # "error" \/ req[r].reply = <<"unavailable">>
    BY DEF AnsweredOnce
  <2>1. Answered(req[r])
    BY DEF Inv, Requesting
  <2>2. CASE req[r].stage = "done"
    <3>1. PICK a \in Answers : /\ req[r].reply = <<a>>
                               /\ req[r].result = "error" => a = "unavailable"
      BY <2>1, <2>2 DEF Answered
    <3>2. Len(<<a>>) = 1
      OBVIOUS
    <3> QED
      BY <3>1, <3>2
  <2>3. CASE req[r].stage # "done"
    <3>1. \/ req[r].reply = <<>>
          \/ req[r].reply = <<"replayed">> /\ req[r].result = "ok"
      BY <2>1, <2>3 DEF Answered
    <3>2. Len(<<>>) = 0 /\ Len(<<"replayed">>) = 1
      OBVIOUS
    <3>3. CASE req[r].reply = <<>>
      BY <2>3, <3>2, <3>3 DEF At
    <3>4. CASE req[r].reply = <<"replayed">> /\ req[r].result = "ok"
      BY <2>3, <3>2, <3>4 DEF At
    <3> QED
      BY <3>1, <3>3, <3>4
  <2> QED
    BY <2>2, <2>3
<1> QED
  BY <1>1, InvAlways, PTL

(* A backend never has more than MaxConcurrentRequests calls in progress   *)
(* (proxy.go:88-105, bulkhead.go:46-77).                                   *)
THEOREM CallsAreLimited == Spec => []CallsLimited
<1>1. Inv => CallsLimited
  <2> SUFFICES ASSUME Inv, NEW b \in Backends
               PROVE  Cardinality({r \in Requests : At(r, "calling") /\ req[r].target = b})
                        <= MaxConcurrentRequests
    BY DEF CallsLimited
  <2> DEFINE calls == {r \in Requests : At(r, "calling") /\ req[r].target = b}
  <2>1. \A r \in calls : pc[r] = "running" /\ at[r] = b
    BY DEF Inv, Placing, Placed, LocationsOf, At
  <2>2. calls \subseteq BP!Holders(b)
    BY <2>1 DEF BP!Holders
  <2>3. BP!IsFiniteSet(BP!Holders(b)) /\ BP!Cardinality(BP!Holders(b)) \in Nat
    BY BP!HoldersFinite, PartsAssumptions
  <2>4. /\ BP!Cardinality(calls) <= BP!Cardinality(BP!Holders(b))
        /\ BP!Cardinality(calls) \in Nat
    <3> HIDE DEF calls
    <3> QED
      BY <2>2, <2>3, PartsAssumptions, BP!FS_Subset, BP!FS_CardinalityType
  <2>5. /\ semaphore[b] = BP!Cardinality(BP!Holders(b)) + leaked[b]
        /\ semaphore[b] \in 0..MaxConcurrentRequests /\ leaked[b] \in Nat
    BY DEF Inv, BP!CountsInv, BP!Inv, BP!SlotsAccounted, BP!TypeOK
  <2>6. BP!Cardinality(calls) <= MaxConcurrentRequests
    BY <2>3, <2>4, <2>5, ProxyAssumption
  <2>7. Cardinality(calls) = BP!Cardinality(calls)
    BY SameFiniteSets
  <2> QED
    BY <2>6, <2>7
<1> QED
  BY <1>1, InvAlways, PTL

(* The connections counted are the calls in progress                       *)
(* (loadbalancer.go:98-110).                                               *)
THEOREM ConnectionsAreBalanced == Spec => []ConnectionsBalanced
<1>1. Inv => ConnectionsBalanced
  BY DEF Inv
<1> QED
  BY <1>1, InvAlways, PTL

(* Requests on one route share one balancer (proxy.go:148-172).            *)
THEOREM BalancerIsShared == Spec => []OneBalancer
<1>1. Inv => OneBalancer
  BY DEF Inv, Sharing, OneBalancer
<1> QED
  BY <1>1, InvAlways, PTL

(* No backend of a round-robin route is ahead of another by more than one  *)
(* pick, whatever the table and the interleaving (loadbalancer.go:20-38).  *)
THEOREM TurnsAreBalanced == Spec => []RoundRobinBalanced
<1>1. Inv => RoundRobinBalanced
  <2> SUFFICES ASSUME Inv, NEW p \in Routes, Strategy[p] = RoundRobin,
                      NEW i \in 1..Len(BackendsOf[p]), NEW j \in 1..Len(BackendsOf[p])
               PROVE  picks[p][BackendsOf[p][i]] <= picks[p][BackendsOf[p][j]] + 1
    BY DEF RoundRobinBalanced
  <2>1. BackendsOf[p][i] \in Backends /\ BackendsOf[p][j] \in Backends
    BY EntryHere
  <2>2. CASE loadBalancers[p] = None
    <3>1. picks[p][BackendsOf[p][i]] = 0 /\ picks[p][BackendsOf[p][j]] = 0
      BY <2>1, <2>2 DEF Inv, TakingTurns
    <3> QED
      BY <3>1
  <2>3. CASE loadBalancers[p] # None
    <3>1. BackendsOf[p] # <<>>
      OBVIOUS
    <3>2. PICK m \in Nat : Turns(p, m)
      BY <2>3, <3>1 DEF Inv, TakingTurns
    <3>3. \A k \in 1..Len(BackendsOf[p]) : picks[p][BackendsOf[p][k]] \in {m, m + 1}
      BY <3>2 DEF Turns
    <3> QED
      BY <3>2, <3>3
  <2> QED
    BY <2>2, <2>3
<1> QED
  BY <1>1, InvAlways, PTL

(* Once all requests are over, the bulkheads hold nothing but the slots    *)
(* they leaked (proxy.go:88-101, bulkhead.go:58-104).                      *)
THEOREM NothingIsLeftBehind == Spec => []NothingLeftBehind
<1>1. Inv => NothingLeftBehind
  <2> SUFFICES ASSUME Inv, Idle, NEW b \in Backends
               PROVE  /\ semaphore[b] = leaked[b] /\ activeCount[b] = leaked[b]
                      /\ sendq[b] = <<>>
    BY DEF NothingLeftBehind
  <2>0. BP!TypeOK /\ BP!GrantsWhileWaiting /\ BP!ParkedKnown /\ BP!SlotsAccounted
        /\ BP!Stats(b)
    BY DEF Inv, BP!CountsInv, BP!Inv, BP!Structure
  <2>1. \A r \in Requests : pc[r] = "idle" /\ ~ response[r]
    <3>1. \A r \in Requests : pc[r] = "idle"
      BY DEF Inv, Idle, Placing, Placed, LocationsOf
    <3> QED
      BY <2>0, <3>1 DEF BP!GrantsWhileWaiting
  <2>2. /\ BP!Holders(b) = {} /\ BP!Granted(b) = {}
        /\ BP!At(b, {"running", "freed", "granting"}) = {}
    BY <2>1 DEF BP!Holders, BP!Granted, BP!At
  <2>3. BP!Cardinality({}) = 0
    BY PartsAssumptions, BP!FS_EmptySet
  <2>4. semaphore[b] = leaked[b] /\ activeCount[b] = leaked[b]
    <3>1. leaked[b] \in Nat
      BY <2>0 DEF BP!TypeOK
    <3>2. semaphore[b] = BP!Cardinality({}) + leaked[b]
      BY <2>0, <2>2 DEF BP!SlotsAccounted
    <3>3. activeCount[b] = BP!Cardinality({}) + BP!Cardinality({}) + leaked[b]
      BY <2>0, <2>2 DEF BP!Stats, BP!ActiveOf, BP!GrantedOf
    <3> QED
      BY <2>3, <3>1, <3>2, <3>3
  <2>5. sendq[b] = <<>>
    <3> SUFFICES ASSUME sendq[b] # <<>> PROVE FALSE
      OBVIOUS
    <3>1. Head(sendq[b]) \in Requests /\ pc[Head(sendq[b])] = "blocked"
      BY <2>0, BP!FirstParked, PartsAssumptions
    <3> QED
      BY <2>1, <3>1
  <2> QED
    BY <2>4, <2>5
<1> QED
  BY <1>1, InvAlways, PTL

(* The closure reports nothing but successes to the breakers, and so none  *)
(* of them ever opens, whatever the backends do (proxy.go:118-132).        *)
THEOREM NoBreakerOpens == Spec => []BreakersClosed
<1>1. Inv => BreakersClosed
  BY DEF Inv
<1> QED
  BY <1>1, InvAlways, PTL

----------------------------------------------------------------------------
(* Routing.                                                                *)

(* How the prefixes of a sequence compare.                                 *)
LEMMA PrefixesNest ==
  ASSUME NEW T, NEW u \in Seq(T), NEW v \in Seq(T), NEW w \in Seq(T), NEW x \in T
  PROVE  /\ Sequence!IsPrefix(u, v) /\ Sequence!IsPrefix(v, w) => Sequence!IsPrefix(u, w)
         /\ Sequence!IsPrefix(u, u)
         /\ Sequence!IsPrefix(u, Append(u, x))
         /\ Sequence!IsPrefix(u, w) /\ Sequence!IsPrefix(v, w)
              => \/ Sequence!IsPrefix(u, v)
                 \/ u # v /\ Sequence!IsPrefix(v, u)
<1>1. Sequence!IsPrefix(u, v) /\ Sequence!IsPrefix(v, w) => Sequence!IsPrefix(u, w)
  BY DEF Sequence!IsPrefix
<1>2. Sequence!IsPrefix(u, u) /\ Sequence!IsPrefix(u, Append(u, x))
  BY DEF Sequence!IsPrefix
<1>3. ASSUME Sequence!IsPrefix(u, w), Sequence!IsPrefix(v, w)
      PROVE  IF Len(u) <= Len(v) THEN Sequence!IsPrefix(u, v) ELSE u # v /\ Sequence!IsPrefix(v, u)
  BY <1>3 DEF Sequence!IsPrefix
<1> QED
  BY <1>1, <1>2, <1>3

(* An extension of a prefix is cut there by the same element.              *)
LEMMA PrefixExtended ==
  ASSUME NEW T, NEW u \in Seq(T), NEW v \in Seq(T), NEW w \in Seq(T), NEW x \in T,
         Sequence!IsPrefix(Append(u, x), w), Sequence!IsPrefix(v, w),
         Len(v) > Len(u)
  PROVE  Sequence!IsPrefix(Append(u, x), v)
BY DEF Sequence!IsPrefix

(* What a pattern names is a path.                                         *)
LEMMA TopSeq ==
  ASSUME NEW T, NEW pattern \in Seq(T)
  PROVE  Top(pattern) \in Seq(T)
<1>1. CASE Len(pattern) >= 2
  BY <1>1 DEF Top, Trimmed
<1>2. CASE Len(pattern) < 2
  BY <1>2 DEF Top, Trimmed
<1> QED
  BY <1>1, <1>2

(* What is below a pattern matches it.                                     *)
LEMMA BelowMatches ==
  ASSUME NEW T, "/" \in T, NEW pattern \in Seq(T), NEW path \in Seq(T), Below(path, pattern)
  PROVE  matchesPattern(pattern, path)
<1> DEFINE top == Top(pattern)
<1>1. top \in Seq(T) /\ Append(top, "/") \in Seq(T)
  BY TopSeq
<1>2. matchesPattern(pattern, path) <=>
        IF HasWildcard(pattern) THEN Sequence!IsPrefix(top, path) ELSE path = top
  BY DEF matchesPattern, Top
<1>3. path = top \/ (HasWildcard(pattern) /\ Sequence!IsPrefix(Append(top, "/"), path))
  BY DEF Below
<1> HIDE DEF top
<1>4. CASE path = top
  BY <1>1, <1>2, <1>4, PrefixesNest
<1>5. CASE HasWildcard(pattern) /\ Sequence!IsPrefix(Append(top, "/"), path)
  <2>1. Sequence!IsPrefix(top, Append(top, "/"))
    BY <1>1, PrefixesNest
  <2>2. Sequence!IsPrefix(top, path)
    BY <1>1, <1>5, <2>1, PrefixesNest
  <2> QED
    BY <1>2, <1>5, <2>2
<1> QED
  BY <1>3, <1>4, <1>5

(* A pattern that takes a path from a later one, from which it is apart,   *)
(* has the path below it.                                                  *)
LEMMA EarlierServes ==
  ASSUME NEW T, "/" \in T, NEW earlier \in Seq(T), NEW later \in Seq(T), NEW path \in Seq(T),
         matchesPattern(earlier, path), Below(path, later),
         matchesPattern(earlier, Top(later)) => Below(Top(later), earlier),
         HasWildcard(earlier) /\ Below(Top(earlier), later) => Top(earlier) = Top(later)
  PROVE  Below(path, earlier)
<1> DEFINE t == Top(earlier)
           u == Top(later)
<1>1. t \in Seq(T) /\ u \in Seq(T) /\ Append(t, "/") \in Seq(T) /\ Append(u, "/") \in Seq(T)
  BY TopSeq
<1>2. CASE ~ HasWildcard(earlier)
  BY <1>2 DEF matchesPattern, Below, Top
<1>3. CASE HasWildcard(earlier) /\ path = u
  BY <1>3
<1>4. CASE HasWildcard(earlier) /\ HasWildcard(later) /\ Sequence!IsPrefix(Append(u, "/"), path)
  <2>1. Sequence!IsPrefix(t, path)
    BY <1>4 DEF matchesPattern, Top
  <2>2. Sequence!IsPrefix(u, Append(u, "/")) /\ Sequence!IsPrefix(u, path)
    BY <1>1, <1>4, PrefixesNest
  <2>3. CASE Sequence!IsPrefix(t, u)
    <3>1. Below(u, earlier)
      BY <1>4, <2>3 DEF matchesPattern, Top
    <3>2. u = t \/ Sequence!IsPrefix(Append(t, "/"), u)
      BY <3>1 DEF Below
    <3>3. CASE u = t
      BY <1>4, <3>3 DEF Below
    <3>4. CASE Sequence!IsPrefix(Append(t, "/"), u)
      <4>1. Sequence!IsPrefix(Append(t, "/"), path)
        BY <1>1, <2>2, <3>4, PrefixesNest
      <4> QED
        BY <1>4, <4>1 DEF Below
    <3> QED
      BY <3>2, <3>3, <3>4
  <2>4. CASE ~ Sequence!IsPrefix(t, u)
    <3>1. Len(t) > Len(u)
      BY <1>1, <2>1, <2>2, <2>4 DEF Sequence!IsPrefix
    <3>2. Sequence!IsPrefix(Append(u, "/"), t)
      BY <1>1, <1>4, <2>1, <3>1, PrefixExtended
    <3>3. Below(t, later)
      BY <1>4, <3>2 DEF Below
    <3>4. t = u
      BY <1>4, <3>3
    <3> QED
      BY <1>1, <3>1, <3>4
  <2> QED
    BY <2>3, <2>4
<1> QED
  BY <1>2, <1>3, <1>4 DEF Below

(* While no pattern cuts across another, the first route that matches a    *)
(* path is one the path is below, if there is any.                         *)
LEMMA FirstMatchServes ==
  ASSUME NEW T, "/" \in T, PatternOf \in [Routes -> Seq(T)],
         \A p \in Routes : \E i \in DOMAIN RouteOrder : RouteOrder[i] = p,
         PatternsApart,
         NEW path \in Seq(T), NEW p \in Routes, Below(path, PatternOf[p])
  PROVE  MatchRoute(path) \in Routes /\ Below(path, PatternOf[MatchRoute(path)])
<1>1. PICK j \in DOMAIN RouteOrder : RouteOrder[j] = p
  OBVIOUS
<1>2. DOMAIN RouteOrder = 1..Len(RouteOrder) /\ Len(RouteOrder) \in Nat
      /\ \A i \in DOMAIN RouteOrder : RouteOrder[i] \in Routes
  BY ProxyAssumption
<1>3. matchesPattern(PatternOf[RouteOrder[j]], path)
  BY <1>1, BelowMatches
<1>4. PICK i \in DOMAIN RouteOrder :
        /\ MatchRoute(path) = RouteOrder[i]
        /\ matchesPattern(PatternOf[RouteOrder[i]], path)
        /\ \A k \in 1..(i - 1) : ~ matchesPattern(PatternOf[RouteOrder[k]], path)
  BY <1>1, <1>3, MatchRouteFirst
<1>5. MatchRoute(path) \in Routes
  BY <1>2, <1>4
<1>6. CASE i = j
  BY <1>1, <1>4, <1>5, <1>6
<1>7. CASE i # j
  <2>1. i < j
    BY <1>2, <1>3, <1>4, <1>7
  <2> DEFINE earlier == PatternOf[RouteOrder[i]]
             later   == PatternOf[RouteOrder[j]]
  <2>2. earlier \in Seq(T) /\ later \in Seq(T)
    BY <1>2
  <2>3. /\ matchesPattern(earlier, Top(later)) => Below(Top(later), earlier)
        /\ HasWildcard(earlier) /\ Below(Top(earlier), later) => Top(earlier) = Top(later)
    BY <2>1 DEF PatternsApart
  <2>4. matchesPattern(earlier, path) /\ Below(path, later)
    BY <1>1, <1>4
  <2> HIDE DEF earlier, later
  <2>5. Below(path, earlier)
    BY <2>2, <2>3, <2>4, EarlierServes
  <2> QED
    BY <1>4, <1>5, <2>5 DEF earlier
<1> QED
  BY <1>6, <1>7

\* A request has the route its path matches first.
MatchedFirst ==
  \A r \in Requests : ~ At(r, "new") => /\ req[r].path \in Paths
                                         /\ RouteOf(r) = MatchRoute(req[r].path)

\* Nothing but MatchRoute gives a request its path and its route.
LEMMA ProceedKeeps ==
  ASSUME OwnTypes, Placing, NEW r \in Requests, Proceed(r)
  PROVE  /\ ~ At(r, "new")
         /\ \A s \in Requests : /\ s # r => req'[s] = req[s]
                                /\ req'[s].path = req[s].path
                                /\ req'[s].route = req[s].route
<1>1. req \in [Requests -> Request]
  BY DEF OwnTypes
<1>2. CASE LookUpBalancer(r) \/ CreateBalancer(r) \/ TargetPanics(r) \/ Scan(r)
  BY <1>1, <1>2 DEF LookUpBalancer, CreateBalancer, Install, TargetPanics, Scan, Finish,
                    At, Request
<1>3. CASE Select(r)
  BY <1>1, <1>3 DEF Select, At, Request
<1>4. CASE TryAcquire(r) \/ Release(r)
  BY <1>1, <1>4 DEF TryAcquire, Release, At
<1>5. CASE BulkheadRejects(r)
  BY <1>1, <1>5, RefusedWhere DEF BulkheadRejects, At, Request
<1>6. CASE Released(r)
  <2>1. req[r].stage = "releasing" /\ (Finish(r, "panicked") \/ Enter(r, "deciding"))
    BY <1>6, ReleasedWhere DEF Released
  <2> QED
    BY <1>1, <2>1 DEF Finish, Enter, At, Request
<1>7. CASE Connect(r) \/ CallSucceeds(r) \/ CallFails(r) \/ CallPanics(r) \/ Disconnect(r)
  BY <1>1, <1>7 DEF Connect, CallSucceeds, CallFails, CallReturns, CallPanics, Disconnect,
                    DisconnectAbove, Enter, At, Request
<1>8. CASE Succeed(r) \/ Retry(r) \/ Fail(r) \/ Record(r)
  BY <1>1, <1>8 DEF Succeed, Retry, RetryBefore, Fail, Record, Enter, Finish, At, Request
<1> QED
  BY <1>2, <1>3, <1>4, <1>5, <1>6, <1>7, <1>8 DEF Proceed

LEMMA MatchedFirstStep ==
  ASSUME Inv, MatchedFirst, [Next]_vars
  PROVE  MatchedFirst'
<1>0. OwnTypes /\ Placing /\ req \in [Requests -> Request]
  BY DEF Inv, OwnTypes
<1>1. ASSUME NEW r \in Requests, NEW path \in Paths, RouteNotFound(r, path)
      PROVE  MatchedFirst'
  <2>1. req[r].route = None
    BY <1>1 DEF RouteNotFound, At, Inv, Requesting, Sound
  <2>2. /\ req'[r].path = path /\ req'[r].route = MatchRoute(path)
        /\ \A s \in Requests : s # r => req'[s] = req[s]
    BY <1>0, <1>1, <2>1 DEF RouteNotFound, Request
  <2> QED
    BY <2>2 DEF MatchedFirst, At, RouteOf
<1>2. ASSUME NEW r \in Requests, NEW path \in Paths, FindRoute(r, path)
      PROVE  MatchedFirst'
  <2>1. /\ req'[r].path = path /\ req'[r].route = MatchRoute(path)
        /\ \A s \in Requests : s # r => req'[s] = req[s]
    BY <1>0, <1>2 DEF FindRoute, Request
  <2> QED
    BY <2>1 DEF MatchedFirst, At, RouteOf
<1>3. ASSUME NEW r \in Requests, Proceed(r)
      PROVE  MatchedFirst'
  BY <1>0, <1>3, ProceedKeeps DEF MatchedFirst, At, RouteOf
<1>4. Tick \/ UNCHANGED vars => UNCHANGED req
  BY DEF Tick, vars
<1> QED
  BY <1>1, <1>2, <1>3, <1>4 DEF Next, MatchedFirst, At, RouteOf

(* Every path at or below the pattern of a route is served by such a route *)
(* (config.go:109-126), for every table of wildcard and exact patterns in  *)
(* which no pattern starts inside a segment of a later one and none is     *)
(* nested in a later one.  Without that the prefix match serves it wrongly:*)
(* with /api/users/* before /api/*, /api/usersX goes to the first.         *)
THEOREM RoutesServeTheirPaths ==
  ASSUME NEW T, "/" \in T, PatternOf \in [Routes -> Seq(T)], Paths \subseteq Seq(T),
         \A p \in Routes : \E i \in DOMAIN RouteOrder : RouteOrder[i] = p,
         PatternsApart
  PROVE  Spec => []RoutedBySegments
<1>1. Init => MatchedFirst
  BY DEF Init, NewRequest, MatchedFirst, At
<1>2. MatchedFirst => RoutedBySegments
  <2> SUFFICES ASSUME MatchedFirst, NEW r \in Requests, ~ At(r, "new"),
                      NEW p \in Routes, Below(req[r].path, PatternOf[p])
               PROVE  RouteOf(r) \in Routes /\ Below(req[r].path, PatternOf[RouteOf(r)])
    BY DEF RoutedBySegments
  <2>1. req[r].path \in Seq(T) /\ RouteOf(r) = MatchRoute(req[r].path)
    BY DEF MatchedFirst
  <2> QED
    BY <2>1, FirstMatchServes
<1> QED
  BY <1>1, <1>2, MatchedFirstStep, InvAlways, PTL DEF Spec

----------------------------------------------------------------------------
(* The gateway runs its parts as their modules say: what is proved of them *)
(* holds in the gateway.                                                   *)

(* Every behaviour of the gateway is one of the bulkheads, whose requests  *)
(* are the attempts.                                                       *)
THEOREM BulkheadsAreUsedRight == Spec => BP!Spec
<1>1. Init => BP!Init
  BY DEF Init, Bulkheads!Init, BP!Init
<1>2. Inv /\ [Next]_vars => [BP!Next]_(BP!vars)
  BY BulkheadStep DEF Inv
<1> QED
  BY <1>1, <1>2, InvAlways, PTL DEF Spec, BP!Spec

(* So are the breakers'.                                                   *)
THEOREM BreakersAreUsedRight == Spec => BR!Spec
<1>1. Init => BR!Init
  BY DEF Init, Breakers!Init, BR!Init, Breakers!NewCircuitBreaker, BR!NewCircuitBreaker,
         Breakers!CLOSED, BR!CLOSED
<1>2. Inv /\ [Next]_vars => [BR!Next]_breaker
  BY BreakerStep DEF Inv
<1> QED
  BY <1>1, <1>2, InvAlways, PTL DEF Spec, BR!Spec
=============================================================================

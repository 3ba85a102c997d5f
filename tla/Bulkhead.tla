------------------------------ MODULE Bulkhead ------------------------------
(***************************************************************************)
(* The bulkheads of the gateway (internal/gateway/bulkhead.go), one per    *)
(* backend, used by concurrent requests: a semaphore channel of            *)
(* MaxConcurrentRequests slots and a queue channel of QueueSize entries.   *)
(*                                                                         *)
(* Every channel operation and every section under sb.mutex is one atomic  *)
(* step, and requests interleave between any two of them.  Channels follow *)
(* Go's semantics: a select with a default never waits; a plain send on a  *)
(* full channel parks its goroutine in a FIFO list, and the next receive   *)
(* takes the oldest value and completes the first parked send at once.     *)
(*                                                                         *)
(* A queue entry is named by the request that waits for it.  The entry of  *)
(* a request that stopped waiting stays in the queue, as None: its         *)
(* response channel (capacity 1) accepts an answer nobody will read.       *)
(* Timers and contexts may fire at any moment of a wait.                   *)
(***************************************************************************)
EXTENDS Integers, FiniteSets, Sequences

CONSTANTS
  Requests,               \* goroutines that serve requests
  Backends,               \* the keys of Proxy.bulkheads
  MaxConcurrentRequests,  \* capacity of the semaphore channel
  QueueSize,              \* capacity of the queue channel
  None                    \* no backend, no request

ASSUME BulkheadAssumption ==
  /\ IsFiniteSet(Requests)
  /\ MaxConcurrentRequests \in Nat \ {0}
  /\ QueueSize \in Nat
  /\ None \notin Requests \cup Backends

VARIABLES
  pc,           \* pc[r]: where request r is in TryAcquire or Release
  at,           \* at[r]: the bulkhead r is using
  semaphore,    \* semaphore[b]: values in the channel
  sendq,        \* sendq[b]: requests parked in a send on the semaphore
  queue,        \* queue[b]: the entries in the channel
  popped,       \* popped[r]: the entry r took from the queue in Release
  response,     \* response[r]: r's response channel holds a grant
  activeCount,  \* activeCount[b]
  queuedCount,  \* queuedCount[b]
  leaked        \* history: leaked[b], slots granted to requests that had left

vars == <<pc, at, semaphore, sendq, queue, popped, response,
          activeCount, queuedCount, leaked>>

\* Where a request can be.  Each name says what has just happened to it.
Locations == {
  "idle",      \* not in the bulkhead
  "acquired",  \* took a slot at l.48, not counted yet
  "full",      \* found the semaphore full, will try the queue
  "queued",    \* entered the queue at l.86, not counted yet
  "waiting",   \* in the select of l.92
  "running",   \* TryAcquire returned nil: calling the backend
  "freed",     \* gave its slot back at l.60, not counted yet
  "draining",  \* counted; about to look into the queue
  "refill",    \* took an entry at l.67, needs a slot for it
  "blocked",   \* parked in the send of l.68
  "refilled",  \* has the slot, not counted yet
  "granting" } \* counted; about to answer the entry

Init ==
  /\ pc          = [r \in Requests |-> "idle"]
  /\ at          = [r \in Requests |-> None]
  /\ semaphore   = [b \in Backends |-> 0]
  /\ sendq       = [b \in Backends |-> <<>>]
  /\ queue       = [b \in Backends |-> <<>>]
  /\ popped      = [r \in Requests |-> None]
  /\ response    = [r \in Requests |-> FALSE]
  /\ activeCount = [b \in Backends |-> 0]
  /\ queuedCount = [b \in Backends |-> 0]
  /\ leaked      = [b \in Backends |-> 0]

Goto(r, location) == pc' = [pc EXCEPT ![r] = location]

\* r leaves bulkhead at[r].
Exit(r) == Goto(r, "idle") /\ at' = [at EXCEPT ![r] = None]

Abandoned(entries, r) ==
  [i \in DOMAIN entries |-> IF entries[i] = r THEN None ELSE entries[i]]

----------------------------------------------------------------------------
(* TryAcquire(ctx) and tryQueue(ctx).                                      *)

\* Mutant of Acquire: the channel is made one value too large.
AcquireOneMore(r, b) ==
  /\ pc[r] = "idle"
  /\ semaphore[b] <= MaxConcurrentRequests
  /\ semaphore' = [semaphore EXCEPT ![b] = @ + 1]
  /\ at' = [at EXCEPT ![r] = b]
  /\ Goto(r, "acquired")
  /\ UNCHANGED <<sendq, queue, popped, response, activeCount, queuedCount, leaked>>

Acquire(r, b) ==
  /\ pc[r] = "idle"
  /\ semaphore[b] < MaxConcurrentRequests
  /\ semaphore' = [semaphore EXCEPT ![b] = @ + 1]
  /\ at' = [at EXCEPT ![r] = b]
  /\ Goto(r, "acquired")
  /\ UNCHANGED <<sendq, queue, popped, response, activeCount, queuedCount, leaked>>

CountActive(r) ==
  /\ pc[r] = "acquired"
  /\ activeCount' = [activeCount EXCEPT ![at[r]] = @ + 1]
  /\ Goto(r, "running")
  /\ UNCHANGED <<at, semaphore, sendq, queue, popped, response, queuedCount, leaked>>

FindFull(r, b) ==
  /\ pc[r] = "idle"
  /\ semaphore[b] = MaxConcurrentRequests
  /\ at' = [at EXCEPT ![r] = b]
  /\ Goto(r, "full")
  /\ UNCHANGED <<semaphore, sendq, queue, popped, response,
                 activeCount, queuedCount, leaked>>

Enqueue(r) ==
  /\ pc[r] = "full"
  /\ Len(queue[at[r]]) < QueueSize
  /\ queue' = [queue EXCEPT ![at[r]] = Append(@, r)]
  /\ Goto(r, "queued")
  /\ UNCHANGED <<at, semaphore, sendq, popped, response,
                 activeCount, queuedCount, leaked>>

\* "bulkhead queue is full"
Reject(r) ==
  /\ pc[r] = "full"
  /\ Len(queue[at[r]]) = QueueSize
  /\ Exit(r)
  /\ UNCHANGED <<semaphore, sendq, queue, popped, response,
                 activeCount, queuedCount, leaked>>

CountQueued(r) ==
  /\ pc[r] = "queued"
  /\ queuedCount' = [queuedCount EXCEPT ![at[r]] = @ + 1]
  /\ Goto(r, "waiting")
  /\ UNCHANGED <<at, semaphore, sendq, queue, popped, response, activeCount, leaked>>

ReceiveGrant(r) ==
  /\ pc[r] = "waiting"
  /\ response[r]
  /\ response' = [response EXCEPT ![r] = FALSE]
  /\ Goto(r, "running")
  /\ UNCHANGED <<at, semaphore, sendq, queue, popped, activeCount, queuedCount, leaked>>

\* Mutant of GiveUp: the select has no case for the timeout or the context.
GiveUpNever(r) == FALSE

\* The queue timeout or the request's context ends the wait.  The entry stays.
GiveUp(r) ==
  /\ pc[r] = "waiting"
  /\ ~ response[r]
  /\ queue' = [queue EXCEPT ![at[r]] = Abandoned(@, r)]
  /\ popped' = Abandoned(popped, r)
  /\ Exit(r)
  /\ UNCHANGED <<semaphore, sendq, response, activeCount, queuedCount, leaked>>

\* The same with the grant already there: select picks either ready case.
GiveUpGranted(r) ==
  /\ pc[r] = "waiting"
  /\ response[r]
  /\ response' = [response EXCEPT ![r] = FALSE]
  /\ leaked' = [leaked EXCEPT ![at[r]] = @ + 1]
  /\ Exit(r)
  /\ UNCHANGED <<semaphore, sendq, queue, popped, activeCount, queuedCount>>

----------------------------------------------------------------------------
(* Release().                                                              *)

\* The receive of l.60 when nobody is parked at l.68.
FreeSlot(r) ==
  /\ pc[r] = "running"
  /\ sendq[at[r]] = <<>>
  /\ semaphore[at[r]] > 0
  /\ semaphore' = [semaphore EXCEPT ![at[r]] = @ - 1]
  /\ Goto(r, "freed")
  /\ UNCHANGED <<at, sendq, queue, popped, response,
                 activeCount, queuedCount, leaked>>

\* The receive of l.60 when somebody is: the first parked sender gets the slot.
HandOver(r) ==
  /\ pc[r] = "running"
  /\ sendq[at[r]] # <<>>
  /\ sendq' = [sendq EXCEPT ![at[r]] = Tail(@)]
  /\ pc' = [pc EXCEPT ![r] = "freed", ![Head(sendq[at[r]])] = "refilled"]
  /\ UNCHANGED <<at, semaphore, queue, popped, response,
                 activeCount, queuedCount, leaked>>

CountFreed(r) ==
  /\ pc[r] = "freed"
  /\ activeCount' = [activeCount EXCEPT ![at[r]] = @ - 1]
  /\ Goto(r, "draining")
  /\ UNCHANGED <<at, semaphore, sendq, queue, popped, response, queuedCount, leaked>>

\* Mutant of PopQueue: looks at the first entry but leaves it in the queue.
PopQueueKeeping(r) ==
  /\ pc[r] = "draining"
  /\ queue[at[r]] # <<>>
  /\ popped' = [popped EXCEPT ![r] = Head(queue[at[r]])]
  /\ Goto(r, "refill")
  /\ UNCHANGED <<at, semaphore, sendq, queue, response,
                 activeCount, queuedCount, leaked>>

PopQueue(r) ==
  /\ pc[r] = "draining"
  /\ queue[at[r]] # <<>>
  /\ popped' = [popped EXCEPT ![r] = Head(queue[at[r]])]
  /\ queue' = [queue EXCEPT ![at[r]] = Tail(@)]
  /\ Goto(r, "refill")
  /\ UNCHANGED <<at, semaphore, sendq, response, activeCount, queuedCount, leaked>>

\* Mutant of FindQueueEmpty: the select has no default case.
FindQueueEmptyNever(r) == FALSE

FindQueueEmpty(r) ==
  /\ pc[r] = "draining"
  /\ queue[at[r]] = <<>>
  /\ Exit(r)
  /\ UNCHANGED <<semaphore, sendq, queue, popped, response,
                 activeCount, queuedCount, leaked>>

\* Mutant of Refill: the entry is granted without taking a slot for it.
RefillWithoutSlot(r) ==
  /\ pc[r] = "refill"
  /\ semaphore[at[r]] < MaxConcurrentRequests
  /\ Goto(r, "refilled")
  /\ UNCHANGED <<at, semaphore, sendq, queue, popped, response,
                 activeCount, queuedCount, leaked>>

\* The send of l.68.
Refill(r) ==
  /\ pc[r] = "refill"
  /\ semaphore[at[r]] < MaxConcurrentRequests
  /\ semaphore' = [semaphore EXCEPT ![at[r]] = @ + 1]
  /\ Goto(r, "refilled")
  /\ UNCHANGED <<at, sendq, queue, popped, response,
                 activeCount, queuedCount, leaked>>

\* The send of l.68 when newcomers have taken every slot since l.60.
Park(r) ==
  /\ pc[r] = "refill"
  /\ semaphore[at[r]] = MaxConcurrentRequests
  /\ sendq' = [sendq EXCEPT ![at[r]] = Append(@, r)]
  /\ Goto(r, "blocked")
  /\ UNCHANGED <<at, semaphore, queue, popped, response,
                 activeCount, queuedCount, leaked>>

\* Mutant of CountGrant: the queue counter is forgotten.
CountGrantActiveOnly(r) ==
  /\ pc[r] = "refilled"
  /\ activeCount' = [activeCount EXCEPT ![at[r]] = @ + 1]
  /\ Goto(r, "granting")
  /\ UNCHANGED <<at, semaphore, sendq, queue, popped, response,
                 queuedCount, leaked>>

CountGrant(r) ==
  /\ pc[r] = "refilled"
  /\ activeCount' = [activeCount EXCEPT ![at[r]] = @ + 1]
  /\ queuedCount' = [queuedCount EXCEPT ![at[r]] = @ - 1]
  /\ Goto(r, "granting")
  /\ UNCHANGED <<at, semaphore, sendq, queue, popped, response, leaked>>

\* The answer of l.73 to a request that waits for it.
SendGrant(r) ==
  /\ pc[r] = "granting"
  /\ popped[r] # None
  /\ response' = [response EXCEPT ![popped[r]] = TRUE]
  /\ popped' = [popped EXCEPT ![r] = None]
  /\ Exit(r)
  /\ UNCHANGED <<semaphore, sendq, queue, activeCount, queuedCount, leaked>>

\* The answer of l.73 to a channel nobody reads any more: the slot is lost.
GrantNobody(r) ==
  /\ pc[r] = "granting"
  /\ popped[r] = None
  /\ leaked' = [leaked EXCEPT ![at[r]] = @ + 1]
  /\ Exit(r)
  /\ UNCHANGED <<semaphore, sendq, queue, popped, response,
                 activeCount, queuedCount>>

----------------------------------------------------------------------------
\* The steps of TryAcquire after its first select, up to its return.
TryAcquireStep(r) ==
  \/ CountActive(r) \/ Enqueue(r) \/ Reject(r) \/ CountQueued(r)
  \/ ReceiveGrant(r) \/ GiveUp(r) \/ GiveUpGranted(r)

\* The receive Release starts with.
StartRelease(r) == FreeSlot(r) \/ HandOver(r)

\* The steps of Release after it.
ReleaseStep(r) ==
  \/ CountFreed(r) \/ PopQueue(r) \/ FindQueueEmpty(r)
  \/ Refill(r) \/ Park(r) \/ CountGrant(r) \/ SendGrant(r) \/ GrantNobody(r)

Next ==
  \E r \in Requests :
    \/ \E b \in Backends : Acquire(r, b) \/ FindFull(r, b)
    \/ TryAcquireStep(r)
    \/ StartRelease(r)
    \/ ReleaseStep(r)

Spec == Init /\ [][Next]_vars

\* Goroutines run, timers fire, and a call to a backend ends (executeRequest
\* bounds it with BackendTimeout).  Nothing obliges a request to arrive.
Fairness ==
  \A r \in Requests :
    WF_vars(TryAcquireStep(r)) /\ WF_vars(StartRelease(r)) /\ WF_vars(ReleaseStep(r))

FairSpec == Spec /\ Fairness

----------------------------------------------------------------------------
(* Properties.                                                             *)

At(b, locations) == {r \in Requests : at[r] = b /\ pc[r] \in locations}

\* The requests that stand for a value in the semaphore of b.
Holders(b) ==
  {r \in Requests :
     /\ at[r] = b
     /\ pc[r] \in {"acquired", "running", "refilled", "granting"} \/ response[r]}

Entry == Requests \cup {None}

TypeOK ==
  /\ pc \in [Requests -> Locations]
  /\ at \in [Requests -> Backends \cup {None}]
  /\ semaphore \in [Backends -> 0..MaxConcurrentRequests]
  /\ sendq \in [Backends -> Seq(Requests)]
  /\ queue \in [Backends -> Seq(Entry)]
  /\ popped \in [Requests -> Entry]
  /\ response \in [Requests -> BOOLEAN]
  /\ activeCount \in [Backends -> Int]
  /\ queuedCount \in [Backends -> Int]
  /\ leaked \in [Backends -> Nat]

(* What a bulkhead is for: no backend ever serves more than                *)
(* MaxConcurrentRequests requests at a time (bulkhead.go:46-77).           *)
ConcurrencyLimit ==
  \A b \in Backends : Cardinality(At(b, {"running"})) <= MaxConcurrentRequests

(* Every value in the semaphore belongs to exactly one request that runs,  *)
(* is about to, or is being granted a slot, or was leaked: the hand-over   *)
(* from Release to the queue neither duplicates nor drops a slot.          *)
SlotsAccounted ==
  \A b \in Backends : semaphore[b] = Cardinality(Holders(b)) + leaked[b]

(* A request that waits is in the queue, or in the hands of exactly one    *)
(* Release, or granted, and only one of these: it cannot be forgotten, and *)
(* it cannot be granted two slots (bulkhead.go:65-73, 86-97).              *)
WaitersKnown ==
  \A r \in Requests :
    LET entries == {i \in 1..QueueSize : \E b \in Backends :
                      i <= Len(queue[b]) /\ queue[b][i] = r}
        takers  == {s \in Requests : popped[s] = r}
        grants  == IF response[r] THEN 1 ELSE 0
    IN  Cardinality(entries) + Cardinality(takers) + grants =
          IF pc[r] \in {"queued", "waiting"} THEN 1 ELSE 0

(* Entries outlive their requests (bulkhead.go:80-98): each request that   *)
(* times out costs, for good, a place in the queue, which becomes a slot   *)
(* once a Release grants the stale entry, or a slot at once.  It costs     *)
(* only one of them, and nothing but a timeout costs any.                  *)
StaleEntries(b) == {i \in DOMAIN queue[b] : queue[b][i] = None}
StaleTakers(b)  == {r \in At(b, {"refill", "blocked", "refilled", "granting"}) :
                      popped[r] = None}
Lost(b)  == leaked[b] + Cardinality(StaleEntries(b)) + Cardinality(StaleTakers(b))
TimedOutAt(b) ==
  {r \in Requests : at[r] = b /\ pc[r] = "waiting" /\ pc'[r] = "idle"}
TimeoutsCostOne ==
  [][\A b \in Backends : Lost(b)' = Lost(b) + Cardinality(TimedOutAt(b))]_vars

(* The counters GetStats publishes, updated outside the channel operations *)
(* they count: how far each of them can be off, and by whom.               *)
StatsAccount ==
  \A b \in Backends :
    /\ activeCount[b] = Cardinality(At(b, {"running", "freed", "granting"}))
                          + Cardinality({r \in Requests : at[r] = b /\ response[r]})
                          + leaked[b]
    /\ queuedCount[b] = Len(queue[b])
                          + Cardinality(At(b, {"refill", "blocked", "refilled"}))
                          - Cardinality(At(b, {"queued"}))

(* The bulkhead implements the slot pool: with all its interleavings it    *)
(* takes, returns, passes on and loses slots, and does nothing else.       *)
Pool == INSTANCE SlotPool WITH users <- [b \in Backends |-> Holders(b)],
                               lost  <- leaked
ImplementsSlotPool == Pool!Spec

(* "Wait for either being granted a slot or timeout/cancellation"          *)
(* (bulkhead.go:91): no slot is granted to a request that has timed out.   *)
EitherGrantedOrTimedOut == \A b \in Backends : leaked[b] = 0

(* Whoever enters the queue gets a slot or an error.                       *)
EveryWaitEnds ==
  \A r \in Requests : pc[r] = "queued" ~> pc[r] \in {"running", "idle"}

(* Release returns, unless all the slots of its bulkhead have leaked: only *)
(* then can the send of l.68 park a finished request forever.              *)
ReleaseReturns ==
  \A r \in Requests, b \in Backends :
    pc[r] = "freed" /\ at[r] = b
      ~> pc[r] = "idle" \/ leaked[b] = MaxConcurrentRequests
=============================================================================

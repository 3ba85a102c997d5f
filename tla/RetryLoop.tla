----------------------------- MODULE RetryLoop -----------------------------
(***************************************************************************)
(* How long a proxied request takes: ExecuteWithRetry and calculateDelay   *)
(* (internal/gateway/retry.go), the timeouts of timeout.go, and the wait   *)
(* in a bulkhead's queue.  Proxy says what the attempts do to shared       *)
(* state; here the only thing shared is time.                              *)
(*                                                                         *)
(* Time passes in units, by Tick.  A step that the code takes without      *)
(* waiting is urgent: time does not pass before it.  The waits are those   *)
(* of the code: for a slot, at most QueueTimeout or until the context      *)
(* ends; for the backend, at most BackendTimeout or until the context      *)
(* ends; between attempts, a sleep that knows no context; in the writes to *)
(* the client, which may read as slowly as it likes, at most until the     *)
(* server's WriteTimeout, whatever the context says; and in Release, which *)
(* has no limit at all (bulkhead.go:68).                                   *)
(*                                                                         *)
(* A write comes twice: the attempt that succeeds replays the response of  *)
(* the backend while it still has its slot (proxy.go:115), and net/http    *)
(* flushes what is left in its buffer when ServeHTTP has returned.         *)
(***************************************************************************)
EXTENDS Integers, FiniteSets

CONSTANTS
  Requests,
  MaxAttempts, InitialDelay, MaxDelay, Multiplier,  \* of RetryConfig
  QueueTimeout,                                     \* of BulkheadConfig
  RequestTimeout, BackendTimeout,                   \* of TimeoutConfig
  WriteTimeout                                      \* of http.Server

ASSUME RetryAssumption ==
  /\ MaxAttempts \in Nat \ {0}
  /\ InitialDelay \in Nat /\ MaxDelay \in Nat /\ Multiplier \in Nat
  /\ QueueTimeout \in Nat /\ RequestTimeout \in Nat /\ BackendTimeout \in Nat
  /\ WriteTimeout \in Nat

VARIABLE req  \* req[r]: see Uncounted

Phases == {
  "new",         \* not arrived
  "attempting",  \* about to choose a backend and enter its bulkhead
  "waiting",     \* in the bulkhead's queue
  "calling",     \* waiting for the backend
  "replaying",   \* writing the response to the client, with the slot
  "releasing",   \* in the deferred Release
  "held",        \* has waited in Release
  "sleeping",    \* between two attempts
  "flushing",    \* after ServeHTTP: net/http sends the rest to the client
  "done" }

\* A request of which no time is counted.
Uncounted(phase) == [
  phase    |-> phase,
  attempt  |-> 0,        \* of the loop
  left     |-> RequestTimeout,  \* time to the end of the context
  timer    |-> 0,        \* time to the end of the wait or sleep
  writable |-> WriteTimeout,    \* time to the deadline of writes
  failed   |-> FALSE,    \* the attempt returns an error
  stalled  |-> FALSE,    \* history: has waited for its client to read
  age      |-> 0,        \* history: time since it arrived
  overtime |-> 0]        \* history: time since its context ended, in ServeHTTP

NewRequest == Uncounted("new")

----------------------------------------------------------------------------
(* The delays.                                                             *)

Exponential(n) == InitialDelay * Multiplier^n

Capped(n) == IF Exponential(n) \in 0..MaxDelay THEN Exponential(n) ELSE MaxDelay

\* Jitter adds or takes away up to a quarter.
Jittered(delay) == {d \in 0..(2 * delay) : 3 * delay <= 4 * d /\ 4 * d <= 5 * delay}

\* Mutant of calculateDelay: the cap is forgotten.
calculateDelayUncapped(n) == Jittered(Exponential(n))

\* The delays possible after attempt n.
calculateDelay(n) == Jittered(Capped(n))

\* <<i, unit>>: every unit of time that one of the sleeps after the first n
\* attempts can take.
PauseUnits(n) ==
  {p \in (0..(n - 1)) \X (1..(2 * MaxDelay)) : 4 * p[2] <= 5 * Capped(p[1])}

PausesAfter(n) == Cardinality(PauseUnits(n))

\* All the time a request can spend in its sleeps, and in its attempts.
AllPauses == PausesAfter(MaxAttempts - 1)
AllWaits  == MaxAttempts * (QueueTimeout + BackendTimeout)
Longest   == (IF AllWaits < RequestTimeout THEN AllWaits ELSE RequestTimeout)
               + AllPauses

Larger(m, n) == IF m < n THEN n ELSE m

----------------------------------------------------------------------------
At(r, phase) == req[r].phase = phase

InProgress(r) == req[r].phase \notin {"new", "done"}

\* In progress, and its time is counted.
Timed(r) == req[r].phase \notin {"new", "held", "done"}

\* r's context has ended: by its timeout, or because its client has gone.
Ended(r) == req[r].left = 0

Arrive(r) ==
  /\ At(r, "new")
  /\ req' = [req EXCEPT ![r].phase = "attempting"]

ClientLeaves(r) ==
  /\ Timed(r) /\ ~ Ended(r)
  /\ req' = [req EXCEPT ![r].left = 0]

\* ServeHTTP returns and cancels its context; a response or a 503 is on its
\* way out.
Finish(r) ==
  req' = [req EXCEPT ![r] = [@ EXCEPT
            !.phase = "flushing", !.attempt = 0, !.left = 0, !.timer = 0,
            !.failed = FALSE, !.overtime = 0]]

\* The loop after a failed attempt: a delay before the next, unless it was
\* the last.
FailBefore(r, last) ==
  IF req[r].attempt < last
  THEN \E d \in calculateDelay(req[r].attempt) :
         req' = [req EXCEPT ![r].phase = "sleeping", ![r].failed = FALSE,
                            ![r].timer = d]
  ELSE Finish(r)

\* Mutant of Fail: the last attempt is followed by one more.
FailOnceMore(r) == FailBefore(r, MaxAttempts)

Fail(r) == FailBefore(r, MaxAttempts - 1)

\* No backend admits the request, or the bulkhead's queue is full.
Refuse(r) == At(r, "attempting") /\ Fail(r)

Call(r) == req' = [req EXCEPT ![r].phase = "calling", ![r].timer = BackendTimeout]

Enqueue(r) ==
  /\ At(r, "attempting")
  /\ req' = [req EXCEPT ![r].phase = "waiting", ![r].timer = QueueTimeout]

\* A slot: at once, or granted in the queue.
Acquire(r) == req[r].phase \in {"attempting", "waiting"} /\ Call(r)

TimedOut(r) == req[r].timer = 0 \/ Ended(r)

GiveUp(r) == At(r, "waiting") /\ TimedOut(r) /\ Fail(r)

\* The call returns: to the write, or to the deferred Release.
Return(r, phase, failed) ==
  req' = [req EXCEPT ![r].phase = phase, ![r].timer = 0, ![r].failed = failed]

\* A status of 500 and more fails the attempt, any other response is replayed,
\* and the panic of a body that breaks off ends the request.  The transport
\* does not call for a context that has ended.
BackendAnswers(r) ==
  /\ At(r, "calling") /\ ~ Ended(r)
  /\ \/ Return(r, "releasing", TRUE)
     \/ Return(r, "replaying", FALSE)
     \/ Return(r, "releasing", FALSE)

CallTimesOut(r) ==
  At(r, "calling") /\ TimedOut(r) /\ Return(r, "releasing", TRUE)

\* The write is over: the client has read enough, or the write has failed.
Replayed(r) ==
  /\ At(r, "replaying")
  /\ req' = [req EXCEPT ![r].phase = "releasing"]

\* The histories end with the request.
Close(r, phase) == req' = [req EXCEPT ![r] = Uncounted(phase)]

Flushed(r) == At(r, "flushing") /\ Close(r, "done")

WriteEnds(r) == Replayed(r) \/ Flushed(r)

\* Release finds no free slot for the head of the queue.  This wait has no
\* limit, so a request that has met it is not followed any further: it stays in
\* progress for any length of time.
Hold(r) == At(r, "releasing") /\ Close(r, "held")

LetGo(r) == At(r, "held") /\ Close(r, "done")

Released(r) ==
  /\ At(r, "releasing")
  /\ IF req[r].failed THEN Fail(r) ELSE Finish(r)

Wake(r) ==
  /\ At(r, "sleeping")
  /\ req[r].timer = 0
  /\ req' = [req EXCEPT ![r].phase = "attempting", ![r].attempt = @ + 1]

\* What the goroutine of r does without waiting for another.
Proceed(r) ==
  \/ Refuse(r) \/ Enqueue(r) \/ GiveUp(r)
  \/ CallTimesOut(r) \/ Wake(r)
  \/ Released(r)
  \/ req[r].writable = 0 /\ WriteEnds(r)

\* What somebody else decides: a slot, the backend, the client, a slot again.
React(r) ==
  \/ Acquire(r) \/ BackendAnswers(r) \/ ClientLeaves(r)
  \/ Hold(r) \/ LetGo(r)
  \/ req[r].writable > 0 /\ WriteEnds(r)

\* Waiting for the client.
Writing == {"replaying", "flushing"}

\* Time may pass for r.
Patient(r) ==
  CASE req[r].phase \in {"waiting", "calling"} -> ~ TimedOut(r)
    [] At(r, "sleeping")                       -> req[r].timer > 0
    [] req[r].phase \in Writing                 -> req[r].writable > 0
    [] req[r].phase \in {"attempting", "releasing"} -> FALSE
    [] OTHER                                   -> TRUE

Less(n) == IF n > 0 THEN n - 1 ELSE 0

\* ServeHTTP is still at work for a context that has ended.
Overdue(r) == Ended(r) /\ ~ At(r, "flushing")

LongestAge      == Larger(Longest, WriteTimeout)
LongestOvertime == Larger(AllPauses, WriteTimeout)

\* The histories are counted to one more than their properties allow.
ElapseTo(r, writable) ==
  IF ~ Timed(r) THEN req[r]
  ELSE [req[r] EXCEPT
         !.left     = Less(@),
         !.timer    = Less(@),
         !.writable = writable,
         !.stalled  = @ \/ req[r].phase \in Writing,
         !.age      = IF @ <= LongestAge THEN @ + 1 ELSE @,
         !.overtime = IF Overdue(r) /\ @ <= LongestOvertime THEN @ + 1 ELSE @]

\* Mutant of Elapse: the server has no WriteTimeout.
ElapseWithoutDeadline(r) == ElapseTo(r, req[r].writable)

Elapse(r) == ElapseTo(r, Less(req[r].writable))

RetryTick ==
  /\ \A r \in Requests : Patient(r)
  /\ req' = [r \in Requests |-> Elapse(r)]

RetryInit == req = [r \in Requests |-> NewRequest]

----------------------------------------------------------------------------
(* Properties.                                                             *)

Request == [
  phase    : Phases,
  attempt  : 0..(MaxAttempts - 1),
  left     : 0..RequestTimeout,
  timer    : Nat,
  writable : 0..WriteTimeout,
  failed   : BOOLEAN,
  stalled  : BOOLEAN,
  age      : 0..(LongestAge + 1),
  overtime : 0..(LongestOvertime + 1)]

RetryTypeOK == req \in [Requests -> Request]

(* A request goes on when its client has left or its time is over, since   *)
(* the sleeps do not look at the context and the attempts are still made   *)
(* (retry.go:34-64): but not for longer than all the sleeps together,      *)
(* unless it waits in Release, or for a slow client, which it does not do  *)
(* beyond WriteTimeout.                                                    *)
OvertimeBounded ==
  \A r \in Requests :
    \/ req[r].overtime <= AllPauses
    \/ req[r].stalled /\ req[r].overtime <= WriteTimeout

(* No request lasts longer than its attempts and sleeps may, nor longer    *)
(* than "overall request timeout (client -> gateway -> backend -> client)" *)
(* (timeout.go:9) and the sleeps, unless it waits in Release, or for a     *)
(* slow client: and then no longer than WriteTimeout (main.go:94).         *)
RequestsEnd ==
  \A r \in Requests :
    \/ req[r].age <= Longest
    \/ req[r].stalled /\ req[r].age <= WriteTimeout
=============================================================================

--------------------------- MODULE Gateway_proofs ---------------------------
(***************************************************************************)
(* Proofs about RetryLoop and Gateway, for any requests, attempts, delays  *)
(* and timeouts: how long a request can last, and which ones a shutdown    *)
(* can cut off.                                                            *)
(*                                                                         *)
(* The bounds are not inductive alone.  Until a request has to wait for    *)
(* its client, Sound says, for each phase, that the time it has spent and  *)
(* the time still on its timer are within what the attempts and sleeps so  *)
(* far can take; that overtime is spent in sleeps only; and that the rest  *)
(* of its age is within the context.  From then on it has only the write   *)
(* and Release before it, and the deadline of the write bounds its age.    *)
(***************************************************************************)
EXTENDS Gateway, FiniteSetTheorems, TLAPS

\* What n attempts can take.
Waits(n) == n * (QueueTimeout + BackendTimeout)

\* A request whose time is not counted has no history.
Fresh(q) == q.phase \in {"new", "held", "done"} =>
  /\ q.attempt = 0 /\ q.left = RequestTimeout /\ q.writable = WriteTimeout
  /\ q.age = 0 /\ q.overtime = 0 /\ ~ q.stalled

\* The deadline of writes was set when the request came.
WriteCounted(q) ==
  /\ q.writable > 0 => q.age + q.writable <= WriteTimeout
  /\ q.overtime <= q.age

\* Who has waited for its client only has to finish.
StallCounted(q) == q.stalled =>
  /\ q.phase \in {"replaying", "releasing", "flushing"}
  /\ ~ q.failed
  /\ q.age <= WriteTimeout

\* A response is replayed only for an attempt that has not failed, and no
\* context is left after ServeHTTP.
FlushCounted(q) ==
  /\ q.phase = "replaying" => ~ q.failed
  /\ q.phase = "flushing" =>
       ~ q.failed /\ q.overtime = 0 /\ (q.stalled \/ q.age <= Longest)

\* The age, in attempts and sleeps.
WaitsCounted(q) ==
  /\ q.phase = "attempting" => q.age <= Waits(q.attempt) + PausesAfter(q.attempt)
  /\ q.phase = "waiting" =>
       q.age + q.timer <= Waits(q.attempt) + QueueTimeout + PausesAfter(q.attempt)
  /\ q.phase = "calling" =>
       q.age + q.timer <= Waits(q.attempt + 1) + PausesAfter(q.attempt)
  /\ q.phase \in {"replaying", "releasing"} =>
       q.age <= Waits(q.attempt + 1) + PausesAfter(q.attempt)
  /\ q.phase = "sleeping" =>
       /\ q.attempt + 1 < MaxAttempts
       /\ q.age + q.timer <= Waits(q.attempt + 1) + PausesAfter(q.attempt + 1)

\* The overtime, in sleeps.
OvertimeCounted(q) ==
  /\ q.left > 0 => q.overtime = 0
  /\ q.phase # "sleeping" => q.overtime <= PausesAfter(q.attempt)
  /\ q.phase = "sleeping" => q.overtime + q.timer <= PausesAfter(q.attempt + 1)

\* The age, in the context and after it.
ContextCounted(q) == q.age + q.left <= RequestTimeout + q.overtime

\* The request is in ServeHTTP and has not waited for its client.
Paced(q) == ~ q.stalled /\ q.phase # "flushing"

Sound(q) ==
  /\ Fresh(q) /\ WriteCounted(q) /\ StallCounted(q) /\ FlushCounted(q)
  /\ Paced(q) => WaitsCounted(q) /\ OvertimeCounted(q) /\ ContextCounted(q)

\* While Shutdown waits, every request whose time is counted is about as old as
\* the shutdown, or older.
Draining ==
  /\ main # "draining" => grace = Grace
  /\ main = "draining" =>
       /\ listener \in {"none", "closed"}
       /\ \A r \in Requests : Timed(r) => Grace - grace <= FreshLimit + req[r].age

\* The inductive invariant.
Inv == TypeOK /\ (\A r \in Requests : Sound(req[r])) /\ Draining

----------------------------------------------------------------------------
(* The delays.                                                             *)

(* Whatever the exponential delay is, the capped one is within MaxDelay.   *)
LEMMA CappedType == \A n : Capped(n) \in 0..MaxDelay
BY RetryAssumption DEF Capped

LEMMA PauseUnitsFinite ==
  ASSUME NEW n \in Nat
  PROVE  IsFiniteSet(PauseUnits(n)) /\ PausesAfter(n) \in Nat
<1>1. IsFiniteSet(0..(n - 1)) /\ IsFiniteSet(1..(2 * MaxDelay))
  BY FS_Interval, RetryAssumption
<1>2. IsFiniteSet((0..(n - 1)) \X (1..(2 * MaxDelay)))
  BY <1>1, FS_Product
<1>3. IsFiniteSet(PauseUnits(n))
  BY <1>2, FS_Subset DEF PauseUnits
<1> QED
  BY <1>3, FS_CardinalityType DEF PausesAfter

(* More attempts can take more sleeps.                                     *)
LEMMA PausesMonotone ==
  ASSUME NEW m \in Nat, NEW n \in Nat, m <= n
  PROVE  PausesAfter(m) <= PausesAfter(n)
<1>1. 0..(m - 1) \subseteq 0..(n - 1)
  OBVIOUS
<1>2. PauseUnits(m) \subseteq PauseUnits(n)
  BY <1>1 DEF PauseUnits
<1> QED
  BY <1>2, PauseUnitsFinite, FS_Subset DEF PausesAfter

(* The sleep after attempt n fits into what PausesAfter allows for it.     *)
LEMMA PauseFits ==
  ASSUME NEW n \in Nat, NEW d \in calculateDelay(n)
  PROVE  d \in Nat /\ PausesAfter(n) + d <= PausesAfter(n + 1)
<1>1. d \in Nat /\ 4 * d <= 5 * Capped(n) /\ d <= 2 * MaxDelay
  BY CappedType, RetryAssumption DEF calculateDelay, Jittered
<1> DEFINE mine == {n} \X (1..d)
<1>2. IsFiniteSet(mine) /\ Cardinality(mine) = d
  <2>1. IsFiniteSet({n}) /\ Cardinality({n}) = 1
    BY FS_Singleton
  <2>2. IsFiniteSet(1..d) /\ Cardinality(1..d) = d
    BY <1>1, FS_Interval
  <2>3. IsFiniteSet(mine) /\ Cardinality(mine) = Cardinality({n}) * Cardinality(1..d)
    BY <2>1, <2>2, FS_Product
  <2>4. Cardinality({n}) * Cardinality(1..d) = 1 * d
    BY <2>1, <2>2
  <2> QED
    BY <1>1, <2>3, <2>4
<1>3. PauseUnits(n) \cap mine = {}
  BY DEF PauseUnits
<1>4. PauseUnits(n) \cup mine \subseteq PauseUnits(n + 1)
  <2>1. PauseUnits(n) \subseteq PauseUnits(n + 1)
    <3>1. 0..(n - 1) \subseteq 0..((n + 1) - 1)
      OBVIOUS
    <3> QED
      BY <3>1 DEF PauseUnits
  <2>2. ASSUME NEW unit \in 1..d
        PROVE  <<n, unit>> \in PauseUnits(n + 1)
    <3>1. n \in 0..((n + 1) - 1) /\ unit \in 1..(2 * MaxDelay)
      BY <1>1, RetryAssumption
    <3>2. 4 * unit <= 5 * Capped(n)
      BY <1>1, CappedType
    <3> QED
      BY <3>1, <3>2 DEF PauseUnits
  <2> QED
    BY <2>1, <2>2
<1>5. Cardinality(PauseUnits(n) \cup mine) = PausesAfter(n) + d
  <2>1. Cardinality(PauseUnits(n) \cap mine) = 0
    BY <1>3, FS_EmptySet
  <2>2. IsFiniteSet(PauseUnits(n)) /\ Cardinality(PauseUnits(n)) \in Nat
    BY PauseUnitsFinite DEF PausesAfter
  <2> HIDE DEF mine
  <2>3. Cardinality(PauseUnits(n) \cup mine)
          = Cardinality(PauseUnits(n)) + Cardinality(mine)
              - Cardinality(PauseUnits(n) \cap mine)
    BY <1>2, <2>2, FS_Union
  <2> QED
    BY <1>1, <1>2, <2>1, <2>2, <2>3 DEF PausesAfter
<1>6. PausesAfter(n) + d <= PausesAfter(n + 1)
  <2> HIDE DEF mine
  <2> QED
    BY <1>4, <1>5, PauseUnitsFinite, FS_Subset DEF PausesAfter
<1> QED
  BY <1>1, <1>6

LEMMA WaitsSteps ==
  ASSUME NEW n \in Nat
  PROVE  /\ Waits(n) \in Nat /\ Waits(n + 1) = Waits(n) + QueueTimeout + BackendTimeout
         /\ n <= MaxAttempts => Waits(n) <= AllWaits
BY RetryAssumption DEF Waits, AllWaits

LEMMA BoundsType ==
  /\ AllPauses \in Nat /\ Longest \in Nat
  /\ LongestAge \in Nat /\ Longest <= LongestAge /\ WriteTimeout <= LongestAge
  /\ LongestOvertime \in Nat
  /\ AllPauses <= LongestOvertime /\ WriteTimeout <= LongestOvertime
<1>1. MaxAttempts - 1 \in Nat
  BY RetryAssumption
<1>2. AllPauses \in Nat
  BY <1>1, PauseUnitsFinite DEF AllPauses
<1>3. Longest \in Nat
  BY <1>2, RetryAssumption DEF AllWaits, Longest
<1> QED
  BY <1>2, <1>3, RetryAssumption DEF LongestAge, LongestOvertime, Larger

(* A sound request is within the bounds.                                   *)
LEMMA PacedBounded ==
  ASSUME NEW q \in Request, Sound(q), Paced(q)
  PROVE  q.age <= Longest /\ q.overtime <= AllPauses
<1> DEFINE n == q.attempt
<1> WaitsCounted(q) /\ OvertimeCounted(q) /\ ContextCounted(q) /\ Fresh(q)
  BY DEF Sound
<1>1. /\ n \in Nat /\ n + 1 \in Nat /\ n <= MaxAttempts - 1 /\ MaxAttempts - 1 \in Nat
      /\ q.timer \in Nat /\ q.age \in Nat /\ q.left \in Nat /\ q.overtime \in Nat
      /\ q.phase \in Phases /\ q.phase # "flushing"
  BY RetryAssumption, BoundsType DEF Request, Paced
<1> HIDE DEF n
<1>2. PausesAfter(n) \in Nat /\ PausesAfter(n) <= AllPauses
  BY <1>1, PauseUnitsFinite, PausesMonotone DEF AllPauses
<1>3. q.phase = "sleeping" =>
        PausesAfter(n + 1) \in Nat /\ PausesAfter(n + 1) <= AllPauses
  <2> SUFFICES ASSUME q.phase = "sleeping"
               PROVE  PausesAfter(n + 1) \in Nat /\ PausesAfter(n + 1) <= AllPauses
    OBVIOUS
  <2>1. n + 1 <= MaxAttempts - 1
    BY <1>1, RetryAssumption DEF WaitsCounted, n
  <2> QED
    BY <1>1, <2>1, PauseUnitsFinite, PausesMonotone DEF AllPauses
<1>4. q.overtime <= AllPauses
  BY <1>1, <1>2, <1>3, BoundsType DEF OvertimeCounted, n
<1>5. q.age <= RequestTimeout + AllPauses
  BY <1>1, <1>4, BoundsType, RetryAssumption DEF ContextCounted
<1>6. /\ Waits(n) \in Nat /\ Waits(n + 1) = Waits(n) + QueueTimeout + BackendTimeout
      /\ Waits(n + 1) <= AllWaits
  <2>1. n + 1 <= MaxAttempts
    BY <1>1, RetryAssumption
  <2> QED
    BY <1>1, <2>1, WaitsSteps
<1>7. q.age <= AllWaits + AllPauses
  <2>1. AllWaits \in Nat
    BY RetryAssumption DEF AllWaits
  <2> QED
    BY <1>1, <1>2, <1>3, <1>6, <2>1, BoundsType, RetryAssumption
       DEF WaitsCounted, Fresh, Phases, n
<1> QED
  BY <1>1, <1>4, <1>5, <1>7, <1>6, BoundsType, RetryAssumption DEF Longest

LEMMA SoundBounded ==
  ASSUME NEW q \in Request, Sound(q)
  PROVE  /\ q.age <= Longest \/ (q.stalled /\ q.age <= WriteTimeout)
         /\ q.overtime <= AllPauses \/ (q.stalled /\ q.overtime <= WriteTimeout)
         /\ q.age <= LongestAge /\ q.overtime <= LongestOvertime
<1>1. /\ q.age \in Nat /\ q.overtime \in Nat /\ q.stalled \in BOOLEAN
      /\ q.overtime <= q.age
  BY BoundsType DEF Request, Sound, WriteCounted
<1>2. CASE q.stalled
  <2>1. q.age <= WriteTimeout
    BY <1>2 DEF Sound, StallCounted
  <2> QED
    BY <1>1, <1>2, <2>1, BoundsType, RetryAssumption
<1>3. CASE ~ q.stalled /\ q.phase = "flushing"
  <2>1. q.age <= Longest /\ q.overtime = 0
    BY <1>3 DEF Sound, FlushCounted
  <2> QED
    BY <1>1, <2>1, BoundsType, RetryAssumption
<1>4. CASE Paced(q)
  BY <1>1, <1>4, PacedBounded, BoundsType
<1> QED
  BY <1>2, <1>3, <1>4 DEF Paced

----------------------------------------------------------------------------
(* The steps of one request.  Each lemma takes the record q of a request   *)
(* before the step and the record p after it.                              *)

\* p is sound, and if its time is counted then so was that of q.
Follows(q, p) ==
  /\ p \in Request /\ Sound(p)
  /\ p.phase \notin {"new", "held", "done"} =>
       q.phase \notin {"new", "held", "done"} /\ p.age = q.age

\* The step changes nothing that is counted.
Keeps(q, p) ==
  /\ p \in Request
  /\ p.left = q.left /\ p.writable = q.writable /\ p.stalled = q.stalled
  /\ p.age = q.age /\ p.overtime = q.overtime

LEMMA Counts ==
  ASSUME NEW q \in Request
  PROVE  /\ q.attempt \in Nat /\ q.attempt + 1 \in Nat /\ q.attempt <= MaxAttempts - 1
         /\ q.left \in Nat /\ q.timer \in Nat /\ q.age \in Nat /\ q.overtime \in Nat
         /\ Waits(q.attempt) \in Nat
         /\ Waits(q.attempt + 1) = Waits(q.attempt) + QueueTimeout + BackendTimeout
         /\ PausesAfter(q.attempt) \in Nat /\ PausesAfter(q.attempt + 1) \in Nat
         /\ PausesAfter(q.attempt) <= PausesAfter(q.attempt + 1)
<1>1. /\ q.attempt \in Nat /\ q.attempt + 1 \in Nat /\ q.attempt <= MaxAttempts - 1
      /\ q.left \in Nat /\ q.timer \in Nat /\ q.age \in Nat /\ q.overtime \in Nat
  BY RetryAssumption, BoundsType DEF Request
<1>2. Waits(q.attempt) \in Nat
      /\ Waits(q.attempt + 1) = Waits(q.attempt) + QueueTimeout + BackendTimeout
  BY <1>1, WaitsSteps
<1>3. /\ PausesAfter(q.attempt) \in Nat /\ PausesAfter(q.attempt + 1) \in Nat
      /\ PausesAfter(q.attempt) <= PausesAfter(q.attempt + 1)
  BY <1>1, PauseUnitsFinite, PausesMonotone
<1> QED
  BY <1>1, <1>2, <1>3

(* A request whose time is not counted is sound.                           *)
LEMMA UncountedSound ==
  ASSUME NEW phase \in {"new", "held", "done"}, NEW p, p = Uncounted(phase)
  PROVE  p \in Request /\ Sound(p) /\ p.phase = phase
<1>1. p = [phase |-> phase, attempt |-> 0, left |-> RequestTimeout, timer |-> 0,
           writable |-> WriteTimeout, failed |-> FALSE, stalled |-> FALSE,
           age |-> 0, overtime |-> 0]
  BY DEF Uncounted
<1>2. /\ p.phase = phase /\ p.attempt = 0 /\ p.left = RequestTimeout /\ p.timer = 0
      /\ p.writable = WriteTimeout /\ p.age = 0 /\ p.overtime = 0 /\ p.stalled = FALSE
  BY <1>1
<1>3. p \in Request
  <2>1. /\ 0 \in 0..(MaxAttempts - 1) /\ RequestTimeout \in 0..RequestTimeout
        /\ WriteTimeout \in 0..WriteTimeout
        /\ 0 \in 0..(LongestAge + 1) /\ 0 \in 0..(LongestOvertime + 1)
        /\ phase \in Phases
    BY BoundsType, RetryAssumption DEF Phases
  <2>2. [phase |-> phase, attempt |-> 0, left |-> RequestTimeout, timer |-> 0,
         writable |-> WriteTimeout, failed |-> FALSE, stalled |-> FALSE,
         age |-> 0, overtime |-> 0] \in Request
    BY <2>1 DEF Request
  <2> QED
    BY <1>1, <2>2, Zenon
<1>4. PausesAfter(0) \in Nat
  BY PauseUnitsFinite
<1>5. WaitsCounted(p) /\ OvertimeCounted(p) /\ ContextCounted(p)
  BY <1>2, <1>4, RetryAssumption DEF WaitsCounted, OvertimeCounted, ContextCounted
<1> QED
  BY <1>2, <1>3, <1>5, RetryAssumption
     DEF Sound, Fresh, WriteCounted, StallCounted, FlushCounted

LEMMA ArriveSound ==
  ASSUME NEW q \in Request, Sound(q), q.phase = "new",
         NEW p, p = [q EXCEPT !.phase = "attempting"]
  PROVE  p \in Request /\ Sound(p) /\ p.age = 0
<1>1. Keeps(q, p) /\ p.phase = "attempting" /\ p.attempt = q.attempt
  BY DEF Keeps, Request, Phases
<1>2. /\ q.attempt = 0 /\ q.left = RequestTimeout /\ q.age = 0 /\ q.overtime = 0
      /\ ~ q.stalled
  BY DEF Sound, Fresh
<1>3. WaitsCounted(p) /\ OvertimeCounted(p) /\ ContextCounted(p)
  BY <1>1, <1>2, Counts, RetryAssumption
     DEF Keeps, WaitsCounted, OvertimeCounted, ContextCounted
<1> QED
  BY <1>1, <1>2, <1>3
     DEF Keeps, Sound, Fresh, WriteCounted, StallCounted, FlushCounted

LEMMA ClientLeavesSound ==
  ASSUME NEW q \in Request, Sound(q), q.phase \notin {"new", "held", "done"},
         NEW p, p = [q EXCEPT !.left = 0]
  PROVE  Follows(q, p)
<1>1. /\ p \in Request /\ p.phase = q.phase /\ p.attempt = q.attempt /\ p.timer = q.timer
      /\ p.left = 0 /\ p.age = q.age /\ p.overtime = q.overtime
      /\ p.writable = q.writable /\ p.stalled = q.stalled /\ p.failed = q.failed
  BY RetryAssumption DEF Request
<1>2. ASSUME Paced(p)
      PROVE  WaitsCounted(p) /\ OvertimeCounted(p) /\ ContextCounted(p)
  <2>1. WaitsCounted(q) /\ OvertimeCounted(q) /\ ContextCounted(q)
    BY <1>1, <1>2 DEF Sound, Paced
  <2>2. p.age + p.left <= RequestTimeout + p.overtime
    BY <1>1, <2>1, Counts, RetryAssumption DEF ContextCounted
  <2> QED
    BY <1>1, <2>1, <2>2, Counts DEF WaitsCounted, OvertimeCounted, ContextCounted
<1> QED
  BY <1>1, <1>2
     DEF Follows, Sound, Fresh, WriteCounted, StallCounted, FlushCounted

\* An attempt that has failed; its request has not waited for its client.
Failing(q) == q.phase \in {"attempting", "waiting"} \/ (q.phase = "releasing" /\ q.failed)

(* A request whose attempt has failed can sleep, when it has another one.  *)
LEMMA SleepSound ==
  ASSUME NEW q \in Request, Sound(q), q.attempt < MaxAttempts - 1, Failing(q),
         NEW d \in calculateDelay(q.attempt),
         NEW p, p = [q EXCEPT !.phase = "sleeping", !.failed = FALSE, !.timer = d]
  PROVE  Follows(q, p)
<1>1. d \in Nat /\ PausesAfter(q.attempt) + d <= PausesAfter(q.attempt + 1)
  BY Counts, PauseFits
<1>2. Keeps(q, p) /\ p.phase = "sleeping" /\ p.attempt = q.attempt /\ p.timer = d
  BY <1>1 DEF Keeps, Request, Phases
<1>3. ~ q.stalled /\ Paced(q)
  BY DEF Sound, StallCounted, Failing, Paced
<1>4. q.age \in Nat /\ q.age <= Waits(q.attempt + 1) + PausesAfter(q.attempt)
  BY <1>3, Counts, RetryAssumption DEF Sound, WaitsCounted, Failing
<1>5. p.attempt + 1 < MaxAttempts
  BY <1>2, Counts, RetryAssumption
<1>6. p.age + p.timer <= Waits(p.attempt + 1) + PausesAfter(p.attempt + 1)
  <2>1. /\ Waits(q.attempt + 1) \in Int
        /\ PausesAfter(q.attempt) \in Nat /\ PausesAfter(q.attempt + 1) \in Nat
    BY Counts, RetryAssumption
  <2> QED
    BY <1>1, <1>2, <1>4, <2>1 DEF Keeps
<1>7. OvertimeCounted(p) /\ ContextCounted(p)
  <2>1. OvertimeCounted(q) /\ ContextCounted(q) /\ q.phase # "sleeping"
    BY <1>3 DEF Sound, Failing
  <2> QED
    BY <1>1, <1>2, <2>1, Counts DEF Keeps, OvertimeCounted, ContextCounted
<1> QED
  BY <1>2, <1>3, <1>5, <1>6, <1>7
     DEF Follows, Keeps, Sound, WaitsCounted, Fresh, WriteCounted, StallCounted,
         FlushCounted, Failing

(* After ServeHTTP only the flush remains.                                 *)
LEMMA FinishSound ==
  ASSUME NEW q \in Request, Sound(q),
         q.phase \in {"attempting", "waiting", "releasing"},
         NEW p, p = [q EXCEPT !.phase = "flushing", !.attempt = 0, !.left = 0,
                              !.timer = 0, !.failed = FALSE, !.overtime = 0]
  PROVE  Follows(q, p)
<1>1. /\ p \in Request /\ p.phase = "flushing" /\ p.overtime = 0 /\ ~ p.failed
      /\ p.age = q.age /\ p.writable = q.writable /\ p.stalled = q.stalled
  <2>1. /\ 0 \in 0..(MaxAttempts - 1) /\ 0 \in 0..RequestTimeout
        /\ 0 \in 0..(LongestOvertime + 1) /\ "flushing" \in Phases
    BY BoundsType, RetryAssumption DEF Phases
  <2> QED
    BY <2>1 DEF Request
<1>2. p.stalled \/ p.age <= Longest
  BY <1>1, SoundBounded
<1>3. 0 <= q.age
  BY Counts
<1> QED
  BY <1>1, <1>2, <1>3
     DEF Follows, Sound, Paced, Fresh, WriteCounted, StallCounted, FlushCounted

LEMMA EnqueueSound ==
  ASSUME NEW q \in Request, Sound(q), q.phase = "attempting",
         NEW p, p = [q EXCEPT !.phase = "waiting", !.timer = QueueTimeout]
  PROVE  Follows(q, p)
<1>1. /\ Keeps(q, p) /\ p.phase = "waiting" /\ p.attempt = q.attempt
      /\ p.timer = QueueTimeout
  BY RetryAssumption DEF Keeps, Request, Phases
<1>2. ~ q.stalled /\ Paced(q)
  BY DEF Sound, StallCounted, Paced
<1>3. WaitsCounted(p) /\ OvertimeCounted(p) /\ ContextCounted(p)
  BY <1>1, <1>2, Counts, RetryAssumption
     DEF Keeps, Sound, WaitsCounted, OvertimeCounted, ContextCounted
<1> QED
  BY <1>1, <1>2, <1>3
     DEF Follows, Keeps, Sound, Fresh, WriteCounted, StallCounted, FlushCounted

LEMMA CallSound ==
  ASSUME NEW q \in Request, Sound(q), q.phase \in {"attempting", "waiting"},
         NEW p, p = [q EXCEPT !.phase = "calling", !.timer = BackendTimeout]
  PROVE  Follows(q, p)
<1>1. /\ Keeps(q, p) /\ p.phase = "calling" /\ p.attempt = q.attempt
      /\ p.timer = BackendTimeout
  BY RetryAssumption DEF Keeps, Request, Phases
<1>2. ~ q.stalled /\ Paced(q)
  BY DEF Sound, StallCounted, Paced
<1>3. q.age <= Waits(q.attempt) + QueueTimeout + PausesAfter(q.attempt)
  BY <1>2, Counts, RetryAssumption DEF Sound, WaitsCounted
<1>4. WaitsCounted(p)
  BY <1>1, <1>3, Counts, RetryAssumption DEF Keeps, WaitsCounted
<1>5. OvertimeCounted(p) /\ ContextCounted(p)
  BY <1>1, <1>2, Counts DEF Keeps, Sound, OvertimeCounted, ContextCounted
<1> QED
  BY <1>1, <1>2, <1>4, <1>5
     DEF Follows, Keeps, Sound, Fresh, WriteCounted, StallCounted, FlushCounted

\* What the call returns with, to the phase it returns to.
Outcomes == {<<"releasing", TRUE>>, <<"replaying", FALSE>>, <<"releasing", FALSE>>}

LEMMA ReturnSound ==
  ASSUME NEW q \in Request, Sound(q), q.phase = "calling",
         NEW phase, NEW failed, <<phase, failed>> \in Outcomes,
         NEW p, p = [q EXCEPT !.phase = phase, !.timer = 0, !.failed = failed]
  PROVE  Follows(q, p)
<1>1. /\ phase \in {"releasing", "replaying"} /\ failed \in BOOLEAN
      /\ phase = "replaying" => ~ failed
  BY DEF Outcomes
<1>2. Keeps(q, p) /\ p.phase = phase /\ p.attempt = q.attempt /\ p.failed = failed
  BY <1>1 DEF Keeps, Request, Phases
<1>3. ~ q.stalled /\ Paced(q)
  BY DEF Sound, StallCounted, Paced
<1>4. q.age <= Waits(q.attempt + 1) + PausesAfter(q.attempt)
  BY <1>3, Counts, RetryAssumption DEF Sound, WaitsCounted
<1>5. WaitsCounted(p)
  BY <1>1, <1>2, <1>4 DEF Keeps, WaitsCounted
<1>6. OvertimeCounted(p) /\ ContextCounted(p)
  BY <1>1, <1>2, <1>3 DEF Keeps, Sound, OvertimeCounted, ContextCounted
<1> QED
  BY <1>1, <1>2, <1>3, <1>5, <1>6
     DEF Follows, Keeps, Sound, Fresh, WriteCounted, StallCounted, FlushCounted

LEMMA ReplayedSound ==
  ASSUME NEW q \in Request, Sound(q), q.phase = "replaying",
         NEW p, p = [q EXCEPT !.phase = "releasing"]
  PROVE  Follows(q, p)
<1>1. /\ Keeps(q, p) /\ p.phase = "releasing" /\ p.attempt = q.attempt
      /\ p.failed = q.failed
  BY DEF Keeps, Request, Phases
<1>2. Paced(p) => WaitsCounted(p) /\ OvertimeCounted(p) /\ ContextCounted(p)
  BY <1>1 DEF Keeps, Sound, Paced, WaitsCounted, OvertimeCounted, ContextCounted
<1> QED
  BY <1>1, <1>2
     DEF Follows, Keeps, Sound, Fresh, WriteCounted, StallCounted, FlushCounted

LEMMA WakeSound ==
  ASSUME NEW q \in Request, Sound(q), q.phase = "sleeping", q.timer = 0,
         NEW p, p = [q EXCEPT !.phase = "attempting", !.attempt = @ + 1]
  PROVE  Follows(q, p)
<1>1. ~ q.stalled /\ Paced(q)
  BY DEF Sound, StallCounted, Paced
<1>2. q.attempt + 1 < MaxAttempts
  BY <1>1 DEF Sound, WaitsCounted
<1>3. q.attempt + 1 \in 0..(MaxAttempts - 1)
  BY <1>2, Counts, RetryAssumption
<1>4. Keeps(q, p) /\ p.phase = "attempting" /\ p.attempt = q.attempt + 1
  BY <1>3 DEF Keeps, Request, Phases
<1>5. WaitsCounted(p) /\ OvertimeCounted(p) /\ ContextCounted(p)
  BY <1>1, <1>4, Counts
     DEF Keeps, Sound, WaitsCounted, OvertimeCounted, ContextCounted
<1> QED
  BY <1>1, <1>4, <1>5
     DEF Follows, Keeps, Sound, Fresh, WriteCounted, StallCounted, FlushCounted

(* What one request does leaves it sound.                                  *)
LEMMA FinishStep ==
  ASSUME RetryTypeOK, NEW r \in Requests, Sound(req[r]), Finish(r),
         req[r].phase \in {"attempting", "waiting", "releasing"}
  PROVE  \E p : Follows(req[r], p) /\ req' = [req EXCEPT ![r] = p]
<1> req[r] \in Request
  BY DEF RetryTypeOK
<1> DEFINE p == [req[r] EXCEPT !.phase = "flushing", !.attempt = 0, !.left = 0,
                               !.timer = 0, !.failed = FALSE, !.overtime = 0]
<1>1. req' = [req EXCEPT ![r] = p]
  BY DEF Finish, RetryTypeOK
<1>2. Follows(req[r], p)
  BY FinishSound
<1> HIDE DEF p
<1> QED
  BY <1>1, <1>2

LEMMA FailStep ==
  ASSUME RetryTypeOK, NEW r \in Requests, Sound(req[r]), Fail(r), Failing(req[r])
  PROVE  \E p : Follows(req[r], p) /\ req' = [req EXCEPT ![r] = p]
<1> req[r] \in Request
  BY DEF RetryTypeOK
<1>1. CASE req[r].attempt < MaxAttempts - 1
  <2>1. PICK d \in calculateDelay(req[r].attempt) :
          req' = [req EXCEPT ![r].phase = "sleeping", ![r].failed = FALSE, ![r].timer = d]
    BY <1>1 DEF Fail, FailBefore
  <2> DEFINE p == [req[r] EXCEPT !.phase = "sleeping", !.failed = FALSE, !.timer = d]
  <2>2. req' = [req EXCEPT ![r] = p]
    BY <2>1 DEF RetryTypeOK, Request
  <2>3. Follows(req[r], p)
    BY <1>1, SleepSound
  <2> HIDE DEF p
  <2> QED
    BY <2>2, <2>3
<1>2. CASE ~ (req[r].attempt < MaxAttempts - 1)
  <2>1. Finish(r) /\ req[r].phase \in {"attempting", "waiting", "releasing"}
    BY <1>2 DEF Fail, FailBefore, Failing
  <2> QED
    BY <2>1, FinishStep
<1> QED
  BY <1>1, <1>2

LEMMA CloseStep ==
  ASSUME NEW r \in Requests, NEW phase \in {"held", "done"}, Close(r, phase)
  PROVE  \E p : Follows(req[r], p) /\ req' = [req EXCEPT ![r] = p]
<1> DEFINE p == Uncounted(phase)
<1>1. req' = [req EXCEPT ![r] = p]
  BY DEF Close
<1>2. Follows(req[r], p)
  BY UncountedSound DEF Follows
<1> HIDE DEF p
<1> QED
  BY <1>1, <1>2

LEMMA ReturnStep ==
  ASSUME RetryTypeOK, NEW r \in Requests, Sound(req[r]), At(r, "calling"),
         NEW phase, NEW failed, <<phase, failed>> \in Outcomes,
         Return(r, phase, failed)
  PROVE  \E p : Follows(req[r], p) /\ req' = [req EXCEPT ![r] = p]
<1> req[r] \in Request
  BY DEF RetryTypeOK
<1> DEFINE p == [req[r] EXCEPT !.phase = phase, !.timer = 0, !.failed = failed]
<1>1. req' = [req EXCEPT ![r] = p]
  BY DEF Return, RetryTypeOK, Request
<1>2. Follows(req[r], p)
  BY ReturnSound DEF At
<1> HIDE DEF p
<1> QED
  BY <1>1, <1>2

LEMMA RequestStep ==
  ASSUME RetryTypeOK, NEW r \in Requests, Sound(req[r]), Proceed(r) \/ React(r)
  PROVE  \E p : Follows(req[r], p) /\ req' = [req EXCEPT ![r] = p]
<1> req[r] \in Request
  BY DEF RetryTypeOK
<1>1. CASE Refuse(r)
  BY <1>1, FailStep DEF Refuse, At, Failing
<1>2. CASE GiveUp(r)
  BY <1>2, FailStep DEF GiveUp, At, Failing
<1>3. CASE Released(r)
  <2>1. CASE req[r].failed
    BY <1>3, <2>1, FailStep DEF Released, At, Failing
  <2>2. CASE ~ req[r].failed
    BY <1>3, <2>2, FinishStep DEF Released, At
  <2> QED
    BY <2>1, <2>2
<1>4. CASE Enqueue(r)
  <2> DEFINE p == [req[r] EXCEPT !.phase = "waiting", !.timer = QueueTimeout]
  <2>1. req' = [req EXCEPT ![r] = p]
    BY <1>4 DEF Enqueue, RetryTypeOK, Request
  <2>2. Follows(req[r], p)
    BY <1>4, EnqueueSound DEF Enqueue, At
  <2> HIDE DEF p
  <2> QED
    BY <2>1, <2>2
<1>5. CASE Acquire(r)
  <2> DEFINE p == [req[r] EXCEPT !.phase = "calling", !.timer = BackendTimeout]
  <2>1. req' = [req EXCEPT ![r] = p]
    BY <1>5 DEF Acquire, Call, RetryTypeOK, Request
  <2>2. Follows(req[r], p)
    BY <1>5, CallSound DEF Acquire
  <2> HIDE DEF p
  <2> QED
    BY <2>1, <2>2
<1>6. CASE BackendAnswers(r) \/ CallTimesOut(r)
  <2>1. /\ At(r, "calling")
        /\ \/ Return(r, "releasing", TRUE)
           \/ Return(r, "replaying", FALSE)
           \/ Return(r, "releasing", FALSE)
    BY <1>6 DEF BackendAnswers, CallTimesOut
  <2>2. /\ <<"releasing", TRUE>> \in Outcomes
        /\ <<"replaying", FALSE>> \in Outcomes
        /\ <<"releasing", FALSE>> \in Outcomes
    BY DEF Outcomes
  <2> QED
    BY <2>1, <2>2, ReturnStep
<1>7. CASE ClientLeaves(r)
  <2> DEFINE p == [req[r] EXCEPT !.left = 0]
  <2>1. req' = [req EXCEPT ![r] = p]
    BY <1>7 DEF ClientLeaves, RetryTypeOK, Request
  <2>2. Follows(req[r], p)
    BY <1>7, ClientLeavesSound DEF ClientLeaves, Timed
  <2> HIDE DEF p
  <2> QED
    BY <2>1, <2>2
<1>8. CASE Hold(r) \/ LetGo(r) \/ Flushed(r)
  BY <1>8, CloseStep DEF Hold, LetGo, Flushed
<1>9. CASE Wake(r)
  <2> DEFINE p == [req[r] EXCEPT !.phase = "attempting", !.attempt = @ + 1]
  <2>1. req' = [req EXCEPT ![r] = p]
    BY <1>9 DEF Wake, RetryTypeOK, Request
  <2>2. Follows(req[r], p)
    BY <1>9, WakeSound DEF Wake, At
  <2> HIDE DEF p
  <2> QED
    BY <2>1, <2>2
<1>10. CASE Replayed(r)
  <2> DEFINE p == [req[r] EXCEPT !.phase = "releasing"]
  <2>1. req' = [req EXCEPT ![r] = p]
    BY <1>10 DEF Replayed, RetryTypeOK, Request
  <2>2. Follows(req[r], p)
    BY <1>10, ReplayedSound DEF Replayed, At
  <2> HIDE DEF p
  <2> QED
    BY <2>1, <2>2
<1> QED
  BY <1>1, <1>2, <1>3, <1>4, <1>5, <1>6, <1>7, <1>8, <1>9, <1>10
     DEF Proceed, React, WriteEnds

(* The client's time: the deadline of writes comes nearer as the request    *)
(* grows older.                                                            *)
LEMMA WritingElapses ==
  ASSUME NEW q \in Request, Sound(q), NEW p \in Request,
         q.phase \in Writing, q.writable > 0,
         p.phase = q.phase, p.failed = q.failed, p.stalled = TRUE,
         p.age = q.age + 1, p.writable = q.writable - 1,
         p.overtime = q.overtime \/ (q.phase = "replaying" /\ p.overtime = q.overtime + 1)
  PROVE  Sound(p)
<1>1. /\ q.age \in Nat /\ q.overtime \in Nat /\ q.writable \in Nat
      /\ q.age + q.writable <= WriteTimeout /\ q.overtime <= q.age
      /\ q.phase = "replaying" \/ (q.phase = "flushing" /\ q.overtime = 0)
      /\ ~ q.failed
  BY Counts, RetryAssumption
     DEF Request, Sound, WriteCounted, FlushCounted, Writing
<1>2. WriteCounted(p) /\ p.age <= WriteTimeout
  BY <1>1, RetryAssumption DEF WriteCounted
<1>3. StallCounted(p) /\ FlushCounted(p) /\ Fresh(p) /\ ~ Paced(p)
  BY <1>1, <1>2 DEF StallCounted, FlushCounted, Fresh, Paced
<1> QED
  BY <1>2, <1>3 DEF Sound

(* Time passes only where a timer, or nobody, limits the wait.             *)
LEMMA PacedElapses ==
  ASSUME NEW q \in Request, Sound(q), NEW p \in Request,
         q.phase \in {"waiting", "calling"} => q.timer # 0 /\ q.left # 0,
         q.phase = "sleeping" => q.timer > 0,
         q.phase \in {"waiting", "calling", "sleeping"},
         p.phase = q.phase, p.attempt = q.attempt, p.stalled = q.stalled,
         p.left = (IF q.left > 0 THEN q.left - 1 ELSE 0),
         p.timer = (IF q.timer > 0 THEN q.timer - 1 ELSE 0),
         p.writable = (IF q.writable > 0 THEN q.writable - 1 ELSE 0),
         p.age = q.age + 1,
         p.overtime = (IF q.left = 0 THEN q.overtime + 1 ELSE q.overtime)
  PROVE  Sound(p)
<1>1. /\ ~ q.stalled /\ WriteCounted(q)
      /\ WaitsCounted(q) /\ OvertimeCounted(q) /\ ContextCounted(q)
  BY DEF Sound, StallCounted, Paced
<1>2. q.writable \in Nat
  BY RetryAssumption DEF Request
<1>3. /\ q.attempt \in Nat /\ q.attempt + 1 \in Nat
      /\ q.left \in Nat /\ q.timer \in Nat /\ q.age \in Nat /\ q.overtime \in Nat
  BY Counts
<1>4. WaitsCounted(p)
  <2>1. p.age + p.timer <= q.age + q.timer
    BY <1>3
  <2>2. p.age + p.timer \in Int /\ q.age + q.timer \in Int
    BY <1>3
  <2>3. /\ Waits(q.attempt) + QueueTimeout + PausesAfter(q.attempt) \in Int
        /\ Waits(q.attempt + 1) + PausesAfter(q.attempt) \in Int
        /\ Waits(q.attempt + 1) + PausesAfter(q.attempt + 1) \in Int
    BY Counts, RetryAssumption
  <2>4. CASE q.phase = "waiting"
    BY <1>1, <2>1, <2>2, <2>3, <2>4 DEF WaitsCounted
  <2>5. CASE q.phase = "calling"
    BY <1>1, <2>1, <2>2, <2>3, <2>5 DEF WaitsCounted
  <2>6. CASE q.phase = "sleeping"
    BY <1>1, <2>1, <2>2, <2>3, <2>6 DEF WaitsCounted
  <2> QED
    BY <2>4, <2>5, <2>6
<1>5. OvertimeCounted(p)
  BY <1>1, <1>3, Counts DEF OvertimeCounted
<1>6. ContextCounted(p)
  BY <1>1, <1>3, RetryAssumption DEF OvertimeCounted, ContextCounted
<1>7. WriteCounted(p)
  BY <1>1, <1>2, <1>3, RetryAssumption DEF WriteCounted
<1>8. Fresh(p) /\ StallCounted(p) /\ FlushCounted(p)
  BY <1>1 DEF Fresh, StallCounted, FlushCounted
<1> QED
  BY <1>4, <1>5, <1>6, <1>7, <1>8 DEF Sound

LEMMA ElapseSound ==
  ASSUME RetryTypeOK, NEW r \in Requests, Sound(req[r]), Patient(r)
  PROVE  /\ Elapse(r) \in Request /\ Sound(Elapse(r))
         /\ Elapse(r).phase = req[r].phase
         /\ Timed(r) => Elapse(r).age = req[r].age + 1
<1> DEFINE q == req[r]
           p == Elapse(r)
<1> q \in Request
  BY DEF RetryTypeOK
<1>1. CASE ~ Timed(r)
  BY <1>1 DEF Elapse, ElapseTo
<1>2. CASE Timed(r)
  <2>1. q.age <= LongestAge /\ q.overtime <= LongestOvertime
    BY SoundBounded
  <2>2. /\ p.phase = q.phase /\ p.attempt = q.attempt /\ p.failed = q.failed
        /\ p.left = Less(q.left) /\ p.timer = Less(q.timer)
        /\ p.writable = Less(q.writable)
        /\ p.stalled = (q.stalled \/ q.phase \in Writing)
        /\ p.age = q.age + 1
        /\ p.overtime = IF q.left = 0 /\ q.phase # "flushing" THEN q.overtime + 1
                                                           ELSE q.overtime
        /\ p = [phase |-> p.phase, attempt |-> p.attempt, left |-> p.left,
                timer |-> p.timer, writable |-> p.writable, failed |-> p.failed,
                stalled |-> p.stalled, age |-> p.age, overtime |-> p.overtime]
    BY <1>2, <2>1 DEF Elapse, ElapseTo, Request, Ended, Overdue, At
  <2>3. /\ p.left = (IF q.left > 0 THEN q.left - 1 ELSE 0)
        /\ p.timer = (IF q.timer > 0 THEN q.timer - 1 ELSE 0)
        /\ p.writable = (IF q.writable > 0 THEN q.writable - 1 ELSE 0)
    BY <2>2 DEF Less
  <2>4. /\ q.phase \in {"waiting", "calling"} => q.timer # 0 /\ q.left # 0
        /\ q.phase = "sleeping" => q.timer > 0
        /\ q.phase \in Writing => q.writable > 0
        /\ q.phase \in {"waiting", "calling", "sleeping"} \cup Writing
    BY <1>2 DEF Patient, TimedOut, Ended, At, Timed, Request, Phases, Writing
  <2> HIDE DEF q, p
  <2>5. p \in Request
    <3>1. /\ p.left \in 0..RequestTimeout /\ p.timer \in Nat
          /\ p.writable \in 0..WriteTimeout
      BY <2>3, RetryAssumption DEF Request
    <3>2. p.age \in 0..(LongestAge + 1) /\ p.overtime \in 0..(LongestOvertime + 1)
      BY <2>1, <2>2, Counts, BoundsType
    <3>3. p.stalled \in BOOLEAN
      BY <2>2 DEF Request
    <3> QED
      BY <2>2, <3>1, <3>2, <3>3 DEF Request
  <2>6. Sound(q)
    BY DEF q
  <2>7. CASE q.phase \in Writing
    <3>1. p.writable = q.writable - 1
      BY <2>3, <2>4, <2>7
    <3>2. p.overtime = q.overtime
            \/ (q.phase = "replaying" /\ p.overtime = q.overtime + 1)
      BY <2>2, <2>7 DEF Writing
    <3>3. p.stalled = TRUE
      BY <2>2, <2>7
    <3>4. Sound(p)
      BY <2>2, <2>4, <2>5, <2>6, <2>7, <3>1, <3>2, <3>3, WritingElapses
    <3> QED
      BY <2>2, <2>5, <3>4 DEF p, q
  <2>8. CASE q.phase \in {"waiting", "calling", "sleeping"}
    <3>1. /\ p.stalled = q.stalled
          /\ p.overtime = (IF q.left = 0 THEN q.overtime + 1 ELSE q.overtime)
      BY <2>2, <2>8 DEF Writing, Request
    <3>2. Sound(p)
      BY <2>2, <2>3, <2>4, <2>5, <2>6, <2>8, <3>1, PacedElapses
    <3> QED
      BY <2>2, <2>5, <3>2 DEF p, q
  <2> QED
    BY <2>4, <2>7, <2>8
<1> QED
  BY <1>1, <1>2

----------------------------------------------------------------------------
(* The process.                                                            *)

LEMMA InitInv == Init => Inv
<1> SUFFICES ASSUME Init PROVE Inv
  OBVIOUS
<1>1. NewRequest \in Request /\ Sound(NewRequest) /\ NewRequest.phase = "new"
  BY UncountedSound DEF NewRequest
<1>2. RetryTypeOK /\ \A r \in Requests : Sound(req[r])
  BY <1>1 DEF Init, RetryInit, RetryTypeOK
<1>3. grace \in 0..Grace /\ Draining
  BY GatewayAssumption DEF Init, Draining
<1> QED
  BY <1>2, <1>3 DEF Inv, TypeOK, Init

(* One request moves, and the process does not.                            *)
LEMMA MovesInv ==
  ASSUME Inv, NEW r \in Requests, NEW p \in Request, Sound(p),
         req' = [req EXCEPT ![r] = p],
         UNCHANGED <<main, listener, quit, signalled, grace, exit>>,
         main = "draining" /\ p.phase \notin {"new", "held", "done"} =>
           Grace - grace <= FreshLimit + p.age
  PROVE  Inv'
<1>1. req \in [Requests -> Request] /\ TypeOK
  BY DEF Inv, TypeOK, RetryTypeOK
<1>2. req' \in [Requests -> Request] /\ \A s \in Requests : req'[s] = IF s = r THEN p ELSE req[s]
  BY <1>1
<1>3. TypeOK'
  BY <1>1, <1>2 DEF TypeOK, RetryTypeOK
<1>4. \A s \in Requests : Sound(req'[s])
  BY <1>2 DEF Inv
<1>5. Draining'
  BY <1>2 DEF Inv, Draining, Timed
<1> QED
  BY <1>3, <1>4, <1>5 DEF Inv

(* The requests stay as they are.                                          *)
LEMMA StaysInv ==
  ASSUME Inv, UNCHANGED <<req, grace, exit>>,
         main' \in {"preparing", "prepared", "spawned", "notified", "draining"},
         listener' \in {"none", "spawned", "open", "closed"},
         quit' \in BOOLEAN, signalled' \in BOOLEAN,
         main = "draining" => main' = "draining",
         main' = "draining" => listener' \in {"none", "closed"}
  PROVE  Inv'
<1>1. TypeOK'
  BY DEF Inv, TypeOK, RetryTypeOK
<1>2. \A r \in Requests : Sound(req'[r])
  BY DEF Inv
<1>3. Draining'
  <2>1. CASE main = "draining"
    BY <2>1 DEF Inv, Draining, Timed
  <2>2. CASE main # "draining"
    <3>1. \A r \in Requests : req[r].age \in Nat
      BY BoundsType DEF Inv, TypeOK, RetryTypeOK, Request
    <3>2. grace' = Grace
      BY <2>2 DEF Inv, Draining
    <3>3. \A r \in Requests : Grace - grace' <= FreshLimit + req'[r].age
      BY <3>1, <3>2, GatewayAssumption
    <3> QED
      BY <3>2, <3>3 DEF Draining
  <2> QED
    BY <2>1, <2>2
<1> QED
  BY <1>1, <1>2, <1>3 DEF Inv

(* The process ends.                                                       *)
LEMMA StopInv ==
  ASSUME Inv, NEW how \in {"fatal", "killed", "clean", "forced"}, Stop(how)
  PROVE  Inv'
<1>1. NewRequest \in Request /\ Sound(NewRequest) /\ NewRequest.phase = "new"
  BY UncountedSound DEF NewRequest
<1>2. RetryTypeOK' /\ \A r \in Requests : Sound(req'[r]) /\ ~ Timed(r)'
  BY <1>1 DEF Stop, RetryTypeOK, Timed
<1>3. TypeOK'
  BY <1>2 DEF Stop, Inv, TypeOK
<1>4. Draining'
  BY <1>2 DEF Stop, Inv, Draining
<1> QED
  BY <1>2, <1>3, <1>4 DEF Inv

LEMMA TickInv ==
  ASSUME Inv, Tick
  PROVE  Inv'
<1> USE DEF Inv, Tick, RetryTick
<1>1. \A r \in Requests :
        /\ req'[r] \in Request /\ Sound(req'[r])
        /\ req'[r].phase = req[r].phase
        /\ Timed(r) => req'[r].age = req[r].age + 1
  BY ElapseSound DEF TypeOK
<1>2. RetryTypeOK'
  BY <1>1 DEF RetryTypeOK
<1>3. grace \in 0..Grace /\ grace' \in 0..Grace
  BY GatewayAssumption DEF TypeOK
<1>4. TypeOK'
  BY <1>2, <1>3 DEF TypeOK
<1>5. Draining'
  <2>1. CASE main # "draining"
    BY <2>1 DEF Draining
  <2>2. CASE main = "draining"
    <3> SUFFICES ASSUME NEW r \in Requests, Timed(r)'
                 PROVE  Grace - grace' <= FreshLimit + req'[r].age
      BY <2>2 DEF Draining
    <3>1. Timed(r)
      BY <1>1 DEF Timed
    <3>2. req'[r].age = req[r].age + 1 /\ Grace - grace <= FreshLimit + req[r].age
      BY <1>1, <2>2, <3>1 DEF Draining
    <3>3. req[r].age \in Nat
      BY BoundsType DEF TypeOK, RetryTypeOK, Request
    <3>4. grace' = grace - 1
      BY <2>2
    <3> QED
      BY <1>3, <3>2, <3>3, <3>4, GatewayAssumption
  <2> QED
    BY <2>1, <2>2
<1> QED
  BY <1>1, <1>4, <1>5

LEMMA NextInv == Inv /\ [Next]_vars => Inv'
<1> SUFFICES ASSUME Inv, [Next]_vars PROVE Inv'
  OBVIOUS
<1>1. CASE Prepare \/ SpawnServer \/ Notify \/ BeginShutdown \/ Listen \/ Signal
  BY <1>1, StaysInv
     DEF Prepare, SpawnServer, Notify, BeginShutdown, Listen, Signal, MainGoes,
         Inv, TypeOK, Draining
<1>2. CASE PrepareFails \/ FinishShutdown \/ ExpireShutdown \/ ListenFails \/ SignalKills
  BY <1>2, StopInv DEF PrepareFails, FinishShutdown, ExpireShutdown, ListenFails, SignalKills
<1>3. ASSUME NEW r \in Requests, Serve(r)
      PROVE  Inv'
  <2> DEFINE p == [req[r] EXCEPT !.phase = "attempting"]
  <2>1. req[r] \in Request /\ Sound(req[r]) /\ req[r].phase = "new"
    BY <1>3 DEF Serve, Arrive, At, Inv, TypeOK, RetryTypeOK
  <2>2. p \in Request /\ Sound(p) /\ p.age = 0
    BY <2>1, ArriveSound
  <2>3. req' = [req EXCEPT ![r] = p]
    BY <1>3 DEF Serve, Arrive, Inv, TypeOK, RetryTypeOK, Request
  <2>4. main = "draining" => Grace - grace <= FreshLimit + p.age
    <3>1. main = "draining" => Grace - grace <= FreshLimit
      BY <1>3 DEF Serve, Inv, Draining
    <3> QED
      BY <2>2, <3>1, GatewayAssumption
  <2> HIDE DEF p
  <2> QED
    BY <1>3, <2>2, <2>3, <2>4, MovesInv DEF Serve
<1>4. ASSUME NEW r \in Requests, Requested(r, Proceed(r)) \/ Requested(r, React(r))
      PROVE  Inv'
  <2>1. (Proceed(r) \/ React(r)) /\ UNCHANGED <<main, listener, quit, signalled, grace, exit>>
    BY <1>4 DEF Requested
  <2>2. PICK p : Follows(req[r], p) /\ req' = [req EXCEPT ![r] = p]
    BY <2>1, RequestStep DEF Inv, TypeOK
  <2>3. main = "draining" /\ p.phase \notin {"new", "held", "done"} =>
          Grace - grace <= FreshLimit + p.age
    BY <2>2 DEF Follows, Inv, Draining, Timed
  <2> QED
    BY <2>1, <2>2, <2>3, MovesInv DEF Follows
<1>5. CASE Tick
  BY <1>5, TickInv
<1>6. CASE UNCHANGED vars
  BY <1>6, StaysInv DEF vars, Inv, TypeOK, Draining
<1> QED
  BY <1>1, <1>2, <1>3, <1>4, <1>5, <1>6 DEF Next, MainStep

(* Type correctness of the process and of its requests.                    *)
THEOREM TypeCorrect == Spec => []TypeOK
<1>1. Inv => TypeOK
  BY DEF Inv
<1> QED
  BY InitInv, NextInv, <1>1, PTL DEF Spec

(* A request goes on, after its client has left or its context has ended,  *)
(* for no longer than all its sleeps together, unless it waits in Release, *)
(* or for a slow client, which it does not do beyond WriteTimeout          *)
(* (retry.go:34-64, main.go:94).                                           *)
THEOREM OvertimeIsBounded == Spec => []OvertimeBounded
<1>1. Inv => OvertimeBounded
  BY SoundBounded DEF Inv, TypeOK, RetryTypeOK, OvertimeBounded
<1> QED
  BY InitInv, NextInv, <1>1, PTL DEF Spec

(* Unless it waits in Release, or for a slow client until WriteTimeout, a  *)
(* request lasts no longer than its attempts and sleeps may, nor longer    *)
(* than its context and its sleeps (timeout.go:9, main.go:94).             *)
THEOREM RequestsDoEnd == Spec => []RequestsEnd
<1>1. Inv => RequestsEnd
  BY SoundBounded DEF Inv, TypeOK, RetryTypeOK, RequestsEnd
<1> QED
  BY InitInv, NextInv, <1>1, PTL DEF Spec

(* If the grace is longer than a first request on an accepted connection   *)
(* and its attempts and sleeps may take, and no shorter than WriteTimeout, *)
(* a shutdown cuts off no request, but for one that has waited in Release  *)
(* and one that came after the shutdown began and has waited for a slow    *)
(* client (main.go:94, main.go:105-113).                                   *)
THEOREM NoRequestIsCutOff ==
  ASSUME GraceSuffices
  PROVE  Spec => NoRequestCutOff
<1> DEFINE Spares == Running /\ exit' \in {"clean", "forced"} =>
                      \A r \in Requests : InProgress(r) =>
                        At(r, "held") \/ (req[r].stalled /\ req[r].age <= Grace)
<1>1. Inv /\ [Next]_vars => [Spares]_vars
  <2> SUFFICES ASSUME Inv, Next, Running, exit' \in {"clean", "forced"},
                      NEW r \in Requests, InProgress(r), ~ At(r, "held")
               PROVE  req[r].stalled /\ req[r].age <= Grace
    OBVIOUS
  <2>1. FinishShutdown \/ ExpireShutdown
    BY DEF Next, MainStep, Running, Prepare, PrepareFails, SpawnServer, Notify,
           BeginShutdown, Listen, ListenFails, Serve, Requested, SignalKills, Signal,
           Tick, Stop, MainGoes
  <2>2. ExpireShutdown
    BY <2>1 DEF FinishShutdown
  <2>3. Timed(r)
    BY DEF Timed, InProgress, At
  <2>4. grace = 0 /\ Grace - grace <= FreshLimit + req[r].age
    BY <2>2, <2>3 DEF ExpireShutdown, Inv, Draining
  <2>5. /\ req[r].age <= Longest \/ (req[r].stalled /\ req[r].age <= WriteTimeout)
        /\ req[r].age \in Nat
    BY SoundBounded, BoundsType DEF Inv, TypeOK, RetryTypeOK, Request
  <2>6. ~ (req[r].age <= Longest)
    BY <2>4, <2>5, BoundsType, GatewayAssumption DEF GraceSuffices
  <2>7. req[r].age <= Grace
    BY <2>5, <2>6, RetryAssumption, GatewayAssumption DEF GraceSuffices
  <2> QED
    BY <2>5, <2>6, <2>7
<1> QED
  BY InitInv, NextInv, <1>1, PTL DEF Spec, NoRequestCutOff
=============================================================================

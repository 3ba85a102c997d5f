--------------------------- MODULE HealthChecker ---------------------------
(***************************************************************************)
(* The health checker (internal/gateway/healthchecker.go) and the registry *)
(* it works on.  At every tick it ranges over the registry's maps and      *)
(* starts a goroutine for each instance; the goroutine calls the instance  *)
(* and applies the result under hc.mutex, inside which it takes the        *)
(* registry's lock.                                                        *)
(*                                                                         *)
(* The range holds hc.mutex but not the registry's lock.  So clients may   *)
(* register and deregister while it runs: Go then either aborts the        *)
(* process ("concurrent map iteration and map write") or goes on, where    *)
(* an entry added in the meantime may be visited or not.                   *)
(*                                                                         *)
(* A call of an instance may end with any result at any time.  Goroutines  *)
(* for the same instance and at the same place are only counted.           *)
(***************************************************************************)
EXTENDS Registry

CONSTANTS
  FailureLimit,  \* HealthCheckConfig.FailureLimit
  MaxChecks      \* bound: checks of one instance at a time

\* A result on its way to the registry.
Update == [instance : Instances, health : {"healthy", "unhealthy"}]

ASSUME HealthCheckerAssumption ==
  /\ None \notin Update
  /\ FailureLimit \in Nat \ {0}
  /\ MaxChecks \in Nat \ {0}

VARIABLES
  sweep,     \* "idle", "due" after a tick, "running" in the range loops
  unseen,    \* the instances the range must still visit, if their key remains
  added,     \* the instances it may visit: their keys came after its start
  calls,     \* calls[x]: goroutines in checkService(x)
  verdicts,  \* verdicts[x][v]: goroutines with result v, before hc.mutex
  updating,  \* what the holder of hc.mutex wants of the registry, or None
  failures,  \* failures[i]: hc.failures, counted up to FailureLimit
  crashed,   \* the process has aborted
  streak,    \* history: streak[x], failed checks of x since its last success
  checked    \* history: the instances that have got their health from a check

checkerVars == <<sweep, unseen, added, calls, verdicts, updating, failures,
                 streak, checked>>
vars == <<registryVars, checkerVars, crashed>>

Init ==
  /\ RegistryInit
  /\ sweep = "idle"
  /\ unseen = {}
  /\ added = {}
  /\ calls = [x \in Instances |-> 0]
  /\ verdicts = [x \in Instances |-> [v \in BOOLEAN |-> 0]]
  /\ updating = None
  /\ failures = [i \in {IdOf[x] : x \in Instances} |-> 0]
  /\ crashed = FALSE
  /\ streak = [x \in Instances |-> 0]
  /\ checked = {}

----------------------------------------------------------------------------
(* The clients of the registry.                                            *)

\* A write of the maps while the range runs.
MayCrash ==
  IF sweep = "running" THEN crashed' \in BOOLEAN ELSE UNCHANGED crashed

\* What is under a key when the range comes to it is what the range visits.
Register(x, h) ==
  /\ RegisterService(x, h)
  /\ LET replaces(set) == Current(x) \cap set # {} IN
       /\ unseen' = IF replaces(unseen) THEN (unseen \ Current(x)) \cup {x}
                                        ELSE unseen
       /\ added' = IF sweep = "running" /\ (Current(x) = {} \/ replaces(added))
                   THEN (added \ Current(x)) \cup {x} ELSE added
  /\ MayCrash
  /\ UNCHANGED <<sweep, calls, verdicts, updating, failures, streak, checked>>

Deregister(x) ==
  /\ DeregisterService(x)
  /\ unseen' = unseen \ {x}
  /\ added' = added \ {x}
  /\ MayCrash
  /\ UNCHANGED <<sweep, calls, verdicts, updating, failures, streak, checked>>

\* A writer that waits for the registry's lock keeps new readers out.
GetAllServices(c) ==
  /\ updating = None
  /\ ListAll(c)
  /\ UNCHANGED <<checkerVars, crashed>>

GotAllServices(c) ==
  /\ ListedAll(c)
  /\ UNCHANGED <<checkerVars, crashed>>

----------------------------------------------------------------------------
(* Start: the loop of the checker.                                         *)

Checks(x) == calls[x] + verdicts[x][TRUE] + verdicts[x][FALSE]

Tick ==
  /\ sweep = "idle"
  /\ \A x \in Instances : Checks(x) < MaxChecks
  /\ sweep' = "due"
  /\ UNCHANGED <<registryVars, unseen, added, calls, verdicts, updating,
                 failures, crashed, streak, checked>>

BeginSweep ==
  /\ sweep = "due"
  /\ updating = None
  /\ sweep' = "running"
  /\ unseen' = services
  /\ UNCHANGED <<registryVars, added, calls, verdicts, updating, failures,
                 crashed, streak, checked>>

Visit(x) ==
  /\ sweep = "running"
  /\ x \in unseen \cup added
  /\ unseen' = unseen \ {x}
  /\ added' = added \ {x}
  /\ calls' = [calls EXCEPT ![x] = @ + 1]
  /\ UNCHANGED <<registryVars, sweep, verdicts, updating, failures, crashed,
                 streak, checked>>

EndSweep ==
  /\ sweep = "running"
  /\ unseen = {}
  /\ sweep' = "idle"
  /\ added' = {}
  /\ UNCHANGED <<registryVars, unseen, calls, verdicts, updating, failures,
                 crashed, streak, checked>>

----------------------------------------------------------------------------
(* The goroutine of a check.                                               *)

\* Mutant of CheckService: both a failure and, deferred, a success come back.
CheckServiceTwice(x, v) ==
  /\ calls[x] > 0
  /\ calls' = [calls EXCEPT ![x] = @ - 1]
  /\ verdicts' = [verdicts EXCEPT ![x] = [w \in BOOLEAN |-> @[w] + 1]]
  /\ UNCHANGED <<registryVars, sweep, unseen, added, updating, failures,
                 crashed, streak, checked>>

\* checkService(x) returns v.
CheckService(x, v) ==
  /\ calls[x] > 0
  /\ calls' = [calls EXCEPT ![x] = @ - 1]
  /\ verdicts' = [verdicts EXCEPT ![x][v] = @ + 1]
  /\ UNCHANGED <<registryVars, sweep, unseen, added, updating, failures,
                 crashed, streak, checked>>

CountUp(n) == IF n < FailureLimit THEN n + 1 ELSE n

\* Mutant of CountResult: a success clears the count but does not reach the
\* registry.
CountResultOnly(x, v) ==
  LET count == IF v THEN 0 ELSE CountUp(failures[IdOf[x]]) IN
  /\ verdicts[x][v] > 0
  /\ sweep # "running" /\ updating = None
  /\ verdicts' = [verdicts EXCEPT ![x][v] = @ - 1]
  /\ failures' = [failures EXCEPT ![IdOf[x]] = count]
  /\ streak' = [streak EXCEPT ![x] = IF v THEN 0 ELSE CountUp(@)]
  /\ updating' = IF count = FailureLimit
                 THEN [instance |-> x, health |-> "unhealthy"] ELSE None
  /\ UNCHANGED <<registryVars, sweep, unseen, added, calls, crashed, checked>>

\* updateServiceHealth up to its call of the registry, if it comes to that.
CountResult(x, v) ==
  LET count == IF v THEN 0 ELSE CountUp(failures[IdOf[x]]) IN
  /\ verdicts[x][v] > 0
  /\ sweep # "running" /\ updating = None
  /\ verdicts' = [verdicts EXCEPT ![x][v] = @ - 1]
  /\ failures' = [failures EXCEPT ![IdOf[x]] = count]
  /\ streak' = [streak EXCEPT ![x] = IF v THEN 0 ELSE CountUp(@)]
  /\ updating' =
       CASE v                        -> [instance |-> x, health |-> "healthy"]
         [] ~v /\ count = FailureLimit -> [instance |-> x, health |-> "unhealthy"]
         [] OTHER                    -> None
  /\ UNCHANGED <<registryVars, sweep, unseen, added, calls, crashed, checked>>

\* The rest of updateServiceHealth, once it has the registry's lock.
ApplyResult ==
  /\ updating # None
  /\ UpdateServiceHealth(updating.instance, updating.health)
  /\ checked' = checked \cup Current(updating.instance)
  /\ updating' = None
  /\ UNCHANGED <<sweep, unseen, added, calls, verdicts, failures, crashed, streak>>

----------------------------------------------------------------------------
CheckerNext ==
  \/ Tick \/ BeginSweep \/ EndSweep
  \/ \E x \in Instances : Visit(x)
  \/ \E x \in Instances, v \in BOOLEAN : CheckService(x, v) \/ CountResult(x, v)
  \/ ApplyResult

ClientsNext ==
  \/ \E x \in Instances, h \in Healths : Register(x, h)
  \/ \E x \in Instances : Deregister(x)
  \/ \E c \in Clients : GetAllServices(c) \/ GotAllServices(c)

Next == ~crashed /\ (CheckerNext \/ ClientsNext)

Spec == Init /\ [][Next]_vars

\* The ticker ticks and goroutines run; a call ends by the client's timeout and
\* a response by the server's WriteTimeout.  Go's locks serve whoever waits,
\* so the sweep is not passed over forever.
Fairness ==
  /\ WF_vars(~crashed /\ Tick)
  /\ SF_vars(~crashed /\ BeginSweep)
  /\ WF_vars(~crashed /\ (EndSweep \/ \E x \in Instances : x \in unseen /\ Visit(x)))
  /\ \A x \in Instances :
       /\ WF_vars(~crashed /\ \E v \in BOOLEAN : CheckService(x, v))
       /\ SF_vars(~crashed /\ \E v \in BOOLEAN : CountResult(x, v))
  /\ WF_vars(~crashed /\ ApplyResult)
  /\ \A c \in Clients : WF_vars(~crashed /\ GotAllServices(c))

FairSpec == Spec /\ Fairness

----------------------------------------------------------------------------
(* Properties.                                                             *)

TypeOK ==
  /\ RegistryTypeOK
  /\ sweep \in {"idle", "due", "running"}
  /\ unseen \subseteq services
  /\ added \subseteq services
  /\ calls \in [Instances -> 0..MaxChecks]
  /\ verdicts \in [Instances -> [BOOLEAN -> 0..MaxChecks]]
  /\ \A x \in Instances : Checks(x) <= MaxChecks
  /\ updating \in {None} \cup Update
  /\ failures \in [{IdOf[x] : x \in Instances} -> 0..FailureLimit]
  /\ crashed \in BOOLEAN
  /\ streak \in [Instances -> 0..FailureLimit]
  /\ checked \subseteq Instances

(* Until its first result reaches the registry a service is shown as its   *)
(* client registered it (registry.go:37-38).  From then on it is shown as  *)
(* unhealthy only while its count is at the limit, as long as no route     *)
(* shares its ID: the count and the health change under different locks,   *)
(* and checks overlap with each other and with registrations               *)
(* (healthchecker.go:84-97, registry.go:88-100).                           *)
UnhealthyAtLimit ==
  \A x \in services \cap checked :
    health[x] = "unhealthy" =>
      \/ failures[IdOf[x]] = FailureLimit
      \/ updating # None /\ IdOf[updating.instance] = IdOf[x]

(* "Simulate multiple failures", "Expected health 'unhealthy'"             *)
(* (registry_test.go:188-197): a registered service whose checks have      *)
(* failed FailureLimit times in a row is shown as unhealthy.               *)
FailingShownUnhealthy ==
  \A x \in services :
    streak[x] = FailureLimit /\ updating = None => health[x] = "unhealthy"

(* A checker that waits for the registry's lock gets it, whatever the      *)
(* readers do, and sweeps go on: no lock is waited for in a circle.        *)
UpdatesEnd == updating # None ~> updating = None
SweepsGoOn == sweep = "due" ~> sweep = "running" \/ crashed
=============================================================================

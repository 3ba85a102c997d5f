------------------------ MODULE HealthChecker_proofs ------------------------
(***************************************************************************)
(* Proofs about Registry and HealthChecker, for any instances, readers and *)
(* limits: the two levels of the registry's map agree, and while no two    *)
(* routes share an ID a service that has got its health from a check is    *)
(* unhealthy only at the failure limit.                                    *)
(*                                                                         *)
(* That an instance has at most MaxChecks checks is inductive only with    *)
(* what the range guarantees: it comes to an instance at most once, and an *)
(* instance registered in the meantime has had no check (RangeSound).  The *)
(* limit is, with what the holder of hc.mutex is about to do (UpdateDue),  *)
(* and because what a client registers has not been checked (RangeSound).  *)
(***************************************************************************)
EXTENDS HealthChecker, TLAPS

\* What the range still visits has room for one more check.
RangeSound ==
  /\ sweep # "running" => unseen = {} /\ added = {}
  /\ \A x \in Instances :
       /\ sweep = "due" \/ x \in unseen \cup added => Checks(x) < MaxChecks
       /\ health[x] = None => x \notin services /\ x \notin checked /\ Checks(x) = 0

\* The inductive invariant, whatever the IDs are.
Inv == TypeOK /\ LevelsAgree /\ RangeSound

\* No route shares the ID of another's service.
IdsUnique == \A x, y \in Instances : IdOf[x] = IdOf[y] => RouteOf[x] = RouteOf[y]

UpdateDue ==
  updating # None /\ updating.health = "unhealthy" =>
    failures[IdOf[updating.instance]] = FailureLimit

\* The inductive invariant, while IDs are unique.
LimitInv == UnhealthyAtLimit /\ UpdateDue

----------------------------------------------------------------------------
(* The counters of checks.                                                 *)

\* Passed(x) and Failed(x): the goroutines that have a result.
Passed(x) == verdicts[x][TRUE]
Failed(x) == verdicts[x][FALSE]

LEMMA ChecksSum ==
  \A x : /\ Checks(x) = calls[x] + Passed(x) + Failed(x)
         /\ Checks(x)' = calls'[x] + Passed(x)' + Failed(x)'
BY Zenon DEF Checks, Passed, Failed

LEMMA ChecksType ==
  ASSUME TypeOK, NEW x \in Instances
  PROVE  /\ calls[x] \in 0..MaxChecks /\ Passed(x) \in 0..MaxChecks
         /\ Failed(x) \in 0..MaxChecks
         /\ Checks(x) \in Nat /\ Checks(x) <= MaxChecks
<1>1. calls[x] \in 0..MaxChecks /\ Checks(x) <= MaxChecks
  BY DEF TypeOK
<1>2. verdicts[x] \in [BOOLEAN -> 0..MaxChecks]
  BY DEF TypeOK
<1>3. Passed(x) \in 0..MaxChecks /\ Failed(x) \in 0..MaxChecks
  BY <1>2, Zenon DEF Passed, Failed
<1> QED
  BY <1>1, <1>3, ChecksSum, HealthCheckerAssumption

LEMMA ChecksStay ==
  ASSUME UNCHANGED <<calls, verdicts>>
  PROVE  \A x \in Instances : Checks(x)' = Checks(x)
BY DEF Checks

(* The types of the counters follow from their sums.                       *)
LEMMA CountersType ==
  ASSUME calls' \in [Instances -> Nat], verdicts' \in [Instances -> [BOOLEAN -> Nat]],
         \A x \in Instances : Checks(x)' <= MaxChecks
  PROVE  calls' \in [Instances -> 0..MaxChecks]
         /\ verdicts' \in [Instances -> [BOOLEAN -> 0..MaxChecks]]
<1>1. ASSUME NEW x \in Instances
      PROVE  calls'[x] \in 0..MaxChecks /\ Passed(x)' \in 0..MaxChecks
             /\ Failed(x)' \in 0..MaxChecks
  <2>1. calls'[x] \in Nat /\ verdicts'[x] \in [BOOLEAN -> Nat]
    OBVIOUS
  <2>2. Passed(x)' \in Nat /\ Failed(x)' \in Nat
    BY <2>1, Zenon DEF Passed, Failed
  <2> QED
    BY <2>1, <2>2, ChecksSum, HealthCheckerAssumption
<1>2. ASSUME NEW x \in Instances
      PROVE  verdicts'[x] \in [BOOLEAN -> 0..MaxChecks]
  <2>1. verdicts'[x] \in [BOOLEAN -> Nat]
    OBVIOUS
  <2>2. \A v \in BOOLEAN : verdicts'[x][v] \in 0..MaxChecks
    BY <1>1, Zenon DEF Passed, Failed
  <2> QED
    BY <2>1, <2>2
<1> QED
  BY <1>1, <1>2

(* One counter of verdicts changes.                                        *)
LEMMA VerdictMoves ==
  ASSUME TypeOK, NEW x \in Instances, NEW v \in BOOLEAN, NEW n \in Nat,
         verdicts' = [verdicts EXCEPT ![x][v] = n]
  PROVE  /\ verdicts' \in [Instances -> [BOOLEAN -> Nat]]
         /\ \A y \in Instances : y # x => Passed(y)' = Passed(y) /\ Failed(y)' = Failed(y)
         /\ v => Passed(x)' = n /\ Failed(x)' = Failed(x)
         /\ ~ v => Passed(x)' = Passed(x) /\ Failed(x)' = n
<1>1. verdicts \in [Instances -> [BOOLEAN -> Nat]]
  <2>1. 0..MaxChecks \subseteq Nat
    BY HealthCheckerAssumption
  <2> QED
    BY <2>1 DEF TypeOK
<1> DEFINE new == [verdicts[x] EXCEPT ![v] = n]
<1>2. verdicts' = [verdicts EXCEPT ![x] = new]
  BY <1>1
<1>3. new \in [BOOLEAN -> Nat]
  BY <1>1
<1>4. \A w \in BOOLEAN : new[w] = IF w = v THEN n ELSE verdicts[x][w]
  BY <1>1
<1> HIDE DEF new
<1>5. verdicts' \in [Instances -> [BOOLEAN -> Nat]] /\ verdicts'[x] = new
      /\ \A y \in Instances : y # x => verdicts'[y] = verdicts[y]
  BY <1>1, <1>2, <1>3
<1>6. v => new[TRUE] = n /\ new[FALSE] = verdicts[x][FALSE]
  BY <1>4, Zenon
<1>7. ~ v => new[TRUE] = verdicts[x][TRUE] /\ new[FALSE] = n
  BY <1>4, Zenon
<1> QED
  BY <1>5, <1>6, <1>7, Zenon DEF Passed, Failed

(* checkService returns: its goroutine is counted elsewhere.               *)
LEMMA CheckServiceMoves ==
  ASSUME TypeOK, NEW x \in Instances, NEW v \in BOOLEAN, CheckService(x, v)
  PROVE  /\ calls' \in [Instances -> Nat] /\ verdicts' \in [Instances -> [BOOLEAN -> Nat]]
         /\ \A y \in Instances : Checks(y)' = Checks(y)
<1> DEFINE n == verdicts[x][v] + 1
<1>1. verdicts' = [verdicts EXCEPT ![x][v] = n] /\ calls' = [calls EXCEPT ![x] = calls[x] - 1]
      /\ calls[x] > 0
  BY DEF CheckService
<1>2. (v => n = Passed(x) + 1) /\ (~ v => n = Failed(x) + 1)
  BY Zenon DEF Passed, Failed
<1> HIDE DEF n
<1>3. n \in Nat
  BY <1>2, ChecksType, HealthCheckerAssumption
<1>4. /\ calls' \in [Instances -> Nat] /\ calls'[x] = calls[x] - 1
      /\ \A y \in Instances : y # x => calls'[y] = calls[y]
  BY <1>1, HealthCheckerAssumption DEF TypeOK
<1>5. \A y \in Instances : y # x => Checks(y)' = Checks(y)
  BY <1>1, <1>3, <1>4, VerdictMoves, ChecksSum
<1>6. Checks(x)' = Checks(x)
  <2>1. \/ Passed(x)' = Passed(x) + 1 /\ Failed(x)' = Failed(x)
        \/ Passed(x)' = Passed(x) /\ Failed(x)' = Failed(x) + 1
    BY <1>1, <1>2, <1>3, VerdictMoves, Zenon
  <2>2. calls[x] \in Nat /\ Passed(x) \in Nat /\ Failed(x) \in Nat
    BY ChecksType, HealthCheckerAssumption
  <2> QED
    BY <1>4, <2>1, <2>2, ChecksSum
<1> QED
  BY <1>1, <1>3, <1>4, <1>5, <1>6, VerdictMoves

(* A result is counted, and its goroutine has ended.                       *)
LEMMA CountResultMoves ==
  ASSUME TypeOK, NEW x \in Instances, NEW v \in BOOLEAN, CountResult(x, v)
  PROVE  /\ calls' \in [Instances -> Nat] /\ verdicts' \in [Instances -> [BOOLEAN -> Nat]]
         /\ \A y \in Instances : Checks(y)' <= Checks(y) /\ Checks(y)' \in Nat
<1> DEFINE n == verdicts[x][v] - 1
<1>1. verdicts' = [verdicts EXCEPT ![x][v] = n] /\ calls' = calls /\ verdicts[x][v] > 0
  BY DEF CountResult
<1>2. (v => n = Passed(x) - 1 /\ Passed(x) > 0) /\ (~ v => n = Failed(x) - 1 /\ Failed(x) > 0)
  BY <1>1, Zenon DEF Passed, Failed
<1> HIDE DEF n
<1>3. n \in Nat
  BY <1>2, ChecksType, HealthCheckerAssumption
<1>4. calls' \in [Instances -> Nat]
  BY <1>1, HealthCheckerAssumption DEF TypeOK
<1>5. \A y \in Instances : y # x => Checks(y)' = Checks(y)
  BY <1>1, <1>3, VerdictMoves, ChecksSum
<1>6. Checks(x)' <= Checks(x) /\ Checks(x)' \in Nat
  <2>1. \/ Passed(x)' = Passed(x) - 1 /\ Passed(x) > 0 /\ Failed(x)' = Failed(x)
        \/ Passed(x)' = Passed(x) /\ Failed(x)' = Failed(x) - 1 /\ Failed(x) > 0
    BY <1>1, <1>2, <1>3, VerdictMoves, Zenon
  <2>2. /\ calls[x] \in Nat /\ Passed(x) \in Nat /\ Failed(x) \in Nat
        /\ calls'[x] = calls[x]
    BY <1>1, ChecksType, HealthCheckerAssumption
  <2> QED
    BY <2>1, <2>2, ChecksSum
<1>7. ASSUME NEW y \in Instances
      PROVE  Checks(y)' <= Checks(y) /\ Checks(y)' \in Nat
  <2>1. Checks(y) \in Nat
    BY ChecksType
  <2> QED
    BY <1>5, <1>6, <2>1
<1> QED
  BY <1>1, <1>3, <1>4, <1>7, VerdictMoves

----------------------------------------------------------------------------
(* The registry.                                                           *)

(* RegisterService keeps the levels of the map in agreement: the instance  *)
(* with the same key gives way.                                            *)
LEMMA RegisterLevels ==
  ASSUME RegistryTypeOK, LevelsAgree, NEW x \in Instances, NEW h \in Healths,
         RegisterService(x, h)
  PROVE  RegistryTypeOK' /\ LevelsAgree'
<1> USE DEF RegisterService
<1>1. services' = (services \ Current(x)) \cup {x} /\ services' \subseteq Instances
  BY DEF RegistryTypeOK
<1>2. listed' = {RouteOf[y] : y \in services'}
  BY <1>1 DEF LevelsAgree, Current, SameKey
<1>3. \A y, z \in services' : SameKey(y, z) => y = z
  BY <1>1 DEF LevelsAgree, Current, SameKey
<1>4. RegistryTypeOK'
  BY <1>1, <1>2 DEF RegistryTypeOK
<1> QED
  BY <1>2, <1>3, <1>4 DEF LevelsAgree

LEMMA DeregisterLevels ==
  ASSUME RegistryTypeOK, LevelsAgree, NEW x \in Instances, DeregisterService(x)
  PROVE  RegistryTypeOK' /\ LevelsAgree'
<1> USE DEF DeregisterService
<1>1. services' = services \ {x} /\ services' \subseteq Instances /\ x \in services
  BY DEF RegistryTypeOK
<1>2. listed' = {RouteOf[y] : y \in services'}
  <2>1. CASE \E y \in services \ {x} : RouteOf[y] = RouteOf[x]
    BY <1>1, <2>1 DEF LevelsAgree
  <2>2. CASE ~ \E y \in services \ {x} : RouteOf[y] = RouteOf[x]
    BY <1>1, <2>2 DEF LevelsAgree
  <2> QED
    BY <2>1, <2>2
<1>3. \A y, z \in services' : SameKey(y, z) => y = z
  BY <1>1 DEF LevelsAgree
<1>4. RegistryTypeOK'
  BY <1>1, <1>2 DEF RegistryTypeOK
<1> QED
  BY <1>2, <1>3, <1>4 DEF LevelsAgree, SameKey

LEMMA UpdateLevels ==
  ASSUME RegistryTypeOK, LevelsAgree, NEW x, NEW h \in {"healthy", "unhealthy"},
         UpdateServiceHealth(x, h)
  PROVE  RegistryTypeOK' /\ LevelsAgree'
BY DEF UpdateServiceHealth, Healths, RegistryTypeOK, LevelsAgree, SameKey

LEMMA RegistryStays ==
  ASSUME RegistryTypeOK, LevelsAgree, UNCHANGED registryVars
  PROVE  RegistryTypeOK' /\ LevelsAgree'
BY DEF registryVars, RegistryTypeOK, LevelsAgree, SameKey

----------------------------------------------------------------------------
(* The steps, whatever the IDs are.                                        *)

LEMMA InitInv == Init => Inv
<1> SUFFICES ASSUME Init PROVE Inv
  OBVIOUS
<1>1. RegistryTypeOK /\ LevelsAgree
  BY DEF Init, RegistryInit, RegistryTypeOK, LevelsAgree
<1>2. 0 \in 0..MaxChecks /\ 0 \in 0..FailureLimit /\ 0 < MaxChecks
  BY HealthCheckerAssumption
<1>3. ASSUME NEW x \in Instances
      PROVE  Checks(x) = 0
  <2>1. calls[x] = 0
    BY DEF Init
  <2>2. Passed(x) = 0 /\ Failed(x) = 0
    BY Zenon DEF Init, Passed, Failed
  <2> QED
    BY <2>1, <2>2, ChecksSum
<1>4. TypeOK
  <2>1. \A x \in Instances : Checks(x) <= MaxChecks
    BY <1>2, <1>3
  <2>2. verdicts \in [Instances -> [BOOLEAN -> 0..MaxChecks]]
    BY <1>2 DEF Init
  <2> QED
    BY <1>1, <1>2, <2>1, <2>2 DEF Init, RegistryInit, TypeOK
<1>5. RangeSound
  BY <1>2, <1>3 DEF Init, RegistryInit, RangeSound
<1> QED
  BY <1>1, <1>4, <1>5 DEF Inv

LEMMA RegisterInv ==
  ASSUME Inv, NEW x \in Instances, NEW h \in Healths, Register(x, h)
  PROVE  Inv'
<1> USE DEF Inv
<1>1. /\ RegisterService(x, h) /\ RegistryTypeOK
      /\ UNCHANGED <<sweep, calls, verdicts, checked>>
  BY DEF Register, TypeOK
<1>2. RegistryTypeOK' /\ LevelsAgree'
  BY <1>1, RegisterLevels
<1>3. x \notin services /\ Checks(x) = 0
  BY <1>1 DEF RegisterService, RangeSound
<1>4. services' = (services \ Current(x)) \cup {x}
      /\ health' = [health EXCEPT ![x] = h]
      /\ health \in [Instances -> Healths \cup {None}]
  BY <1>1 DEF RegisterService, RegistryTypeOK
<1>5. /\ unseen' = IF Current(x) \cap unseen # {} THEN (unseen \ Current(x)) \cup {x} ELSE unseen
      /\ added' = IF sweep = "running" /\ (Current(x) = {} \/ Current(x) \cap added # {})
                  THEN (added \ Current(x)) \cup {x} ELSE added
  BY DEF Register
<1>6. unseen \subseteq services /\ added \subseteq services
  BY DEF TypeOK
<1>7. unseen' \subseteq services'
  BY <1>4, <1>5, <1>6
<1>8. added' \subseteq services'
  <2>1. CASE sweep = "running"
    BY <1>4, <1>5, <1>6, <2>1
  <2>2. CASE sweep # "running"
    BY <1>5, <2>2 DEF RangeSound
  <2> QED
    BY <2>1, <2>2
<1>9. crashed' \in BOOLEAN
  BY DEF Register, MayCrash, TypeOK
<1>10. \A y \in Instances : Checks(y)' = Checks(y)
  BY <1>1, ChecksStay
<1>11. TypeOK'
  BY <1>2, <1>7, <1>8, <1>9, <1>10 DEF Register, TypeOK
<1>12. RangeSound'
  <2>1. sweep # "running" => unseen' = {} /\ added' = {}
    BY <1>5 DEF RangeSound
  <2>2. ASSUME NEW y \in Instances, sweep = "due" \/ y \in unseen' \cup added'
        PROVE  Checks(y) < MaxChecks
    <3>1. CASE y = x
      BY <1>3, <3>1, HealthCheckerAssumption
    <3>2. CASE y # x
      BY <1>5, <2>2, <3>2 DEF RangeSound
    <3> QED
      BY <3>1, <3>2
  <2>3. ASSUME NEW y \in Instances, health'[y] = None
        PROVE  y \notin services' /\ y \notin checked /\ Checks(y) = 0
    <3>1. y # x /\ health[y] = None
      BY <1>4, <2>3, RegistryAssumption
    <3> QED
      BY <1>4, <3>1 DEF RangeSound
  <2> QED
    BY <1>1, <1>10, <2>1, <2>2, <2>3 DEF RangeSound
<1> QED
  BY <1>2, <1>11, <1>12

LEMMA DeregisterInv ==
  ASSUME Inv, NEW x \in Instances, Deregister(x)
  PROVE  Inv'
<1> USE DEF Inv
<1>1. /\ DeregisterService(x) /\ RegistryTypeOK
      /\ UNCHANGED <<sweep, calls, verdicts, checked>>
      /\ UNCHANGED health /\ services' = services \ {x}
      /\ unseen' = unseen \ {x} /\ added' = added \ {x}
  BY DEF Deregister, DeregisterService, TypeOK
<1>2. RegistryTypeOK' /\ LevelsAgree'
  BY <1>1, DeregisterLevels
<1>3. crashed' \in BOOLEAN
  BY DEF Deregister, MayCrash, TypeOK
<1>4. \A y \in Instances : Checks(y)' = Checks(y)
  BY <1>1, ChecksStay
<1>5. TypeOK'
  BY <1>1, <1>2, <1>3, <1>4 DEF Deregister, TypeOK
<1>6. RangeSound'
  BY <1>1, <1>4 DEF RangeSound
<1> QED
  BY <1>2, <1>5, <1>6

LEMMA ReadersInv ==
  ASSUME Inv, NEW c \in Clients, GetAllServices(c) \/ GotAllServices(c)
  PROVE  Inv'
<1> USE DEF Inv
<1>1. UNCHANGED <<services, listed, health, checkerVars, crashed>>
      /\ readers' \subseteq readers \cup {c}
  BY DEF GetAllServices, GotAllServices, ListAll, ListedAll
<1>2. RegistryTypeOK' /\ LevelsAgree'
  BY <1>1 DEF TypeOK, RegistryTypeOK, LevelsAgree, SameKey
<1>3. \A y \in Instances : Checks(y)' = Checks(y)
  BY <1>1, ChecksStay DEF checkerVars
<1>4. TypeOK'
  BY <1>1, <1>2, <1>3 DEF TypeOK, checkerVars
<1>5. RangeSound'
  BY <1>1, <1>3 DEF RangeSound, checkerVars
<1> QED
  BY <1>2, <1>4, <1>5

(* The loop of the checker, but for its visits.                            *)
LEMMA SweepInv ==
  ASSUME Inv, Tick \/ BeginSweep \/ EndSweep
  PROVE  Inv'
<1> USE DEF Inv
<1>1. UNCHANGED <<registryVars, calls, verdicts, updating, failures, crashed, streak,
                  checked>>
  BY DEF Tick, BeginSweep, EndSweep
<1>2. RegistryTypeOK' /\ LevelsAgree' /\ UNCHANGED <<services, health>>
  BY <1>1, RegistryStays DEF TypeOK, registryVars
<1>3. \A y \in Instances : Checks(y)' = Checks(y)
  BY <1>1, ChecksStay
<1>4. sweep' \in {"idle", "due", "running"} /\ unseen' \subseteq services
      /\ added' \subseteq services
  BY DEF Tick, BeginSweep, EndSweep, TypeOK
<1>5. TypeOK'
  BY <1>1, <1>2, <1>3, <1>4 DEF TypeOK
<1>6. RangeSound'
  BY <1>2, <1>3 DEF Tick, BeginSweep, EndSweep, RangeSound
<1> QED
  BY <1>2, <1>5, <1>6

LEMMA VisitInv ==
  ASSUME Inv, NEW x \in Instances, Visit(x)
  PROVE  Inv'
<1> USE DEF Inv
<1>1. UNCHANGED <<registryVars, sweep, verdicts, updating, failures, crashed, streak,
                  checked>>
      /\ x \in unseen \cup added /\ unseen' = unseen \ {x} /\ added' = added \ {x}
      /\ sweep = "running" /\ calls' = [calls EXCEPT ![x] = calls[x] + 1]
  BY DEF Visit
<1>2. RegistryTypeOK' /\ LevelsAgree' /\ UNCHANGED <<services, health>>
  BY <1>1, RegistryStays DEF TypeOK, registryVars
<1>3. /\ calls' \in [Instances -> Nat] /\ calls'[x] = calls[x] + 1
      /\ \A y \in Instances : y # x => calls'[y] = calls[y]
  BY <1>1, HealthCheckerAssumption DEF TypeOK
<1>4. \A y \in Instances : Passed(y)' = Passed(y) /\ Failed(y)' = Failed(y)
  BY <1>1, Zenon DEF Passed, Failed
<1>5. Checks(x)' = Checks(x) + 1 /\ Checks(x) \in Nat
  BY <1>3, <1>4, ChecksSum, ChecksType, HealthCheckerAssumption
<1>6. \A y \in Instances : y # x => Checks(y)' = Checks(y)
  BY <1>3, <1>4, ChecksSum
<1>7. \A y \in Instances : Checks(y)' <= MaxChecks
  <2>1. Checks(x) < MaxChecks
    BY <1>1 DEF RangeSound
  <2> QED
    BY <1>5, <1>6, <2>1, ChecksType, HealthCheckerAssumption
<1>8. verdicts' \in [Instances -> [BOOLEAN -> Nat]]
  <2>1. 0..MaxChecks \subseteq Nat
    BY HealthCheckerAssumption
  <2> QED
    BY <1>1, <2>1 DEF TypeOK
<1>9. TypeOK'
  BY <1>1, <1>2, <1>3, <1>7, <1>8, CountersType DEF TypeOK
<1>10. RangeSound'
  <2>1. \A y \in Instances : y \in unseen' \cup added' => Checks(y)' < MaxChecks
    BY <1>1, <1>6 DEF RangeSound
  <2>2. health[x] # None
    BY <1>1 DEF RangeSound, TypeOK
  <2> QED
    BY <1>1, <1>2, <1>6, <2>1, <2>2 DEF RangeSound
<1> QED
  BY <1>2, <1>9, <1>10

LEMMA CheckServiceInv ==
  ASSUME Inv, NEW x \in Instances, NEW v \in BOOLEAN, CheckService(x, v)
  PROVE  Inv'
<1> USE DEF Inv
<1>1. UNCHANGED <<registryVars, sweep, unseen, added, updating, failures, crashed, streak,
                  checked>>
  BY DEF CheckService
<1>2. RegistryTypeOK' /\ LevelsAgree' /\ UNCHANGED <<services, health>>
  BY <1>1, RegistryStays DEF TypeOK, registryVars
<1>3. \A y \in Instances : Checks(y)' = Checks(y)
  BY CheckServiceMoves
<1>4. \A y \in Instances : Checks(y)' <= MaxChecks
  BY <1>3, ChecksType
<1>5. TypeOK'
  BY <1>1, <1>2, <1>4, CheckServiceMoves, CountersType DEF TypeOK
<1>6. RangeSound'
  BY <1>1, <1>2, <1>3 DEF RangeSound
<1> QED
  BY <1>2, <1>5, <1>6

LEMMA CountUpType ==
  ASSUME NEW n \in 0..FailureLimit
  PROVE  CountUp(n) \in 0..FailureLimit /\ (n = FailureLimit => CountUp(n) = FailureLimit)
BY HealthCheckerAssumption DEF CountUp

LEMMA CountResultInv ==
  ASSUME Inv, NEW x \in Instances, NEW v \in BOOLEAN, CountResult(x, v)
  PROVE  Inv'
<1> USE DEF Inv
<1>1. UNCHANGED <<registryVars, sweep, unseen, added, crashed, checked>>
  BY DEF CountResult
<1>2. RegistryTypeOK' /\ LevelsAgree' /\ UNCHANGED <<services, health>>
  BY <1>1, RegistryStays DEF TypeOK, registryVars
<1>3. \A y \in Instances : Checks(y)' <= Checks(y) /\ Checks(y)' \in Nat
  BY CountResultMoves
<1>4. \A y \in Instances : Checks(y)' <= MaxChecks
  BY <1>3, ChecksType, HealthCheckerAssumption
<1>5. 0 \in 0..FailureLimit
  BY HealthCheckerAssumption
<1>6. failures' \in [{IdOf[y] : y \in Instances} -> 0..FailureLimit]
  BY <1>5, CountUpType DEF CountResult, TypeOK
<1>7. streak' \in [Instances -> 0..FailureLimit]
  BY <1>5, CountUpType DEF CountResult, TypeOK
<1>8. updating' \in {None} \cup Update
  BY DEF CountResult, Update
<1>9. TypeOK'
  BY <1>1, <1>2, <1>4, <1>6, <1>7, <1>8, CountResultMoves, CountersType DEF TypeOK
<1>10. RangeSound'
  <2>1. \A y \in Instances : Checks(y) < MaxChecks => Checks(y)' < MaxChecks
    BY <1>3, ChecksType, HealthCheckerAssumption
  <2>2. \A y \in Instances : Checks(y) = 0 => Checks(y)' = 0
    BY <1>3
  <2> QED
    BY <1>1, <1>2, <2>1, <2>2 DEF RangeSound
<1> QED
  BY <1>2, <1>9, <1>10

LEMMA ApplyResultInv ==
  ASSUME Inv, ApplyResult
  PROVE  Inv'
<1> USE DEF Inv
<1>1. /\ updating \in Update /\ UpdateServiceHealth(updating.instance, updating.health)
      /\ updating' = None /\ checked' = checked \cup Current(updating.instance)
      /\ UNCHANGED <<sweep, unseen, added, calls, verdicts, failures, crashed, streak>>
  BY DEF ApplyResult, TypeOK
<1>2. RegistryTypeOK' /\ LevelsAgree' /\ services' = services
  BY <1>1, UpdateLevels DEF TypeOK, Update, UpdateServiceHealth
<1>3. \A y \in Instances : Checks(y)' = Checks(y)
  BY <1>1, ChecksStay
<1>4. TypeOK'
  <2>1. checked' \subseteq Instances
    BY <1>1 DEF Current, TypeOK, RegistryTypeOK
  <2> QED
    BY <1>1, <1>2, <1>3, <2>1 DEF TypeOK
<1>5. \A y \in Instances : health'[y] = None => health[y] = None
  BY <1>1, RegistryAssumption DEF UpdateServiceHealth, Update, TypeOK, RegistryTypeOK, Healths
<1>6. RangeSound'
  BY <1>1, <1>2, <1>3, <1>5 DEF RangeSound, Current
<1> QED
  BY <1>2, <1>4, <1>6

LEMMA NextInv == Inv /\ [Next]_vars => Inv'
<1> SUFFICES ASSUME Inv, [Next]_vars PROVE Inv'
  OBVIOUS
<1>1. CASE UNCHANGED vars
  <2>1. RegistryTypeOK' /\ LevelsAgree'
    BY <1>1, RegistryStays DEF vars, Inv, TypeOK
  <2>2. \A y \in Instances : Checks(y)' = Checks(y)
    BY <1>1, ChecksStay DEF vars, checkerVars
  <2> QED
    BY <1>1, <2>1, <2>2 DEF vars, registryVars, checkerVars, Inv, TypeOK, RangeSound
<1>2. CASE Next
  BY <1>2, RegisterInv, DeregisterInv, ReadersInv, SweepInv, VisitInv, CheckServiceInv,
     CountResultInv, ApplyResultInv DEF Next, CheckerNext, ClientsNext
<1> QED
  BY <1>1, <1>2

----------------------------------------------------------------------------
(* The steps, while IDs are unique.                                        *)

(* A result is counted and says the same to the registry.                  *)
LEMMA CountResultLimit ==
  ASSUME Inv, LimitInv, NEW x \in Instances, NEW v \in BOOLEAN, CountResult(x, v)
  PROVE  LimitInv'
<1> DEFINE i == IdOf[x]
           count == IF v THEN 0 ELSE CountUp(failures[i])
<1> USE DEF Inv
<1>1. updating = None /\ UNCHANGED <<services, health, checked>>
      /\ services \subseteq Instances
  BY DEF CountResult, registryVars, TypeOK, RegistryTypeOK
<1>2. failures[i] \in 0..FailureLimit
  BY DEF TypeOK
<1>3. failures' = [failures EXCEPT ![i] = count]
  BY DEF CountResult
<1>4. \A y \in Instances : failures'[IdOf[y]] = IF IdOf[y] = i THEN count ELSE failures[IdOf[y]]
  BY <1>3 DEF TypeOK
<1>5. \/ updating' = [instance |-> x, health |-> "healthy"]
      \/ updating' = [instance |-> x, health |-> "unhealthy"] /\ count = FailureLimit
      \/ updating' = None /\ count # FailureLimit /\ ~ v
  BY DEF CountResult
<1>6. ~ v /\ count # FailureLimit => failures[i] # FailureLimit
  BY <1>2, CountUpType
<1> HIDE DEF i, count
<1>7. UpdateDue'
  BY <1>4, <1>5 DEF UpdateDue, i
<1>8. ASSUME NEW y \in services \cap checked, health[y] = "unhealthy"
      PROVE  \/ failures'[IdOf[y]] = FailureLimit
             \/ updating' # None /\ IdOf[updating'.instance] = IdOf[y]
  <2>1. failures[IdOf[y]] = FailureLimit /\ y \in Instances
    BY <1>1, <1>8 DEF LimitInv, UnhealthyAtLimit
  <2>2. CASE IdOf[y] # i
    BY <1>4, <2>1, <2>2
  <2>3. CASE IdOf[y] = i
    <3>1. CASE updating' = None
      BY <1>5, <1>6, <2>1, <2>3, <3>1, HealthCheckerAssumption DEF Update
    <3>2. CASE updating' # None
      BY <1>5, <2>3, <3>2 DEF i
    <3> QED
      BY <3>1, <3>2
  <2> QED
    BY <2>2, <2>3
<1> QED
  BY <1>1, <1>7, <1>8 DEF LimitInv, UnhealthyAtLimit

(* Whoever holds hc.mutex brings the registry up to date with the count.   *)
LEMMA ApplyResultLimit ==
  ASSUME IdsUnique, Inv, LimitInv, ApplyResult
  PROVE  LimitInv'
<1> DEFINE x == updating.instance
<1> USE DEF Inv
<1>1. /\ updating # None /\ updating \in Update /\ updating' = None
      /\ checked' = checked \cup Current(updating.instance)
      /\ UNCHANGED <<services, failures>> /\ services \subseteq Instances
      /\ health' = [y \in Instances |-> IF y \in Current(x) THEN updating.health ELSE health[y]]
  BY DEF ApplyResult, UpdateServiceHealth, TypeOK, RegistryTypeOK
<1>2. x \in Instances
  BY <1>1 DEF Update
<1> HIDE DEF x
<1>3. ASSUME NEW y \in services \cap checked', health'[y] = "unhealthy"
      PROVE  failures[IdOf[y]] = FailureLimit
  <2>1. y \in Instances
    BY <1>1
  <2>2. CASE IdOf[y] = IdOf[x]
    <3>1. y \in Current(x)
      BY <1>2, <2>1, <2>2 DEF IdsUnique, Current, SameKey
    <3>2. updating.health = "unhealthy"
      BY <1>1, <1>3, <2>1, <3>1
    <3> QED
      BY <1>1, <2>2, <3>2 DEF LimitInv, UpdateDue, x
  <2>3. CASE IdOf[y] # IdOf[x]
    <3>1. health[y] = "unhealthy" /\ y \in checked
      BY <1>1, <1>3, <2>1, <2>3 DEF Current, SameKey, x
    <3> QED
      BY <1>1, <2>3, <3>1 DEF LimitInv, UnhealthyAtLimit, x
  <2> QED
    BY <2>2, <2>3
<1> QED
  BY <1>1, <1>3 DEF LimitInv, UnhealthyAtLimit, UpdateDue

LEMMA LimitInit == Init => LimitInv
BY RegistryAssumption DEF Init, RegistryInit, LimitInv, UnhealthyAtLimit, UpdateDue

LEMMA LimitNext == IdsUnique /\ Inv /\ LimitInv /\ [Next]_vars => LimitInv'
<1> SUFFICES ASSUME IdsUnique, Inv, LimitInv, [Next]_vars PROVE LimitInv'
  OBVIOUS
<1>1. ASSUME NEW x \in Instances, NEW h \in Healths, Register(x, h)
      PROVE  LimitInv'
  <2>1. /\ services' = (services \ Current(x)) \cup {x}
        /\ health' = [health EXCEPT ![x] = h] /\ x \notin checked
        /\ UNCHANGED <<failures, updating, checked>>
        /\ health \in [Instances -> Healths \cup {None}]
        /\ services \subseteq Instances
    BY <1>1 DEF Register, RegisterService, Inv, TypeOK, RegistryTypeOK, RangeSound
  <2> QED
    BY <2>1 DEF LimitInv, UnhealthyAtLimit, UpdateDue
<1>2. ASSUME NEW x \in Instances, Deregister(x)
      PROVE  LimitInv'
  BY <1>2 DEF Deregister, DeregisterService, LimitInv, UnhealthyAtLimit, UpdateDue
<1>3. CASE \/ \E c \in Clients : GetAllServices(c) \/ GotAllServices(c)
           \/ Tick \/ BeginSweep \/ EndSweep \/ \E x \in Instances : Visit(x)
           \/ \E x \in Instances, v \in BOOLEAN : CheckService(x, v)
           \/ UNCHANGED vars
  <2>1. UNCHANGED <<services, health, failures, updating, checked>>
    BY <1>3 DEF GetAllServices, GotAllServices, ListAll, ListedAll, Tick, BeginSweep,
                EndSweep, Visit, CheckService, vars, registryVars, checkerVars
  <2> QED
    BY <2>1 DEF LimitInv, UnhealthyAtLimit, UpdateDue
<1> QED
  BY <1>1, <1>2, <1>3, CountResultLimit, ApplyResultLimit DEF Next, CheckerNext, ClientsNext

----------------------------------------------------------------------------
(* Type correctness, and with it the bound on the checks of an instance:   *)
(* a sweep starts at most one check of it.                                 *)
THEOREM TypeCorrect == Spec => []TypeOK
<1>1. Inv => TypeOK
  BY DEF Inv
<1> QED
  BY InitInv, NextInv, <1>1, PTL DEF Spec

(* However registrations, deregistrations, readers and checks interleave,  *)
(* a key has one instance and a route is listed exactly while it has one.  *)
THEOREM MapLevelsAgree == Spec => []LevelsAgree
<1>1. Inv => LevelsAgree
  BY DEF Inv
<1> QED
  BY InitInv, NextInv, <1>1, PTL DEF Spec

(* While no two routes share an ID, a service that has got its health from *)
(* a check, and not from the client that registered it (registry.go:37-38),*)
(* is shown as unhealthy only at the failure limit, or when the next       *)
(* result for its ID is being applied.  With a shared ID it is false: a    *)
(* success of one route's service clears the count of the other's          *)
(* (healthchecker.go:84-97).                                               *)
THEOREM UnhealthyIsAtLimit ==
  ASSUME IdsUnique
  PROVE  Spec => []UnhealthyAtLimit
<1>1. Inv /\ LimitInv => UnhealthyAtLimit
  BY DEF LimitInv
<1>2. Init => Inv /\ LimitInv
  BY InitInv, LimitInit
<1>3. (Inv /\ LimitInv) /\ [Next]_vars => (Inv /\ LimitInv)'
  BY NextInv, LimitNext
<1> QED
  BY <1>1, <1>2, <1>3, PTL DEF Spec
=============================================================================

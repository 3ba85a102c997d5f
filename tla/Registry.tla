------------------------------ MODULE Registry ------------------------------
(***************************************************************************)
(* The service registry (internal/gateway/registry.go, registry_handler.go)*)
(* a map from routes to maps from service IDs to instances, under one      *)
(* readers-writer lock.                                                    *)
(*                                                                         *)
(* Every call of the registration handler allocates a new ServiceInstance, *)
(* which other goroutines may point to after it has left the map; so an    *)
(* instance is an object with an identity, created at most once, whose     *)
(* route and ID never change.  The two levels of the map are the set of    *)
(* the instances in it and the set of the routes that have an inner map.   *)
(*                                                                         *)
(* A section under the lock is one step, but for GetAllServicesHandler,    *)
(* which writes to its client before it lets go of the read lock.          *)
(*                                                                         *)
(* A client registers its instance with any health: the handler decodes it *)
(* with the rest, and nothing checks it.  Here "unknown" is every health   *)
(* that is neither "healthy" nor "unhealthy".                              *)
(*                                                                         *)
(* Abstracted: URL, metadata, LastSeen, the requests that are rejected, and*)
(* GetServices and GetAllRoutes, which read under the lock and change      *)
(* nothing.                                                                *)
(***************************************************************************)
EXTENDS Integers, FiniteSets

CONSTANTS
  Instances,   \* the instances that may be registered, each at most once
  RouteOf,     \* RouteOf[x]: ServiceInstance.Route
  IdOf,        \* IdOf[x]: ServiceInstance.ID
  Clients,     \* clients of GetAllServicesHandler
  None

\* ServiceInstance.Health
Healths == {"unknown", "healthy", "unhealthy"}

ASSUME RegistryAssumption == None \notin Healths

VARIABLES
  services,    \* the instances in the map
  listed,      \* the routes that have an inner map
  health,      \* health[x]: ServiceInstance.Health, None before x is created
  readers      \* the clients whose handler holds the read lock

registryVars == <<services, listed, health, readers>>

RegistryInit ==
  /\ services = {}
  /\ listed = {}
  /\ health = [x \in Instances |-> None]
  /\ readers = {}

SameKey(x, y) == RouteOf[x] = RouteOf[y] /\ IdOf[x] = IdOf[y]

\* The instance under the key of x, as a set of at most one.
Current(x) == {y \in services : SameKey(x, y)}

\* The instance is stored as it came from the client.
RegisterService(x, h) ==
  /\ health[x] = None
  /\ readers = {}
  /\ services' = (services \ Current(x)) \cup {x}
  /\ listed' = listed \cup {RouteOf[x]}
  /\ health' = [health EXCEPT ![x] = h]
  /\ UNCHANGED readers

\* Mutant of DeregisterService: the inner map stays when it is empty.
DeregisterServiceOnly(x) ==
  /\ x \in services
  /\ readers = {}
  /\ services' = services \ {x}
  /\ UNCHANGED <<listed, health, readers>>

\* By route and ID; it fails, and changes nothing, when there is no such key.
DeregisterService(x) ==
  /\ x \in services
  /\ readers = {}
  /\ services' = services \ {x}
  /\ listed' = IF \E y \in services \ {x} : RouteOf[y] = RouteOf[x]
               THEN listed ELSE listed \ {RouteOf[x]}
  /\ UNCHANGED <<health, readers>>

\* Whoever is under the key of x now gets the health h.
UpdateServiceHealth(x, h) ==
  /\ readers = {}
  /\ health' = [y \in Instances |-> IF y \in Current(x) THEN h ELSE health[y]]
  /\ UNCHANGED <<services, listed, readers>>

\* GetAllServicesHandler, from RLock to the end of its write to the client.
ListAll(c) ==
  /\ c \notin readers
  /\ readers' = readers \cup {c}
  /\ UNCHANGED <<services, listed, health>>

\* Mutant of ListedAll: the handler returns without RUnlock.
ListedAllLocked(c) == FALSE

ListedAll(c) ==
  /\ c \in readers
  /\ readers' = readers \ {c}
  /\ UNCHANGED <<services, listed, health>>

----------------------------------------------------------------------------
(* Properties.                                                             *)

RegistryTypeOK ==
  /\ services \subseteq Instances
  /\ listed \subseteq {RouteOf[x] : x \in Instances}
  /\ health \in [Instances -> Healths \cup {None}]
  /\ readers \subseteq Clients

(* The two levels of the map agree: a key has one instance, and a route is *)
(* listed exactly while it has instances, so that GetServices and the      *)
(* handler above it answer 404 and not an empty list (registry.go:33-58,   *)
(* registry_handler.go:89-93).                                             *)
LevelsAgree ==
  /\ listed = {RouteOf[x] : x \in services}
  /\ \A x, y \in services : SameKey(x, y) => x = y
=============================================================================

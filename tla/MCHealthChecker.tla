-------------------------- MODULE MCHealthChecker --------------------------
(***************************************************************************)
(* Instances of HealthChecker for TLC: x1 and x2 have one key, so that one *)
(* replaces the other; x3 is on a route of its own, with an ID of its own  *)
(* or with that of the others.                                             *)
(***************************************************************************)
EXTENDS HealthChecker

CONSTANTS x1, x2, x3

TwoRoutes   == [x \in Instances |-> IF x = x3 THEN "products" ELSE "users"]
DistinctIds == [x \in Instances |-> IF x = x3 THEN "svc2" ELSE "svc1"]
SharedIds   == [x \in Instances |-> "svc1"]
=============================================================================

------------------------------ MODULE MCProxy ------------------------------
(***************************************************************************)
(* Instances of Proxy for TLC: the shape of the routing table, and the     *)
(* symmetry of the requests, which no action tells apart.                  *)
(***************************************************************************)
EXTENDS Proxy, TLC

CONSTANTS b1, b2

\* Paths and patterns below /api.
Api(rest) == <<"/", "api", "/">> \o rest

\* One route over one backend: all requests compete for it.
OneRoute == {"users"}
OneOrder == <<"users">>
OnePattern == [p \in OneRoute |-> Api(<<"users", "/", "*">>)]
OnePath == {Api(<<"users", "/", "7">>)}
OneBackend == [p \in OneRoute |-> <<b1>>]
ByRoundRobin == [p \in OneRoute |-> RoundRobin]

\* The routes of the built-in table, with every strategy, and backends shared
\* between routes.
AllOrder == <<"users", "products", "orders", "self", "auth">>
AllRoutes == {AllOrder[i] : i \in DOMAIN AllOrder}
PatternOfAll == [p \in AllRoutes |->
  CASE p = "self" -> <<"/", "users">>
    [] p = "auth" -> <<"/", "auth", "/", "*">>
    [] OTHER      -> Api(<<p, "/", "*">>)]
\* A path across a segment, at the top of a route, below one, and of no route.
AllPaths == {
  Api(<<"users", "X">>), Api(<<"products">>), Api(<<"orders", "/", "7">>),
  <<"/", "users">>, <<"/", "auth", "/", "login">>, <<"/", "users", "/", "7">>}
BackendsOfAll == [p \in AllRoutes |->
  CASE p \in {"users", "products"} -> <<b1, b2>>
    [] p = "orders"                -> <<b2, b1>>
    [] p \in {"self", "auth"}      -> <<>>]
StrategyOfAll == [p \in AllRoutes |->
  CASE p = "products" -> LeastConnections
    [] p = "orders"   -> Random
    [] OTHER          -> RoundRobin]

\* The built-in patterns keep apart, as Proxy_proofs asks of a table.
ASSUME TableIsServed ==
  /\ PatternsApart
  /\ Routes = {RouteOrder[i] : i \in DOMAIN RouteOrder}

SymmetricRequests == Permutations(Requests)
=============================================================================

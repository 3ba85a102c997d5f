------------------------------ MODULE Routing ------------------------------
(***************************************************************************)
(* The choice of a route (internal/gateway/config.go).  A path or pattern  *)
(* is a sequence of tokens: "/", "*", and pieces of names, cut so that one *)
(* string is a prefix of another exactly when its tokens are: /api/usersX  *)
(* is <<"/", "api", "/", "users", "X">>.                                   *)
(***************************************************************************)
EXTENDS Integers, Sequences
Sequence == INSTANCE SequencesExt

CONSTANTS
  None,
  RouteOrder,  \* GatewayConfig.Routes
  PatternOf    \* PatternOf[p]: Route.Pattern

Wildcard == <<"/", "*">>

HasWildcard(pattern) == Sequence!IsSuffix(Wildcard, pattern)

\* The pattern without its last n tokens.
Trimmed(pattern, n) == SubSeq(pattern, 1, Len(pattern) - n)

\* Mutant of matchesPattern: only the "*" is trimmed.
matchesPatternKeepingSlash(pattern, path) ==
  IF HasWildcard(pattern) THEN Sequence!IsPrefix(Trimmed(pattern, 1), path)
                          ELSE pattern = path

matchesPattern(pattern, path) ==
  IF HasWildcard(pattern) THEN Sequence!IsPrefix(Trimmed(pattern, 2), path)
                          ELSE pattern = path

\* The first route in the order of the configuration whose pattern matches.
MatchRoute(path) ==
  LET matching == {i \in DOMAIN RouteOrder :
                     matchesPattern(PatternOf[RouteOrder[i]], path)}
  IN  IF matching = {} THEN None
      ELSE RouteOrder[CHOOSE i \in matching : \A j \in matching : i <= j]

----------------------------------------------------------------------------
(* What the properties ask of a route and of a table.                      *)

\* What a pattern names: all but its wildcard.
Top(pattern) == IF HasWildcard(pattern) THEN Trimmed(pattern, 2) ELSE pattern

\* path is at or below the top of pattern, segment by segment.
Below(path, pattern) ==
  \/ path = Top(pattern)
  \/ HasWildcard(pattern) /\ Sequence!IsPrefix(Append(Top(pattern), "/"), path)

\* No pattern takes the top of a later one unless that is below it, and none
\* is itself below a later one.
PatternsApart ==
  \A i, j \in DOMAIN RouteOrder :
    LET earlier == PatternOf[RouteOrder[i]]
        later   == PatternOf[RouteOrder[j]]
    IN  i < j =>
          /\ matchesPattern(earlier, Top(later)) => Below(Top(later), earlier)
          /\ HasWildcard(earlier) /\ Below(Top(earlier), later) =>
               Top(earlier) = Top(later)
=============================================================================

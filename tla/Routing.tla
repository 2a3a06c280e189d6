------------------------------- MODULE Routing -------------------------------
(***************************************************************************)
(* routing.Router.Route: the longest-prefix match over the route table, a  *)
(* Go map that the loop visits in an unspecified order.                    *)
(*                                                                         *)
(* A path is given by its segments and a trailing slash; Text is the       *)
(* string the code compares, byte by byte.  http.ServeMux has cleaned the  *)
(* path, so it has no empty segment.                                       *)
(***************************************************************************)
EXTENDS Naturals, Sequences, FiniteSets, SequencesExt

CONSTANTS Segments,     \* path segments: non-empty sequences of bytes
          MaxDepth,     \* segments in a path
          MaxRoutes,    \* routes in a table
          RouteSlash    \* route keys may end in a slash ("/" always does)

ASSUME RoutingAssumption ==
    /\ \A s \in Segments : s \in Seq(STRING) /\ s # <<>> /\ "/" \notin Range(s)
    /\ MaxDepth \in Nat /\ MaxRoutes \in Nat /\ RouteSlash \in BOOLEAN

VARIABLES table,        \* the keys of Router.routes
          path,         \* the path being routed
          remaining,    \* keys the loop has not visited
          bestmatch     \* the longest match so far: a key or NoRoute

routingVars == <<table, path, remaining, bestmatch>>

Depths == UNION {[1 .. n -> Segments] : n \in 0 .. MaxDepth}

\* Paths of requests: the root, and /s1/.../sn with or without a last slash.
Paths == {[segs |-> s, slash |-> b] : s \in Depths, b \in BOOLEAN}
           \ {[segs |-> <<>>, slash |-> FALSE]}

Keys == {k \in Paths : k.slash => RouteSlash}

Text(p) == FlattenSeq([i \in 1 .. Len(p.segs) |-> <<"/">> \o p.segs[i]])
             \o (IF p.slash THEN <<"/">> ELSE <<>>)

NoRoute == [segs |-> <<>>, slash |-> FALSE]   \* its text is the empty string

\* The types; a match is always a key of the table.
RoutingTypeOK ==
    /\ table \in SUBSET Keys /\ path \in Paths
    /\ remaining \subseteq table
    /\ bestmatch \in table \cup {NoRoute}

RoutingInit ==
    /\ table \in UNION {kSubset(n, Keys) : n \in 1 .. MaxRoutes}
    /\ path \in Paths
    /\ remaining = table
    /\ bestmatch = NoRoute

\* Fault: a plain string prefix, with no segment boundary.
MatchesAnyPrefix(k, p) == IsPrefix(Text(k), Text(p))

\* HasPrefix, then the end of the path or a slash right after the key.
Matches(k, p) ==
    /\ IsPrefix(Text(k), Text(p))
    /\ \/ Len(Text(p)) = Len(Text(k))
       \/ Text(p)[Len(Text(k)) + 1] = "/"

Visit(k) ==
    /\ bestmatch' = IF Matches(k, path) /\ Len(Text(k)) > Len(Text(bestmatch))
                    THEN k ELSE bestmatch
    /\ remaining' = remaining \ {k}
    /\ UNCHANGED <<table, path>>

RoutingNext == \E k \in remaining : Visit(k)

RoutingSpec == RoutingInit /\ [][RoutingNext]_routingVars

-----------------------------------------------------------------------------
\* What a route covers, segment by segment: the paths below it.
Covers(k, p) == IsPrefix(k.segs, p.segs)

Longest(S) == {k \in S : \A l \in S : Len(l.segs) <= Len(k.segs)}

\* Whatever order the map is visited in, Route ends with the longest route
\* that covers the path segment by segment, and with none only when no route
\* covers it.
RouteIsLongestMatch ==
    remaining = {} =>
        LET C == {k \in table : Covers(k, path)}
        IN  IF C = {} THEN bestmatch = NoRoute ELSE bestmatch \in Longest(C)
=============================================================================

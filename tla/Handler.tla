------------------------------ MODULE Handler ------------------------------
(***************************************************************************)
(* httpHandler after it has acquired its runtime: Route walks the table of *)
(* the runtime, NextBackend scans the backends of the service it found     *)
(* while the probers flip them, and the request is answered with 404, with *)
(* 503 or by the backend that was chosen.                                  *)
(*                                                                         *)
(* Validate compares the trimmed names of services and routes, BuildRuntime *)
(* the names as they are written, so a route of a valid configuration may  *)
(* have no service: bound is the set of those that have one.               *)
(***************************************************************************)
EXTENDS Routing, RoundRobin

VARIABLES bound,      \* routes whose service BuildRuntime found
          response    \* what the client gets: "none", "404", "503", "backend"

handlerVars == <<routingVars, rrVars, bound, response>>

HandlerInit ==
    /\ RoutingInit /\ RRInit
    /\ bound \in SUBSET table
    /\ response = "none"

Routed == remaining = {}

\* bestSvc is set together with bestmatch.
HasService == bestmatch \in bound

RouteStep ==
    /\ \E k \in remaining : Visit(k)
    /\ UNCHANGED <<rrVars, bound, response>>

\* svc == nil: no route matched, or the one that did has no service.
NotFound ==
    /\ Routed /\ ~HasService /\ response = "none"
    /\ response' = "404"
    /\ UNCHANGED <<routingVars, rrVars, bound>>

\* backend := svc.NextBackend()
NextBackend(h) ==
    /\ Routed /\ HasService /\ response = "none"
    /\ at[h] # "done" /\ (Call(h) \/ NextStep(h))
    /\ UNCHANGED <<routingVars, bound, response>>

Respond(h) ==
    /\ at[h] = "done" /\ response = "none"
    /\ response' = IF chosen[h] = Nil THEN "503" ELSE "backend"
    /\ UNCHANGED <<routingVars, rrVars, bound>>

\* Probers flip the backends during the scan; before it any health is there.
Flip(b, val) ==
    /\ \E h \in Handlers : at[h] \in {"add", "load"}
    /\ SetHealthy(b, val)
    /\ UNCHANGED <<routingVars, bound, response>>

HandlerStep(h) == RouteStep \/ NotFound \/ NextBackend(h) \/ Respond(h)

HandlerNext ==
    \/ \E h \in Handlers : HandlerStep(h)
    \/ \E b \in Backends, val \in BOOLEAN : Flip(b, val)

\* The handler's goroutine runs; nothing is assumed of the probers.
HandlerSpec ==
    /\ HandlerInit /\ [][HandlerNext]_handlerVars
    /\ \A h \in Handlers : WF_handlerVars(HandlerStep(h))

-----------------------------------------------------------------------------
\* The types of the handler and of the two components it composes.
HandlerTypeOK ==
    /\ RoutingTypeOK /\ RRTypeOK
    /\ bound \subseteq table
    /\ response \in {"none", "404", "503", "backend"}

\* Every answer has its reason: 404 when no route covers the path or the
\* longest one that does has no service; 503 when no backend of the service
\* was healthy throughout the scan; a backend when a route covers the path,
\* and then one the scan saw healthy.
AnswerJustified ==
    LET covering == {k \in table : Covers(k, path)}
    IN  /\ response = "404" => Longest(covering) \cap bound = {}
        /\ response \in {"503", "backend"} => Longest(covering) \cap bound # {}
        /\ response = "503" => \A h \in Handlers : steady[h] = {}
        /\ response = "backend" => \A h \in Handlers : chosen[h] \in Backends

\* Every request is answered, however health flips during the scan.
RequestAnswered == <>(response # "none")
=============================================================================

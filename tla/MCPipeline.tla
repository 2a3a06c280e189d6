----------------------------- MODULE MCPipeline -----------------------------
(* Scenarios for model checking Pipeline: an execution may measure a tool   *)
(* the one before it did not, leave one out, or run fewer iterations.       *)
EXTENDS Pipeline

ScenariosDef ==
    {[tools |-> {"wrk", "vegeta"}, iterations |-> 1],
     [tools |-> {"wrk"}, iterations |-> 2],
     [tools |-> {"vegeta"}, iterations |-> 1]}
=============================================================================

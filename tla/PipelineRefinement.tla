------------------------- MODULE PipelineRefinement -------------------------
(***************************************************************************)
(* Pipeline implements GraphExecution: a step is running from the moment    *)
(* g.Go starts its goroutine to the moment its arrival is sent, and done or *)
(* failed from then on, although the dispatcher only learns it later.       *)
(***************************************************************************)
EXTENDS Pipeline

Status ==
    [s \in needed |->
        CASE stage[s] = "idle" -> "waiting"
          [] stage[s] \in {"running", "computed"} -> "running"
          [] stage[s] \in {"sentOk", "overOk"} -> "done"
          [] OTHER -> "failed"]

Abstract == INSTANCE GraphExecution WITH status <- Status, closed <- (pc = "returned")

\* Every execution of the dispatcher is an execution of the graph: dependencies
\* before dependents, never more than Limit at once, each step at most once, no
\* return while a step runs or while one could still start.
ExecutesTheGraph == Abstract!Spec
=============================================================================

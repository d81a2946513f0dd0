--------------------------- MODULE GraphExecution ---------------------------
(***************************************************************************)
(* What Registry.Run promises its callers, without a dispatcher, goroutines *)
(* or channels: a graph of steps executed in some order its dependencies    *)
(* allow, at most Limit at a time, each step at most once; the execution    *)
(* closes when nothing runs and either nothing more can start or, in stop   *)
(* mode, a step has failed. Module Pipeline is shown to implement it.       *)
(***************************************************************************)
EXTENDS StepGraph

CONSTANTS Limit, ContinueOnError

VARIABLES
    graph,       \* the declared dependencies
    needed,      \* the steps to execute
    status,      \* per needed step: "waiting", "running", "done", "failed"
    closed       \* the execution is over

vars == <<graph, needed, status, closed>>

With(st) == {s \in needed : status[s] = st}

Startable(s) == status[s] = "waiting" /\ graph[s] \subseteq With("done")

Init ==
    /\ graph \in Graphs
    /\ needed \subseteq Steps
    /\ Closed(graph, needed)
    /\ status = [s \in needed |-> "waiting"]
    /\ closed = FALSE

Start(s) ==
    /\ ~closed
    /\ Startable(s)
    /\ Cardinality(With("running")) < Limit
    /\ status' = [status EXCEPT ![s] = "running"]
    /\ UNCHANGED <<graph, needed, closed>>

End(s) ==
    /\ status[s] = "running"
    /\ \E st \in {"done", "failed"} : status' = [status EXCEPT ![s] = st]
    /\ UNCHANGED <<graph, needed, closed>>

Close ==
    /\ ~closed
    /\ With("running") = {}
    /\ \/ \A s \in needed : ~Startable(s)
       \/ ~ContinueOnError /\ With("failed") # {}
    /\ closed' = TRUE
    /\ UNCHANGED <<graph, needed, status>>

Next == (\E s \in needed : Start(s) \/ End(s)) \/ Close

Spec == Init /\ [][Next]_vars
=============================================================================

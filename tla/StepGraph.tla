------------------------------ MODULE StepGraph ------------------------------
(***************************************************************************)
(* The pure part of internal/pipeline/pipeline.go: the registered steps,   *)
(* the closure of a set of targets, the waves and the launch priority.     *)
(*                                                                         *)
(* A step's name is abstracted to its rank of declaration: Add refuses a   *)
(* name declared twice and a dependency that is not declared before the    *)
(* step, so a registry of N steps is a function from 1..N whose values     *)
(* only name smaller ranks.                                                *)
(***************************************************************************)
EXTENDS Integers, FiniteSets

CONSTANT N                    \* number of declared steps

ASSUME NAssumption == N \in Nat \ {0}

Steps == 1..N

\* Registry.Add: every dependency is declared before the step.
Graphs == {g \in [Steps -> SUBSET Steps] : \A s \in Steps : g[s] \subseteq 1..(s-1)}

Closed(g, S) == \A s \in S : g[s] \subseteq S

\* closure: the targets and everything they depend on, directly or not, as the
\* least closed set; the depth-first search that finds it is not modelled.
Needed(g, targets) ==
    {s \in Steps : \A S \in SUBSET Steps : targets \subseteq S /\ Closed(g, S) => s \in S}

\* Levels: the steps done after k waves. A wave takes every needed step whose
\* needed dependencies are in the earlier waves.
DoneAfter(g, need) ==
    LET done[k \in 0..N] ==
            IF k = 0 THEN {}
            ELSE LET before == done[k-1]
                 IN  before \union {s \in need : g[s] \intersect need \subseteq before}
    IN  done

WaveOf(g, need) ==
    LET done == DoneAfter(g, need)
    IN  [s \in need |-> CHOOSE k \in 1..N : s \in done[k] /\ s \notin done[k-1]]

\* Run's priority: the waves one after the other, declaration order in a wave.
Priority(g, need) ==
    LET wave == WaveOf(g, need)
        Before(a, b) == wave[a] < wave[b] \/ (wave[a] = wave[b] /\ a < b)
    IN  [s \in need |-> Cardinality({t \in need : Before(t, s)})]

\* t depends on s, directly or through other steps.
Downstream(g, s, t) == s # t /\ s \in Needed(g, {t})
==============================================================================

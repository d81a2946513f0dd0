------------------------------- MODULE Pipeline -------------------------------
(***************************************************************************)
(* Registry.Run of internal/pipeline/pipeline.go: the dispatcher that runs  *)
(* a graph of steps with a bounded number of goroutines.                   *)
(*                                                                         *)
(* Actors: the dispatcher (the goroutine that called Run), one goroutine   *)
(* per launched step, and the caller's context, which a signal may cancel. *)
(* They share the results map (under mu), the buffered channel arrivals    *)
(* and the semaphore of the errgroup.                                      *)
(***************************************************************************)
EXTENDS StepGraph, Sequences

CONSTANTS
    Limit,             \* Options.Concurrency, at least 1 once normalised
    ContinueOnError,   \* Options.ContinueOnError
    Journaled          \* the registry has a pool: successes are journaled

ASSUME PipelineAssumption ==
    /\ Limit \in Nat \ {0}
    /\ ContinueOnError \in BOOLEAN
    /\ Journaled \in BOOLEAN

VARIABLES
    graph,        \* the declared dependencies                     (rigid)
    needed,       \* closure of the targets                        (rigid)
    priority,     \* launch order between ready steps              (rigid)
    pc,           \* dispatcher: "dispatch", "spawn", "returned"
    ready,        \* steps whose remaining count is zero, not launched
    remaining,    \* per step, prerequisites whose success is not read yet
    inFlight,     \* launched steps whose arrival is not read yet
    stopped,      \* an arrival with an error was read (stop mode)
    echouees,     \* failed steps read so far (ContinueOnError)
    pending,      \* the step launch() is handing to g.Go, 0 if none
    stage,        \* per step, where its goroutine is
    seen,         \* per step, the dependencies whose value launch() copied
    results,      \* the steps that have an entry in the results map
    arrivals,     \* the buffered channel, in the order of the sends
    journal,      \* rows of core.pipeline_etape stamped by this run
    firstError,   \* the step whose error errgroup keeps, 0 if none: gctx is
                  \* cancelled as soon as there is one
    interrupted,  \* the caller's ctx is cancelled
    outcome,      \* what Run returned
    late          \* history: steps spawned after some step had failed

plan == <<graph, needed, priority>>
dispatcher == <<pc, ready, remaining, inFlight, stopped, echouees, pending>>
shared == <<stage, seen, results, arrivals, journal>>
vars == <<plan, dispatcher, shared, firstError, interrupted, outcome, late>>

Stages == {"idle", "running", "computed", "sentOk", "sentErr", "overOk", "overErr"}

\* A goroutine holds a permit of the semaphore from g.Go until it has returned.
Holders == {s \in needed : stage[s] \in {"running", "computed", "sentOk", "sentErr"}}
Failed == {s \in needed : stage[s] \in {"sentErr", "overErr"}}
Succeeded == {s \in needed : stage[s] \in {"sentOk", "overOk"}}

\* stepCtx is gctx in stop mode, the caller's ctx under ContinueOnError.
StepCtxCancelled == interrupted \/ (~ContinueOnError /\ firstError # 0)

NotReturned == [results |-> {}, errors |-> {}, nilResults |-> FALSE]

Init ==
    /\ graph \in Graphs
    /\ \E targets \in (SUBSET Steps) \ {{}} : needed = Needed(graph, targets)
    /\ priority = Priority(graph, needed)
    /\ pc = "dispatch"
    /\ remaining = [s \in needed |-> Cardinality(graph[s] \intersect needed)]
    /\ ready = {s \in needed : remaining[s] = 0}
    /\ inFlight = 0
    /\ stopped = FALSE
    /\ echouees = {}
    /\ pending = 0
    /\ stage = [s \in needed |-> "idle"]
    /\ seen = [s \in needed |-> {}]
    /\ results = {}
    /\ arrivals = <<>>
    /\ journal = {}
    /\ firstError = 0
    /\ interrupted = FALSE
    /\ outcome = NotReturned
    /\ late = {}
-----------------------------------------------------------------------------
(* The decisions of the dispatcher, each with a faulty variant (suffix _bug) *)
(* that the properties below are shown to tell from it.                    *)

\* A success read by the dispatcher makes a dependent ready at zero.
BecomesReady_bug(count) == count <= 1
BecomesReady(count) == count = 0

\* Room for one more launch: inFlight < limit.
HasSlot == inFlight < Limit

\* The ready step to launch: the lowest priority.
IsNextWave_bug(s) ==
    LET wave == WaveOf(graph, needed)
    IN  \A t \in needed : wave[t] < wave[s] => stage[t] \in {"overOk", "overErr"}
IsNext(s) == \A r \in ready : priority[s] <= priority[r]

\* Only the arrival of a success credits the dependents.
Credits_bug(a) == TRUE
Credits(a) == a.ok

\* Whether the failure just read stops the whole dispatch.
FailureStops_bug == TRUE
FailureGoesOn_bug == FALSE
FailureStops == ~ContinueOnError

\* g.Wait: every goroutine of the group has returned.
GroupIsOver_bug == TRUE
GroupIsOver == Holders = {}
-----------------------------------------------------------------------------
(* The dispatcher                                                          *)

\* The first half of launch: take the ready step of lowest priority and copy
\* its dependencies' values out of results.
Pick ==
    /\ pc = "dispatch"
    /\ ~stopped
    /\ HasSlot
    /\ \E s \in ready :
        /\ IsNext(s)
        /\ ready' = ready \ {s}
        /\ pending' = s
        /\ seen' = [seen EXCEPT ![s] = graph[s] \intersect results]
    /\ pc' = "spawn"
    /\ UNCHANGED <<plan, remaining, inFlight, stopped, echouees, stage, results,
                   arrivals, journal, firstError, interrupted, outcome, late>>

\* The second half: g.Go, which waits for a permit. A goroutine keeps its
\* permit after its arrival has been read, so this can wait.
Spawn ==
    /\ pc = "spawn"
    /\ Cardinality(Holders) < Limit
    /\ stage' = [stage EXCEPT ![pending] = "running"]
    /\ inFlight' = inFlight + 1
    /\ late' = IF Failed # {} THEN late \union {pending} ELSE late
    /\ pending' = 0
    /\ pc' = "dispatch"
    /\ UNCHANGED <<plan, ready, remaining, stopped, echouees, seen, results,
                   arrivals, journal, firstError, interrupted, outcome>>

\* The launch loop is over: nothing more can be launched for now.
CannotLaunch == stopped \/ ready = {} \/ ~HasSlot

\* a := <-arrivals, for the arrival of a failed step.
ReadFailure ==
    /\ pc = "dispatch"
    /\ CannotLaunch
    /\ inFlight > 0
    /\ arrivals # <<>>
    /\ ~Credits(Head(arrivals))
    /\ arrivals' = Tail(arrivals)
    /\ inFlight' = inFlight - 1
    /\ IF FailureStops
       THEN stopped' = TRUE /\ UNCHANGED echouees
       ELSE echouees' = echouees \union {Head(arrivals).name} /\ UNCHANGED stopped
    /\ UNCHANGED <<plan, pc, ready, remaining, pending, stage, seen, results,
                   journal, firstError, interrupted, outcome, late>>

\* a := <-arrivals, for the arrival of a step that succeeded.
ReadSuccess ==
    /\ pc = "dispatch"
    /\ CannotLaunch
    /\ inFlight > 0
    /\ arrivals # <<>>
    /\ Credits(Head(arrivals))
    /\ arrivals' = Tail(arrivals)
    /\ inFlight' = inFlight - 1
    /\ LET dependents == {t \in needed : Head(arrivals).name \in graph[t]}
       IN  /\ remaining' = [t \in needed |->
                  IF t \in dependents THEN remaining[t] - 1 ELSE remaining[t]]
           /\ ready' = ready \union {t \in dependents : BecomesReady(remaining'[t])}
    /\ UNCHANGED <<plan, pc, stopped, echouees, pending, stage, seen, results,
                   journal, firstError, interrupted, outcome, late>>

\* The end of Run: break out of the loop, g.Wait, return.
Return ==
    /\ pc = "dispatch"
    /\ CannotLaunch
    /\ inFlight = 0
    /\ GroupIsOver
    /\ pc' = "returned"
    /\ outcome' =
         IF ContinueOnError
         THEN [results |-> results, errors |-> echouees, nilResults |-> FALSE]
         ELSE IF firstError = 0
         THEN [results |-> results, errors |-> {}, nilResults |-> FALSE]
         ELSE [results |-> {}, errors |-> {firstError}, nilResults |-> TRUE]
    /\ UNCHANGED <<plan, ready, remaining, inFlight, stopped, echouees, pending,
                   shared, firstError, interrupted, late>>
-----------------------------------------------------------------------------
(* The goroutine of a step                                                 *)

Send(s, ok) == arrivals' = Append(arrivals, [name |-> s, ok |-> ok])

\* s.Run returned an error.
StepFails_bug(s) ==      \* the arrival is forgotten
    /\ stage[s] = "running"
    /\ stage' = [stage EXCEPT ![s] = "sentErr"]
    /\ UNCHANGED <<plan, dispatcher, seen, results, arrivals, journal, firstError,
                   interrupted, outcome, late>>
StepFails(s) ==
    /\ stage[s] = "running"
    /\ stage' = [stage EXCEPT ![s] = "sentErr"]
    /\ Send(s, FALSE)
    /\ UNCHANGED <<plan, dispatcher, seen, results, journal, firstError,
                   interrupted, outcome, late>>

\* s.Run returned a value, stored in results under mu.
StepReturns(s) ==
    /\ stage[s] = "running"
    /\ stage' = [stage EXCEPT ![s] = "computed"]
    /\ results' = results \union {s}
    /\ UNCHANGED <<plan, dispatcher, seen, arrivals, journal, firstError,
                   interrupted, outcome, late>>

\* The success is journaled (when there is a pool) and announced.
Journal(s) ==
    /\ stage[s] = "computed"
    /\ Journaled => ~StepCtxCancelled
    /\ journal' = IF Journaled THEN journal \union {s} ELSE journal
    /\ stage' = [stage EXCEPT ![s] = "sentOk"]
    /\ Send(s, TRUE)
    /\ UNCHANGED <<plan, dispatcher, seen, results, firstError, interrupted,
                   outcome, late>>

\* The UPDATE reports an error, before or after the server committed it.
JournalFails(s) ==
    /\ stage[s] = "computed"
    /\ Journaled
    /\ journal' \in {journal, journal \union {s}}
    /\ stage' = [stage EXCEPT ![s] = "sentErr"]
    /\ Send(s, FALSE)
    /\ UNCHANGED <<plan, dispatcher, seen, results, firstError, interrupted,
                   outcome, late>>

\* The function given to g.Go returns: errgroup notes an error, cancels gctx,
\* and gives the permit back.
GoroutineEnds(s) ==
    /\ stage[s] \in {"sentOk", "sentErr"}
    /\ stage' = [stage EXCEPT ![s] = IF @ = "sentOk" THEN "overOk" ELSE "overErr"]
    /\ firstError' = IF firstError = 0 /\ stage[s] = "sentErr" THEN s ELSE firstError
    /\ UNCHANGED <<plan, dispatcher, seen, results, arrivals, journal,
                   interrupted, outcome, late>>

\* The caller's context is cancelled (a signal, see internal/logs).
Interrupt ==
    /\ pc # "returned"
    /\ ~interrupted
    /\ interrupted' = TRUE
    /\ UNCHANGED <<plan, dispatcher, shared, firstError, outcome, late>>

Terminated == pc = "returned" /\ UNCHANGED vars

StepBody(s) == StepFails(s) \/ StepReturns(s)
Plumbing(s) == Journal(s) \/ JournalFails(s) \/ GoroutineEnds(s)
Dispatch == Pick \/ Spawn \/ ReadFailure \/ ReadSuccess \/ Return

Next ==
    \/ Dispatch
    \/ \E s \in needed : StepBody(s) \/ Plumbing(s)
    \/ Interrupt
    \/ Terminated

Spec == Init /\ [][Next]_vars

\* The Go scheduler runs every runnable goroutine: the dispatcher and the
\* plumbing of each goroutine. PromptFairness says nothing of the bodies of
\* the steps.
PromptFairness ==
    /\ WF_vars(Dispatch)
    /\ \A s \in Steps : WF_vars(s \in needed /\ Plumbing(s))
-----------------------------------------------------------------------------
(* Properties                                                              *)

Outcomes == [results : SUBSET Steps, errors : SUBSET Steps, nilResults : BOOLEAN]
Arrivals == [name : needed, ok : BOOLEAN]

\* The type invariant.
TypeOK ==
    /\ graph \in Graphs
    /\ needed \subseteq Steps
    /\ priority \in [needed -> Nat]
    /\ pc \in {"dispatch", "spawn", "returned"}
    /\ ready \subseteq needed
    /\ remaining \in [needed -> Int]
    /\ inFlight \in 0..Limit
    /\ stopped \in BOOLEAN
    /\ echouees \subseteq needed
    /\ pending \in needed \union {0}
    /\ stage \in [needed -> Stages]
    /\ seen \in [needed -> SUBSET Steps]
    /\ results \subseteq needed
    /\ arrivals \in Seq(Arrivals)
    /\ journal \subseteq needed
    /\ firstError \in needed \union {0}
    /\ interrupted \in BOOLEAN
    /\ outcome \in Outcomes
    /\ late \subseteq needed

Started == {s \in needed : stage[s] # "idle"}
Unread == {s \in needed : \E i \in 1..Len(arrivals) : arrivals[i].name = s}

\* The successes the dispatcher has read.
Credited == Succeeded \ Unread

\* A step that runs was given the value of every dependency it declares, and
\* all of them have succeeded: "une page qui depend vraiment du resultat d'une
\* autre NE DOIT PAS s'executer sur un Results partiel ou absent" (Options).
NoPartialInput ==
    \A s \in Started : seen[s] = graph[s] /\ graph[s] \subseteq Succeeded

\* The launched steps whose arrival the dispatcher has not read.
InFlightSteps == {s \in needed : stage[s] \in {"running", "computed"} \/ s \in Unread}

\* The dispatcher's own count is exact, and never exceeds Concurrency, so that
\* at most Limit step bodies run at once whatever the semaphore does.
InFlightIsExact == inFlight = Cardinality(InFlightSteps) /\ inFlight <= Limit

\* The inductive invariant NoPartialInput rests on, by parts.
\* A step is between Pick and Spawn exactly when the dispatcher says so, and
\* has a slot.
PendingInv ==
    IF pc = "spawn"
    THEN /\ pending \in needed
         /\ seen[pending] = graph[pending]
         /\ inFlight < Limit
    ELSE pending = 0
\* The channel holds one arrival per step at most, and tells the truth.
ArrivalInv ==
    \A i \in 1..Len(arrivals) :
        /\ stage[arrivals[i].name] \in
               IF arrivals[i].ok THEN {"sentOk", "overOk"} ELSE {"sentErr", "overErr"}
        /\ \A j \in 1..Len(arrivals) : arrivals[j].name = arrivals[i].name => j = i
\* remaining counts the dependencies that are not credited.
CountInv == \A s \in needed : remaining[s] = Cardinality(graph[s] \ Credited)
\* Only a step whose dependencies are all credited is ready, handed to g.Go or
\* started; and the first two are not started.
LaunchInv ==
    /\ \A s \in ready \union Started \union ({pending} \ {0}) : graph[s] \subseteq Credited
    /\ \A s \in ready \union ({pending} \ {0}) : stage[s] = "idle"
    /\ pending \notin ready
\* A success has left its value in results.
ResultsInv == \A s \in needed : stage[s] \in {"computed", "sentOk", "overOk"} => s \in results

IInv ==
    /\ TypeOK
    /\ Closed(graph, needed)
    /\ PendingInv
    /\ ArrivalInv
    /\ CountInv
    /\ LaunchInv
    /\ ResultsInv
    /\ NoPartialInput

\* What the theorems on the end of a run add to IInv, by parts.
\* Nothing that could be launched is forgotten.
ReadyInv == \A s \in needed :
    stage[s] = "idle" /\ s # pending /\ remaining[s] = 0 => s \in ready
\* The dispatch only stops on a failure, and never in the middle of a launch.
StoppedInv == stopped => ~ContinueOnError /\ Failed # {} /\ pc # "spawn"
\* Until the dispatcher has read a failing arrival, the steps started after the
\* failure are all behind that arrival: still running, or announced later.
LateInv ==
    ~ContinueOnError =>
        /\ Failed = {} => late = {}
        /\ Failed # {} /\ ~stopped =>
              \E p \in 1..Len(arrivals) :
                  /\ ~arrivals[p].ok
                  /\ \A s \in late :
                        \/ stage[s] \in {"running", "computed"}
                        \/ \E j \in 1..Len(arrivals) : j > p /\ arrivals[j].name = s
        /\ Cardinality(late) < Limit

EndInv == IInv /\ InFlightIsExact /\ ReadyInv /\ StoppedInv /\ LateInv

\* No step downstream of a failed one is ever started, however long the chain.
FailureContained ==
    \A f \in Failed : \A s \in Started : ~Downstream(graph, f, s)

\* Under ContinueOnError Run only returns once every needed step has run,
\* except those downstream of a failure; what it reports is exactly what
\* happened: every failure is in the aggregated error, and the steps logged as
\* never run (no result, not in echouees) are the ones never started.
ReturnIsComplete ==
    (pc = "returned" /\ ContinueOnError) =>
        /\ outcome.errors = Failed
        /\ \A s \in needed \ Started : \E f \in Failed : Downstream(graph, f, s)
        /\ needed \ (outcome.results \union echouees) = needed \ Started

\* In stop mode (site generation) Run returns either the results of the whole
\* closure, each success journaled, or a nil map and an error, never a partial
\* map; and when it returns no goroutine is left behind.
ReturnIsAllOrNothing ==
    (pc = "returned" /\ ~ContinueOnError) =>
        /\ Holders = {}
        /\ outcome.nilResults <=> Failed # {}
        /\ outcome.nilResults => outcome.errors # {}
        /\ ~outcome.nilResults =>
              outcome.results = needed /\ (Journaled => journal = needed)

\* What the stop really bounds: after a failure, in stop mode, fewer than Limit
\* further steps are started, the launch loop having let through those it had
\* room for before reading the failing arrival.
LateStartsBounded == ~ContinueOnError => Cardinality(late) < Limit
==============================================================================

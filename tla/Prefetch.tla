------------------------------- MODULE Prefetch -------------------------------
(***************************************************************************)
(* An ingestion command (RunAll, RunSources, RunCategorie, RunSource of     *)
(* internal/ingest): a registry run by Pipeline, beside a second registry,  *)
(* without dependencies, that fetches the files of the first one's steps    *)
(* (prefetch.go). The steps named in prefetchDependants wait for the whole  *)
(* of the second run before their connector starts, inside their launch     *)
(* slot; the others start at once.                                         *)
(*                                                                         *)
(* The second run appears as what Pipeline is shown to implement,          *)
(* GraphExecution in stop mode. A step has one file at most, and the file   *)
(* bears the name of its step.                                             *)
(***************************************************************************)
EXTENDS Pipeline

CONSTANT Dependants       \* the possible sets of steps that have a file

ASSUME DependantsAssumption == Dependants \subseteq SUBSET Steps

VARIABLES
    waiters,      \* the steps of prefetchDependants                (rigid)
    download,     \* per file, its status in the second run
    waveOver,     \* the channel pret is closed
    entered       \* the steps whose connector (Source.Executer) was called

prefetchVars == <<waiters, download, waveOver, entered>>
allVars == <<vars, prefetchVars>>

\* The registry of PrefetchAll: reg.Run(ctx, reg.Names(), Options{Concurrency}),
\* whose targets are those of every step registered, needed or not.
Wave == INSTANCE GraphExecution WITH
    graph <- [s \in Steps |-> {}], needed <- waiters, status <- download,
    closed <- waveOver, ContinueOnError <- FALSE

\* demarrerPrefetch: without a file the future is resolved at once.
InitPrefetch ==
    /\ Init
    /\ waiters \in Dependants
    /\ download = [t \in waiters |-> "waiting"]
    /\ waveOver = (waiters = {})
    /\ entered = {}

\* pf.err: the second run has failed.
WaveFailed == waveOver /\ Wave!With("failed") # {}
-----------------------------------------------------------------------------
(* The second run                                                          *)

FileStarts(t) == t \in waiters /\ Wave!Start(t) /\ UNCHANGED <<vars, waiters, entered>>
FileEnds(t) == t \in waiters /\ Wave!End(t) /\ UNCHANGED <<vars, waiters, entered>>

\* PrefetchAll returns, and the deferred close(pf.pret) resolves the future.
Resolve_bug ==        \* only a success closes pret
    /\ Wave!With("failed") = {}
    /\ Wave!Close /\ UNCHANGED <<vars, waiters, entered>>
Resolve == Wave!Close /\ UNCHANGED <<vars, waiters, entered>>
-----------------------------------------------------------------------------
(* The body of a step of the ingestion registry                            *)

\* The steps blocked in pf.attendre.
Waiting_bug == {s \in needed : stage[s] = "running" /\ s \notin entered}
Waiting == {s \in waiters \intersect needed : stage[s] = "running" /\ s \notin entered}

\* The step needs no file, or its future is resolved without an error.
MayEnter(s) == s \in waiters => waveOver /\ ~WaveFailed

\* source.Executer is called.
Enter(s) ==
    /\ stage[s] = "running"
    /\ s \notin entered
    /\ MayEnter(s)
    /\ entered' = entered \union {s}
    /\ UNCHANGED <<vars, waiters, download, waveOver>>

\* attendre returns an error: the future's, or that of the step's context.
GivesUp(s) == WaveFailed \/ StepCtxCancelled

Refused(s) ==
    /\ s \in Waiting
    /\ GivesUp(s)
    /\ StepFails(s)
    /\ UNCHANGED prefetchVars

\* source.Executer returns, with an error or without one.
ConnectorEnds(s) ==
    /\ s \in entered
    /\ StepBody(s)
    /\ UNCHANGED prefetchVars

RunStep == (Dispatch \/ \E s \in needed : Plumbing(s)) /\ UNCHANGED prefetchVars

NextPrefetch ==
    \/ RunStep
    \/ Interrupt /\ UNCHANGED prefetchVars
    \/ \E s \in needed : Enter(s) \/ Refused(s) \/ ConnectorEnds(s)
    \/ \E t \in waiters : FileStarts(t) \/ FileEnds(t)
    \/ Resolve
    \/ pc = "returned" /\ UNCHANGED allVars

SpecPrefetch == InitPrefetch /\ [][NextPrefetch]_allVars

\* What the Go scheduler runs by itself: the dispatchers, the plumbing of the
\* goroutines, the select of attendre. Neither a download nor a connector.
FairSpecPrefetch ==
    /\ SpecPrefetch
    /\ PromptFairness
    /\ \A s \in Steps : WF_allVars(s \in needed /\ (Enter(s) \/ Refused(s)))
    /\ WF_allVars(\E t \in waiters : FileStarts(t))
    /\ WF_allVars(Resolve)

ConnectorsReturn == \A s \in Steps : WF_allVars(s \in needed /\ ConnectorEnds(s))
FilesEnd == \A t \in Steps : WF_allVars(FileEnds(t))
-----------------------------------------------------------------------------
(* Properties                                                              *)

TypeOKPrefetch ==
    /\ TypeOK
    /\ waiters \in Dependants
    /\ download \in [waiters -> {"waiting", "running", "done", "failed"}]
    /\ waveOver \in BOOLEAN
    /\ entered \subseteq needed

\* A connector that expects its files in the context finds them all there: it
\* never fetches one that the second run is still fetching, so that no document
\* is downloaded twice at once ("retrouve directement ce qui vient d'etre pris").
FilesBeforeConnector ==
    \A s \in entered \intersect waiters : \A t \in waiters : download[t] = "done"

\* In a run that nobody interrupts, under ContinueOnError, a step whose
\* connector was never called is a step that waited for the failed second run,
\* or is downstream of a failure: what needs no file is not affected.
OnlyDependantsAreLost ==
    pc = "returned" /\ ContinueOnError /\ ~interrupted =>
        \A s \in needed \ entered :
            \/ s \in waiters /\ WaveFailed
            \/ \E f \in Failed : Downstream(graph, f, s)

\* The run returns once every connector returns, if the downloads end, or if the
\* run is interrupted: the dispatcher never blocks for ever on an arrival or in
\* g.Go, the slots of the steps that wait are not those the downloads need, and
\* a wait hears the cancellation of the run.
ReturnsAnyway ==
    ConnectorsReturn /\ (FilesEnd \/ <>interrupted) => <>(pc = "returned")

\* The dispatcher is continuous, not wave by wave: a step that needs no file
\* starts once its own dependencies have succeeded, even if every download and
\* every other step lasts for ever, unless all the slots are taken by running
\* steps; those that wait for a file are among them.
NotBehindAFile ==
    \A s \in Steps :
        (s \in needed \ waiters /\ graph[s] \subseteq Succeeded) ~>
            \/ s \in entered
            \/ ~ContinueOnError /\ Failed # {}
            \/ Cardinality({t \in needed : stage[t] = "running"}) = Limit
==============================================================================

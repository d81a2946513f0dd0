-------------------------- MODULE PipelineProofs ----------------------------
(***************************************************************************)
(* Proofs about Registry.Run and the ingestion commands built on it, for    *)
(* every number of steps, every graph, every concurrency limit and both     *)
(* modes: what the dispatcher knows while it runs (IInv), the end of a run  *)
(* (EndInv), what Run returns (RunInv), the implementation of              *)
(* GraphExecution, and the files and connectors of Prefetch.               *)
(***************************************************************************)
EXTENDS PipelineRefinement, Prefetch, FiniteSetTheorems, SequenceTheorems,
        WellFoundedInduction, TLAPS

-----------------------------------------------------------------------------
(* Graphs and closures                                                     *)

LEMMA NeededIsClosed ==
    ASSUME NEW g \in Graphs, NEW targets \in SUBSET Steps
    PROVE  /\ Needed(g, targets) \subseteq Steps
           /\ Closed(g, Needed(g, targets))
<1>1. ASSUME NEW s \in Needed(g, targets), NEW d \in g[s]
      PROVE  d \in Needed(g, targets)
  <2>1. s \in Steps /\ d \in Steps
    BY NAssumption DEF Needed, Graphs, Steps
  <2>2. ASSUME NEW S \in SUBSET Steps, targets \subseteq S, Closed(g, S)
        PROVE  d \in S
    BY <2>2 DEF Needed, Closed
  <2>3. QED
    BY <2>1, <2>2 DEF Needed
<1>2. QED
  BY <1>1 DEF Needed, Closed

LEMMA DependenciesAreFinite ==
    ASSUME NEW g \in Graphs, NEW s \in Steps
    PROVE  IsFiniteSet(g[s]) /\ g[s] \subseteq Steps
<1>1. g[s] \subseteq 1..(s-1) /\ s \in Int
  BY NAssumption DEF Graphs, Steps
<1>2. IsFiniteSet(1..(s-1))
  BY <1>1, FS_Interval
<1>3. g[s] \subseteq Steps
  BY <1>1, NAssumption DEF Steps
<1>4. QED
  BY <1>1, <1>2, <1>3, FS_Subset

LEMMA StepsAreFinite == \A S \in SUBSET Steps : IsFiniteSet(S) /\ Cardinality(S) \in Nat
<1>1. IsFiniteSet(Steps)
  BY NAssumption, FS_Interval DEF Steps
<1>2. QED
  BY <1>1, FS_Subset, FS_CardinalityType
-----------------------------------------------------------------------------
(* The channel                                                             *)

LEMMA ArrivalsAreNeeded ==
    ASSUME arrivals \in Seq(Arrivals)
    PROVE  \A i \in 1..Len(arrivals) : arrivals[i].name \in needed /\ arrivals[i].ok \in BOOLEAN
<1>1. \A i \in 1..Len(arrivals) : arrivals[i] \in Arrivals
  OBVIOUS
<1>2. QED
  BY <1>1 DEF Arrivals

\* A send adds the step to the unread ones, and only that step.
LEMMA UnreadAfterSend ==
    ASSUME arrivals \in Seq(Arrivals), NEW s \in needed, NEW ok \in BOOLEAN,
           Send(s, ok), needed' = needed
    PROVE  /\ arrivals' \in Seq(Arrivals)
           /\ Unread' = Unread \union {s}
           /\ Len(arrivals') = Len(arrivals) + 1
           /\ \A i \in 1..Len(arrivals) : arrivals'[i] = arrivals[i]
           /\ arrivals'[Len(arrivals) + 1] = [name |-> s, ok |-> ok]
<1> DEFINE a == [name |-> s, ok |-> ok]
<1>1. a \in Arrivals /\ arrivals' = Append(arrivals, a)
  BY DEF Arrivals, Send
<1> HIDE DEF a
<1>2. /\ arrivals' \in Seq(Arrivals)
      /\ Len(arrivals') = Len(arrivals) + 1
      /\ \A i \in 1..Len(arrivals) : arrivals'[i] = arrivals[i]
      /\ arrivals'[Len(arrivals) + 1] = a
  BY <1>1, AppendProperties
<1>3. Len(arrivals) \in Nat
  OBVIOUS
<1>4. a.name = s
  BY DEF a
<1>5. Unread' = Unread \union {s}
  BY <1>2, <1>3, <1>4 DEF Unread
<1>6. QED
  BY <1>2, <1>5 DEF a

\* A receive removes the head, and only that step.
LEMMA UnreadAfterReceive ==
    ASSUME arrivals \in Seq(Arrivals), arrivals # <<>>, ArrivalInv,
           arrivals' = Tail(arrivals), needed' = needed
    PROVE  /\ arrivals' \in Seq(Arrivals)
           /\ Head(arrivals) \in Arrivals
           /\ Head(arrivals) = arrivals[1]
           /\ Head(arrivals).name \in Unread
           /\ Unread' = Unread \ {Head(arrivals).name}
           /\ Len(arrivals') = Len(arrivals) - 1
           /\ \A i \in 1..Len(arrivals') : arrivals'[i] = arrivals[i+1]
<1>1. /\ arrivals' \in Seq(Arrivals)
      /\ Len(arrivals') = Len(arrivals) - 1
      /\ \A i \in 1..Len(arrivals') : arrivals'[i] = arrivals[i+1]
      /\ Head(arrivals) = arrivals[1]
      /\ Head(arrivals) \in Arrivals
      /\ Len(arrivals) \in Nat \ {0}
  BY HeadTailProperties
<1>2. \A i \in 1..Len(arrivals) : arrivals[i].name = arrivals[1].name => i = 1
  BY <1>1 DEF ArrivalInv
<1>3. Head(arrivals).name \in Unread
  BY <1>1 DEF Unread, Arrivals
<1>4. Unread' \subseteq Unread \ {Head(arrivals).name}
  BY <1>1, <1>2 DEF Unread
<1>5. ASSUME NEW s \in Unread, s # Head(arrivals).name
      PROVE  s \in Unread'
  <2>1. PICK i \in 1..Len(arrivals) : arrivals[i].name = s
    BY DEF Unread
  <2>2. i - 1 \in 1..Len(arrivals')
    BY <2>1, <1>1, <1>5
  <2>3. arrivals'[i - 1].name = s
    BY <2>1, <2>2, <1>1
  <2>4. QED
    BY <2>2, <2>3 DEF Unread
<1>6. QED
  BY <1>1, <1>3, <1>4, <1>5
-----------------------------------------------------------------------------
(* The inductive invariant                                                 *)

LEMMA InitInvariant == Init => IInv
<1> SUFFICES ASSUME Init PROVE IInv
  OBVIOUS
<1>1. PICK targets \in SUBSET Steps : needed = Needed(graph, targets)
  BY DEF Init
<1>2. /\ graph \in Graphs
      /\ needed \subseteq Steps
      /\ Closed(graph, needed)
  BY <1>1, NeededIsClosed DEF Init
<1>3. \A s \in needed : graph[s] \intersect needed = graph[s] /\ IsFiniteSet(graph[s])
  BY <1>2, DependenciesAreFinite DEF Closed
<1>4. /\ Credited = {}
      /\ Started = {}
      /\ Succeeded = {}
      /\ Len(arrivals) = 0
  BY DEF Init, Credited, Started, Succeeded
<1>5. remaining = [s \in needed |-> Cardinality(graph[s])]
  BY <1>3 DEF Init
<1>6. \A s \in needed : remaining[s] \in Nat
  BY <1>3, <1>5, FS_CardinalityType
<1>7. \A s \in ready : graph[s] = {}
  BY <1>3, <1>5, FS_EmptySet DEF Init
<1>8. priority \in [needed -> Nat]
  <2>1. \A t \in SUBSET needed : Cardinality(t) \in Nat
    BY <1>2, StepsAreFinite
  <2>2. QED
    BY <2>1 DEF Init, Priority
<1>9. TypeOK
  <2>1. /\ remaining \in [needed -> Int]
        /\ inFlight \in 0..Limit
        /\ arrivals \in Seq(Arrivals)
    BY <1>5, <1>6, PipelineAssumption DEF Init
  <2>2. QED
    BY <1>2, <1>8, <2>1 DEF Init, TypeOK, Stages, NotReturned, Outcomes
<1>10. PendingInv /\ ArrivalInv
  BY <1>4 DEF Init, PendingInv, ArrivalInv
<1>11. CountInv /\ LaunchInv
  <2>1. \A s \in needed : graph[s] \ Credited = graph[s]
    BY <1>4
  <2>2. CountInv
    BY <2>1, <1>5 DEF CountInv
  <2>3. LaunchInv
    <3>1. /\ pending = 0
          /\ ready \subseteq needed
          /\ \A s \in needed : stage[s] = "idle"
      BY DEF Init
    <3>2. 0 \notin ready
      BY <1>2, <3>1, NAssumption DEF Steps
    <3>3. QED
      BY <3>1, <3>2, <1>4, <1>7 DEF LaunchInv
  <2>4. QED
    BY <2>2, <2>3
<1>12. ResultsInv /\ NoPartialInput
  BY <1>4 DEF Init, ResultsInv, NoPartialInput
<1>13. QED
  BY <1>2, <1>9, <1>10, <1>11, <1>12 DEF IInv

\* What leaves the goroutines and the channel alone leaves the credits alone.
LEMMA SameCredits ==
    ASSUME UNCHANGED <<needed, stage, arrivals>>
    PROVE  /\ Credited' = Credited
           /\ Started' = Started
           /\ Succeeded' = Succeeded
BY DEF Credited, Succeeded, Unread, Started

LEMMA PickInvariant == IInv /\ Pick => IInv'
<1> SUFFICES ASSUME IInv, Pick PROVE IInv'
  OBVIOUS
<1>1. PICK s \in ready :
          /\ ready' = ready \ {s}
          /\ pending' = s
          /\ seen' = [seen EXCEPT ![s] = graph[s] \intersect results]
  BY DEF Pick
<1>2. Credited' = Credited /\ Started' = Started /\ Succeeded' = Succeeded
  BY SameCredits DEF Pick, plan
<1>3. /\ s \in needed /\ s # 0
      /\ graph[s] \subseteq Credited
      /\ stage[s] = "idle"
  BY NAssumption DEF IInv, TypeOK, LaunchInv, Steps
<1>4. graph[s] \intersect results = graph[s] /\ graph[s] \subseteq Steps
  BY <1>3 DEF IInv, ResultsInv, Credited, Succeeded, TypeOK
<1>5. TypeOK'
  BY <1>1, <1>3, <1>4 DEF IInv, TypeOK, Pick, plan, Arrivals
<1>6. PendingInv'
  BY <1>1, <1>3, <1>4 DEF IInv, TypeOK, PendingInv, Pick, plan, HasSlot
<1>7. LaunchInv'
  BY <1>1, <1>2, <1>3 DEF IInv, LaunchInv, Pick, plan
<1>8. NoPartialInput'
  BY <1>1, <1>2, <1>3 DEF IInv, TypeOK, NoPartialInput, Started, Pick, plan
<1>9. CountInv'
  BY <1>2 DEF IInv, CountInv, Pick, plan
<1>10. Closed(graph, needed)' /\ ArrivalInv' /\ ResultsInv'
  BY DEF IInv, ArrivalInv, ResultsInv, Closed, Pick, plan
<1>11. QED
  BY <1>5, <1>6, <1>7, <1>8, <1>9, <1>10 DEF IInv

LEMMA SpawnInvariant == IInv /\ Spawn => IInv'
<1> SUFFICES ASSUME IInv, Spawn PROVE IInv'
  OBVIOUS
<1>1. pending \in needed /\ pending # 0 /\ inFlight < Limit /\ stage[pending] = "idle"
  BY NAssumption DEF IInv, PendingInv, Spawn, TypeOK, LaunchInv, Steps
<1>2. /\ Succeeded' = Succeeded
      /\ Unread' = Unread
      /\ Credited' = Credited
      /\ Started' = Started \union {pending}
  BY <1>1 DEF IInv, TypeOK, Spawn, plan, Succeeded, Started, Unread, Credited
<1>3. TypeOK'
  BY <1>1, PipelineAssumption DEF IInv, TypeOK, Spawn, plan, Stages, Arrivals
<1>4. PendingInv'
  BY DEF Spawn, PendingInv
<1>5. ArrivalInv'
  <2>1. \A i \in 1..Len(arrivals) : arrivals[i].name # pending
    BY <1>1 DEF IInv, ArrivalInv
  <2>2. \A i \in 1..Len(arrivals) : arrivals[i].name \in needed
    BY ArrivalsAreNeeded DEF IInv, TypeOK
  <2>3. QED
    BY <2>1, <2>2, <1>1 DEF IInv, TypeOK, ArrivalInv, Spawn
<1>6. LaunchInv'
  <2>1. pending \notin ready /\ 0 \notin ready
    BY NAssumption DEF IInv, LaunchInv, TypeOK, Steps
  <2>2. \A s \in ready \union Started \union {pending} : graph[s] \subseteq Credited
    BY <1>1 DEF IInv, LaunchInv
  <2>3. \A s \in ready : stage'[s] = "idle"
    BY <2>1 DEF IInv, TypeOK, LaunchInv, Spawn
  <2>4. pending' = 0 /\ ready' = ready /\ graph' = graph
    BY DEF Spawn, plan
  <2>5. QED
    BY <1>2, <2>1, <2>2, <2>3, <2>4 DEF LaunchInv
<1>7. NoPartialInput'
  <2>1. seen[pending] = graph[pending] /\ graph[pending] \subseteq Succeeded
    BY <1>1 DEF IInv, LaunchInv, PendingInv, Credited, Spawn
  <2>2. QED
    BY <1>2, <2>1 DEF IInv, NoPartialInput, Spawn, plan
<1>8. CountInv'
  BY <1>2 DEF IInv, CountInv, Spawn, plan
<1>9. Closed(graph, needed)' /\ ResultsInv'
  BY <1>1 DEF IInv, TypeOK, ResultsInv, Closed, Spawn, plan
<1>10. QED
  BY <1>3, <1>4, <1>5, <1>6, <1>7, <1>8, <1>9 DEF IInv

\* A receive credits the step whose arrival is read if it succeeded, and
\* nothing otherwise.
LEMMA CreditAfterReceive ==
    ASSUME IInv, arrivals # <<>>, arrivals' = Tail(arrivals),
           UNCHANGED <<needed, stage>>
    PROVE  /\ Head(arrivals).name \in needed \ Credited
           /\ Credited' = IF Head(arrivals).ok THEN Credited \union {Head(arrivals).name}
                                               ELSE Credited
           /\ Started' = Started
           /\ Succeeded' = Succeeded
           /\ arrivals' \in Seq(Arrivals)
           /\ ArrivalInv'
<1> DEFINE a == Head(arrivals)
<1>1. /\ arrivals' \in Seq(Arrivals)
      /\ a \in Arrivals
      /\ a = arrivals[1]
      /\ a.name \in Unread
      /\ Unread' = Unread \ {a.name}
      /\ Len(arrivals') = Len(arrivals) - 1
      /\ \A i \in 1..Len(arrivals') : arrivals'[i] = arrivals[i+1]
  BY UnreadAfterReceive DEF IInv, TypeOK
<1>2. Len(arrivals) \in Nat /\ Len(arrivals') \in Nat /\ 1 \in 1..Len(arrivals)
  BY <1>1 DEF IInv, TypeOK
<1>3. a.name \in Succeeded <=> a.ok
  <2>1. a.name \in needed /\ a.ok \in BOOLEAN
    BY <1>1 DEF Arrivals
  <2>2. stage[a.name] \in IF a.ok THEN {"sentOk", "overOk"} ELSE {"sentErr", "overErr"}
    BY <1>1, <1>2 DEF IInv, ArrivalInv
  <2>3. QED
    BY <2>1, <2>2 DEF Succeeded
<1>4. Succeeded' = Succeeded /\ Started' = Started
  BY DEF Succeeded, Started
<1>5. ArrivalInv'
  <2>1. \A i \in 1..Len(arrivals') : i + 1 \in 1..Len(arrivals)
    BY <1>1, <1>2
  <2>2. \A i, j \in 1..Len(arrivals') : arrivals'[j].name = arrivals'[i].name => j = i
    BY <1>1, <1>2, <2>1 DEF IInv, ArrivalInv
  <2>3. QED
    BY <1>1, <2>1, <2>2 DEF IInv, ArrivalInv
<1>6. a.name \in needed \ Credited
  BY <1>1 DEF Arrivals, Credited
<1>7. Credited' = IF a.ok THEN Credited \union {a.name} ELSE Credited
  BY <1>1, <1>3, <1>4, <1>6 DEF Credited
<1>8. QED
  BY <1>1, <1>4, <1>5, <1>6, <1>7

LEMMA ReadFailureInvariant == IInv /\ ReadFailure => IInv'
<1> SUFFICES ASSUME IInv, ReadFailure PROVE IInv'
  OBVIOUS
<1>1. /\ UNCHANGED <<needed, stage>>
      /\ arrivals # <<>>
      /\ arrivals' = Tail(arrivals)
      /\ ~Head(arrivals).ok
  BY DEF ReadFailure, plan, Credits
<1>2. /\ Head(arrivals).name \in needed
      /\ Credited' = Credited
      /\ Started' = Started
      /\ Succeeded' = Succeeded
      /\ arrivals' \in Seq(Arrivals)
      /\ ArrivalInv'
  BY <1>1, CreditAfterReceive
<1>3. TypeOK'
  <2>1. inFlight' \in 0..Limit
    BY PipelineAssumption DEF IInv, TypeOK, ReadFailure
  <2>2. stopped' \in BOOLEAN /\ echouees' \subseteq needed
    BY <1>2 DEF IInv, TypeOK, ReadFailure
  <2>3. arrivals' \in Seq(Arrivals')
    BY <1>1, <1>2 DEF Arrivals
  <2>4. QED
    BY <2>1, <2>2, <2>3 DEF IInv, TypeOK, ReadFailure, plan
<1>4. PendingInv'
  BY DEF IInv, PendingInv, ReadFailure, plan
<1>5. LaunchInv' /\ NoPartialInput' /\ CountInv'
  BY <1>2 DEF IInv, LaunchInv, NoPartialInput, CountInv, ReadFailure, plan
<1>6. Closed(graph, needed)' /\ ResultsInv'
  BY DEF IInv, ResultsInv, Closed, ReadFailure, plan
<1>7. QED
  BY <1>2, <1>3, <1>4, <1>5, <1>6 DEF IInv

\* The one place where a count reaches zero: the dependencies of the dependents
\* of the step just credited lose exactly that step.
LEMMA ReadSuccessInvariant == IInv /\ ReadSuccess => IInv'
<1> SUFFICES ASSUME IInv, ReadSuccess PROVE IInv'
  OBVIOUS
<1> DEFINE a == Head(arrivals).name
           dependents == {t \in needed : a \in graph[t]}
<1>1. /\ UNCHANGED <<plan, pc, stopped, echouees, pending, stage, seen, results,
                     journal, firstError, interrupted, outcome, late>>
      /\ UNCHANGED <<graph, needed, priority>>
      /\ arrivals # <<>>
      /\ arrivals' = Tail(arrivals)
      /\ Head(arrivals).ok
      /\ pc = "dispatch"
      /\ inFlight > 0
      /\ inFlight' = inFlight - 1
  BY DEF ReadSuccess, plan, Credits
<1>2. /\ remaining' = [t \in needed |-> IF t \in dependents THEN remaining[t] - 1 ELSE remaining[t]]
      /\ ready' = ready \union {t \in dependents : remaining'[t] = 0}
  BY DEF ReadSuccess, BecomesReady
<1>3. /\ a \in needed \ Credited
      /\ Credited' = Credited \union {a}
      /\ Started' = Started
      /\ Succeeded' = Succeeded
      /\ arrivals' \in Seq(Arrivals)
      /\ ArrivalInv'
  BY <1>1, CreditAfterReceive
<1>4. \A s \in needed : IsFiniteSet(graph[s] \ Credited)
  <2>1. \A s \in needed : IsFiniteSet(graph[s])
    BY DependenciesAreFinite DEF IInv, TypeOK
  <2>2. QED
    BY <2>1, FS_Subset
<1>5. ASSUME NEW s \in needed
      PROVE  remaining'[s] = Cardinality(graph[s] \ Credited')
  <2>1. graph[s] \ Credited' = (graph[s] \ Credited) \ {a}
    BY <1>3
  <2>2. CASE s \in dependents
    <3>1. a \in graph[s] \ Credited
      BY <2>2, <1>3
    <3>2. Cardinality((graph[s] \ Credited) \ {a}) = Cardinality(graph[s] \ Credited) - 1
      BY <3>1, <1>4, FS_RemoveElement
    <3>3. QED
      BY <2>1, <2>2, <3>2, <1>2 DEF IInv, CountInv
  <2>3. CASE s \notin dependents
    <3>1. (graph[s] \ Credited) \ {a} = graph[s] \ Credited
      BY <2>3
    <3>2. QED
      BY <2>1, <2>3, <3>1, <1>2 DEF IInv, CountInv
  <2>4. QED
    BY <2>2, <2>3
<1>6. CountInv'
  BY <1>1, <1>5 DEF CountInv
<1>7. ASSUME NEW s \in dependents, remaining'[s] = 0
      PROVE  graph[s] \subseteq Credited' /\ stage[s] = "idle" /\ s # pending
  <2>1. graph[s] \ Credited' = {}
    <3>1. IsFiniteSet(graph[s] \ Credited')
      <4>1. graph[s] \ Credited' \in SUBSET (graph[s] \ Credited)
        BY <1>3
      <4>2. QED
        BY <4>1, <1>4, FS_Subset
    <3>2. Cardinality(graph[s] \ Credited') = 0
      BY <1>5, <1>7
    <3>3. QED
      BY <3>1, <3>2, FS_EmptySet
  <2>2. ~(graph[s] \subseteq Credited)
    BY <1>3
  <2>3. s \notin Started /\ s # pending
    BY <2>2, NAssumption DEF IInv, LaunchInv, TypeOK, Steps
  <2>4. QED
    BY <2>1, <2>3 DEF Started
<1>8. LaunchInv'
  <2>1. \A s \in ready \union Started \union ({pending} \ {0}) : graph[s] \subseteq Credited'
    BY <1>3 DEF IInv, LaunchInv
  <2>2. \A s \in ready' : s \in ready \/ (s \in dependents /\ remaining'[s] = 0)
    BY <1>2
  <2>3. QED
    BY <1>1, <1>3, <1>7, <2>1, <2>2 DEF IInv, LaunchInv
<1>9. TypeOK'
  <2>1. inFlight' \in 0..Limit
    BY <1>1, PipelineAssumption DEF IInv, TypeOK
  <2>2. ready' \subseteq needed
    BY <1>2 DEF IInv, TypeOK
  <2>3. remaining' \in [needed -> Int]
    BY <1>2 DEF IInv, TypeOK
  <2>4. arrivals' \in Seq(Arrivals')
    BY <1>1, <1>3 DEF Arrivals
  <2>5. QED
    BY <1>1, <2>1, <2>2, <2>3, <2>4 DEF IInv, TypeOK
<1>10. PendingInv' /\ NoPartialInput' /\ Closed(graph, needed)' /\ ResultsInv'
  BY <1>1, <1>3 DEF IInv, PendingInv, NoPartialInput, Closed, ResultsInv
<1>11. QED
  BY <1>3, <1>6, <1>8, <1>9, <1>10 DEF IInv

\* A goroutine that announces its result credits nobody yet.
LEMMA NoCreditAfterSend ==
    ASSUME IInv, NEW s \in needed, stage[s] \in {"running", "computed"}, NEW ok \in BOOLEAN,
           stage' = [stage EXCEPT ![s] = IF ok THEN "sentOk" ELSE "sentErr"],
           Send(s, ok), UNCHANGED needed
    PROVE  /\ Credited' = Credited
           /\ Started' = Started
           /\ Succeeded \subseteq Succeeded'
           /\ stage' \in [needed -> Stages]
           /\ arrivals' \in Seq(Arrivals')
           /\ ArrivalInv'
<1>1. stage \in [needed -> Stages] /\ arrivals \in Seq(Arrivals) /\ Len(arrivals) \in Nat
  BY DEF IInv, TypeOK
<1>2. /\ arrivals' \in Seq(Arrivals)
      /\ Unread' = Unread \union {s}
      /\ Len(arrivals') = Len(arrivals) + 1
      /\ \A i \in 1..Len(arrivals) : arrivals'[i] = arrivals[i]
      /\ arrivals'[Len(arrivals) + 1] = [name |-> s, ok |-> ok]
  BY <1>1, UnreadAfterSend
<1>3. arrivals' \in Seq(Arrivals')
  BY <1>2 DEF Arrivals
<1>4. s \notin Succeeded
  BY DEF Succeeded
<1>5. Succeeded' = IF ok THEN Succeeded \union {s} ELSE Succeeded
  BY <1>1, <1>4 DEF Succeeded
<1>6. Started' = Started
  BY <1>1 DEF Started
<1>7. \A i \in 1..Len(arrivals) : arrivals[i].name # s /\ arrivals[i].name \in needed
  BY <1>1, ArrivalsAreNeeded DEF IInv, ArrivalInv
<1>8. ASSUME NEW i \in 1..Len(arrivals')
      PROVE  /\ stage'[arrivals'[i].name] \in
                    IF arrivals'[i].ok THEN {"sentOk", "overOk"} ELSE {"sentErr", "overErr"}
             /\ \A j \in 1..Len(arrivals') : arrivals'[j].name = arrivals'[i].name => j = i
  <2>1. CASE i \in 1..Len(arrivals)
    <3>1. stage'[arrivals'[i].name] = stage[arrivals[i].name] /\ arrivals'[i] = arrivals[i]
      BY <2>1, <1>1, <1>2, <1>7
    <3>2. \A j \in 1..Len(arrivals') : j \in 1..Len(arrivals) \/ j = Len(arrivals) + 1
      BY <1>1, <1>2
    <3>3. QED
      BY <2>1, <3>1, <3>2, <1>2, <1>7 DEF IInv, ArrivalInv
  <2>2. CASE i = Len(arrivals) + 1
    <3>1. arrivals'[i].name = s /\ arrivals'[i].ok = ok
      BY <2>2, <1>2
    <3>2. \A j \in 1..Len(arrivals') : j # i => j \in 1..Len(arrivals)
      BY <2>2, <1>1, <1>2
    <3>3. QED
      BY <3>1, <3>2, <1>1, <1>2, <1>7
  <2>3. QED
    BY <2>1, <2>2, <1>1, <1>2
<1>9. QED
  BY <1>1, <1>2, <1>3, <1>4, <1>5, <1>6, <1>8 DEF ArrivalInv, Credited, Stages

LEMMA StepFailsInvariant == ASSUME NEW s \in needed PROVE IInv /\ StepFails(s) => IInv'
<1> SUFFICES ASSUME IInv, StepFails(s) PROVE IInv'
  OBVIOUS
<1>1. /\ UNCHANGED <<plan, dispatcher, seen, results, journal, firstError,
                     interrupted, outcome, late>>
      /\ UNCHANGED <<graph, needed, priority>>
      /\ stage[s] = "running"
      /\ stage' = [stage EXCEPT ![s] = "sentErr"]
      /\ Send(s, FALSE)
  BY DEF StepFails, plan
<1>2. /\ Credited' = Credited
      /\ Started' = Started
      /\ Succeeded \subseteq Succeeded'
      /\ stage' \in [needed -> Stages]
      /\ arrivals' \in Seq(Arrivals')
      /\ ArrivalInv'
  BY <1>1, NoCreditAfterSend
<1>3. TypeOK' /\ PendingInv' /\ Closed(graph, needed)' /\ CountInv'
  BY <1>1, <1>2 DEF IInv, TypeOK, PendingInv, Closed, CountInv, dispatcher
<1>4. LaunchInv' /\ ResultsInv' /\ NoPartialInput'
  BY <1>1, <1>2 DEF IInv, TypeOK, LaunchInv, ResultsInv, NoPartialInput, dispatcher
<1>5. QED
  BY <1>2, <1>3, <1>4 DEF IInv

LEMMA StepReturnsInvariant == ASSUME NEW s \in needed PROVE IInv /\ StepReturns(s) => IInv'
<1> SUFFICES ASSUME IInv, StepReturns(s) PROVE IInv'
  OBVIOUS
<1>1. /\ UNCHANGED <<plan, dispatcher, seen, arrivals, journal, firstError,
                     interrupted, outcome, late>>
      /\ UNCHANGED <<graph, needed, priority>>
      /\ stage[s] = "running"
      /\ stage' = [stage EXCEPT ![s] = "computed"]
      /\ results' = results \union {s}
  BY DEF StepReturns, plan
<1>2. /\ Credited' = Credited
      /\ Started' = Started
      /\ Succeeded' = Succeeded
  BY <1>1 DEF IInv, TypeOK, Credited, Started, Succeeded, Unread
<1>3. ArrivalInv'
  <2>1. \A i \in 1..Len(arrivals) : arrivals[i].name # s /\ arrivals[i].name \in needed
    BY <1>1, ArrivalsAreNeeded DEF IInv, TypeOK, ArrivalInv
  <2>2. QED
    BY <1>1, <2>1 DEF IInv, TypeOK, ArrivalInv
<1>4. TypeOK'
  BY <1>1 DEF IInv, TypeOK, Stages, Arrivals, dispatcher
<1>5. PendingInv' /\ Closed(graph, needed)' /\ CountInv'
  BY <1>1, <1>2 DEF IInv, PendingInv, Closed, CountInv, dispatcher
<1>6. LaunchInv' /\ ResultsInv' /\ NoPartialInput'
  BY <1>1, <1>2 DEF IInv, TypeOK, LaunchInv, ResultsInv, NoPartialInput, dispatcher
<1>7. QED
  BY <1>3, <1>4, <1>5, <1>6 DEF IInv

LEMMA JournalInvariant ==
    ASSUME NEW s \in needed PROVE IInv /\ (Journal(s) \/ JournalFails(s)) => IInv'
<1> SUFFICES ASSUME IInv, Journal(s) \/ JournalFails(s) PROVE IInv'
  OBVIOUS
<1>1. PICK ok \in BOOLEAN :
          /\ stage' = [stage EXCEPT ![s] = IF ok THEN "sentOk" ELSE "sentErr"]
          /\ Send(s, ok)
  BY DEF Journal, JournalFails
<1>2. /\ UNCHANGED <<plan, dispatcher, seen, results, firstError, interrupted,
                     outcome, late>>
      /\ UNCHANGED <<graph, needed, priority>>
      /\ stage[s] = "computed"
      /\ journal' \subseteq needed
  BY DEF IInv, TypeOK, Journal, JournalFails, plan
<1>3. /\ Credited' = Credited
      /\ Started' = Started
      /\ Succeeded \subseteq Succeeded'
      /\ stage' \in [needed -> Stages]
      /\ arrivals' \in Seq(Arrivals')
      /\ ArrivalInv'
  BY <1>1, <1>2, NoCreditAfterSend
<1>4. TypeOK' /\ PendingInv' /\ Closed(graph, needed)' /\ CountInv'
  BY <1>2, <1>3 DEF IInv, TypeOK, PendingInv, Closed, CountInv, dispatcher
<1>5. LaunchInv' /\ ResultsInv' /\ NoPartialInput'
  BY <1>1, <1>2, <1>3 DEF IInv, TypeOK, LaunchInv, ResultsInv, NoPartialInput, dispatcher
<1>6. QED
  BY <1>3, <1>4, <1>5 DEF IInv

LEMMA GoroutineEndsInvariant ==
    ASSUME NEW s \in needed PROVE IInv /\ GoroutineEnds(s) => IInv'
<1> SUFFICES ASSUME IInv, GoroutineEnds(s) PROVE IInv'
  OBVIOUS
<1>1. /\ UNCHANGED <<plan, dispatcher, seen, results, arrivals, journal,
                     interrupted, outcome, late>>
      /\ UNCHANGED <<graph, needed, priority>>
      /\ stage[s] \in {"sentOk", "sentErr"}
      /\ stage' = [stage EXCEPT ![s] = IF stage[s] = "sentOk" THEN "overOk" ELSE "overErr"]
      /\ firstError' \in needed \union {0}
  BY DEF IInv, TypeOK, GoroutineEnds, plan
<1>2. /\ Credited' = Credited
      /\ Started' = Started
      /\ Succeeded' = Succeeded
  BY <1>1 DEF IInv, TypeOK, Credited, Started, Succeeded, Unread
<1>3. ArrivalInv'
  <2>1. \A i \in 1..Len(arrivals) : arrivals[i].name \in needed
    BY ArrivalsAreNeeded DEF IInv, TypeOK
  <2>2. QED
    BY <1>1, <2>1 DEF IInv, TypeOK, ArrivalInv
<1>4. TypeOK'
  BY <1>1 DEF IInv, TypeOK, Stages, Arrivals, dispatcher
<1>5. PendingInv' /\ Closed(graph, needed)' /\ CountInv'
  BY <1>1, <1>2 DEF IInv, PendingInv, Closed, CountInv, dispatcher
<1>6. LaunchInv' /\ ResultsInv' /\ NoPartialInput'
  BY <1>1, <1>2 DEF IInv, TypeOK, LaunchInv, ResultsInv, NoPartialInput, dispatcher
<1>7. QED
  BY <1>3, <1>4, <1>5, <1>6 DEF IInv

\* What touches neither the counts, the goroutines nor the channel.
LEMMA OtherInvariant == IInv /\ (Return \/ Interrupt \/ UNCHANGED vars) => IInv'
<1> SUFFICES ASSUME IInv, Return \/ Interrupt \/ UNCHANGED vars PROVE IInv'
  OBVIOUS
<1>1. UNCHANGED <<graph, needed, priority, ready, remaining, inFlight, stopped, echouees,
                  pending, stage, seen, results, arrivals, journal, firstError, late>>
  BY DEF Return, Interrupt, vars, plan, dispatcher, shared
<1>2. Credited' = Credited /\ Started' = Started /\ Succeeded' = Succeeded
  BY <1>1, SameCredits
<1>3. /\ pc' \in {"dispatch", "spawn", "returned"}
      /\ pc' = "spawn" <=> pc = "spawn"
  BY DEF IInv, TypeOK, Return, Interrupt, vars, dispatcher
<1>4. interrupted' \in BOOLEAN
  BY DEF IInv, TypeOK, Return, Interrupt, vars
<1>5. outcome' \in Outcomes
  <2>1. CASE Return
    <3>1. \A r \in SUBSET Steps, e \in SUBSET Steps, b \in BOOLEAN :
              [results |-> r, errors |-> e, nilResults |-> b] \in Outcomes
      BY DEF Outcomes
    <3>2. /\ results \subseteq Steps
          /\ echouees \subseteq Steps
          /\ firstError # 0 => firstError \in Steps
      BY DEF IInv, TypeOK
    <3>3. CASE ContinueOnError
      <4>1. outcome' = [results |-> results, errors |-> echouees, nilResults |-> FALSE]
        BY <2>1, <3>3 DEF Return
      <4>2. QED
        BY <4>1, <3>1, <3>2
    <3>4. CASE ~ContinueOnError /\ firstError = 0
      <4>1. outcome' = [results |-> results, errors |-> {}, nilResults |-> FALSE]
        BY <2>1, <3>4 DEF Return
      <4>2. QED
        BY <4>1, <3>1, <3>2
    <3>5. CASE ~ContinueOnError /\ firstError # 0
      <4>1. outcome' = [results |-> {}, errors |-> {firstError}, nilResults |-> TRUE]
        BY <2>1, <3>5 DEF Return
      <4>2. QED
        BY <4>1, <3>1, <3>2, <3>5
    <3>6. QED
      BY <3>3, <3>4, <3>5
  <2>2. CASE Interrupt \/ UNCHANGED vars
    BY <2>2 DEF IInv, TypeOK, Interrupt, vars
  <2>3. QED
    BY <2>1, <2>2
<1>6. TypeOK'
  BY <1>1, <1>3, <1>4, <1>5 DEF IInv, TypeOK, Arrivals
<1>7. PendingInv' /\ ArrivalInv' /\ CountInv' /\ ResultsInv'
  BY <1>1, <1>2, <1>3 DEF IInv, PendingInv, ArrivalInv, CountInv, ResultsInv
<1>8. LaunchInv' /\ NoPartialInput' /\ Closed(graph, needed)'
  BY <1>1, <1>2 DEF IInv, LaunchInv, NoPartialInput, Closed
<1>9. QED
  BY <1>6, <1>7, <1>8 DEF IInv

LEMMA StepInvariant == IInv /\ [Next]_vars => IInv'
<1> SUFFICES ASSUME IInv, [Next]_vars PROVE IInv'
  OBVIOUS
<1>1. CASE Dispatch
  BY <1>1, PickInvariant, SpawnInvariant, ReadFailureInvariant, ReadSuccessInvariant,
     OtherInvariant DEF Dispatch
<1>2. ASSUME NEW s \in needed, StepBody(s) \/ Plumbing(s)
      PROVE  IInv'
  BY <1>2, StepFailsInvariant, StepReturnsInvariant, JournalInvariant,
     GoroutineEndsInvariant DEF StepBody, Plumbing
<1>3. CASE Interrupt \/ Terminated \/ UNCHANGED vars
  BY <1>3, OtherInvariant DEF Terminated
<1>4. QED
  BY <1>1, <1>2, <1>3 DEF Next

\* Every step keeps the invariant of the dispatch, the panic and the cancellation of a
\* body included.
THEOREM Inductive == Spec => []IInv
BY InitInvariant, StepInvariant, PTL DEF Spec
-----------------------------------------------------------------------------
(* The theorems on a running dispatch                                     *)

\* Type correctness of the dispatcher's state, for every graph and limit.
THEOREM TypeCorrect == Spec => []TypeOK
<1>1. IInv => TypeOK
  BY DEF IInv
<1>2. QED
  BY <1>1, Inductive, PTL

\* No step runs on a partial or absent Results (Options.ContinueOnError), for
\* every graph, every limit, with or without failures and cancellation.
THEOREM CompleteInputs == Spec => []NoPartialInput
<1>1. IInv => NoPartialInput
  BY DEF IInv
<1>2. QED
  BY <1>1, Inductive, PTL

\* No step downstream of a failure is started, whatever the distance: the set
\* made of a started step and of all the successes is closed under
\* dependencies, so the closure of the step holds no failure.
THEOREM FailuresAreContained == Spec => []FailureContained
<1>1. ASSUME IInv, NEW f \in Failed, NEW s \in Started, f # s, f \in Needed(graph, {s})
      PROVE  FALSE
  <2> DEFINE S == {s} \union Succeeded
  <2>1. /\ needed \subseteq Steps
        /\ Succeeded \subseteq needed
        /\ Succeeded \subseteq Started
        /\ s \in needed
    BY <1>1 DEF IInv, TypeOK, Started, Succeeded
  <2>2. Closed(graph, S)
    <3>1. \A t \in Started : graph[t] \subseteq Succeeded
      BY <1>1 DEF IInv, NoPartialInput
    <3>2. QED
      BY <2>1, <3>1 DEF Closed
  <2>3. f \in S
    BY <1>1, <2>1, <2>2 DEF Needed
  <2>4. f \notin Succeeded
    BY DEF Failed, Succeeded
  <2>5. QED
    BY <1>1, <2>3, <2>4
<1>2. IInv => FailureContained
  BY <1>1 DEF FailureContained, Downstream
<1>3. QED
  BY <1>2, Inductive, PTL
-----------------------------------------------------------------------------
(* The end invariant holds initially                                       *)

LEMMA InitEnd == Init => EndInv
<1> SUFFICES ASSUME Init PROVE EndInv
  OBVIOUS
<1>1. IInv
  BY InitInvariant
<1>2. /\ InFlightSteps = {}
      /\ Failed = {}
      /\ late = {}
      /\ inFlight = 0
      /\ stopped = FALSE
  BY DEF Init, InFlightSteps, Failed, Unread
<1>3. InFlightIsExact
  BY <1>2, FS_EmptySet, PipelineAssumption DEF InFlightIsExact
<1>4. ReadyInv
  BY DEF Init, ReadyInv
<1>5. LateInv
  BY <1>2, FS_EmptySet, PipelineAssumption DEF LateInv
<1>6. QED
  BY <1>1, <1>2, <1>3, <1>4, <1>5 DEF EndInv, StoppedInv
-----------------------------------------------------------------------------
(* The end invariant is preserved                                          *)

\* The late steps are among the steps in flight, with a failed one besides.
LEMMA LateIsBounded ==
    ASSUME TypeOK, ArrivalInv, InFlightIsExact,
           NEW p \in 1..Len(arrivals), ~arrivals[p].ok,
           \A s \in late : \/ stage[s] \in {"running", "computed"}
                           \/ \E j \in 1..Len(arrivals) : j > p /\ arrivals[j].name = s
    PROVE  Cardinality(late) < inFlight
<1> DEFINE f == arrivals[p].name
<1>1. /\ f \in needed
      /\ stage[f] \in {"sentErr", "overErr"}
      /\ \A j \in 1..Len(arrivals) : arrivals[j].name = f => j = p
  BY ArrivalsAreNeeded DEF TypeOK, ArrivalInv
<1>2. f \in InFlightSteps
  BY <1>1 DEF InFlightSteps, Unread
<1>3. late \subseteq InFlightSteps \ {f}
  <2>1. Len(arrivals) \in Nat
    BY DEF TypeOK
  <2>2. \A s \in late : s # f /\ s \in needed
    BY SMTT(30), <1>1, <2>1 DEF TypeOK
  <2>3. QED
    BY <2>1, <2>2 DEF InFlightSteps, Unread
<1>4. IsFiniteSet(InFlightSteps) /\ Cardinality(InFlightSteps) = inFlight
  BY StepsAreFinite DEF InFlightIsExact, InFlightSteps, TypeOK
<1>5. /\ IsFiniteSet(InFlightSteps \ {f})
      /\ Cardinality(InFlightSteps \ {f}) = inFlight - 1
  BY <1>2, <1>4, FS_RemoveElement
<1>6. Cardinality(late) <= inFlight - 1
  BY <1>3, <1>5, FS_Subset
<1>7. Cardinality(late) \in Nat
  BY StepsAreFinite DEF TypeOK
<1>8. QED
  BY <1>6, <1>7 DEF TypeOK

LEMMA PickEnd == EndInv /\ Pick => EndInv'
<1> SUFFICES ASSUME EndInv, Pick PROVE EndInv'
  OBVIOUS
<1>1. UNCHANGED <<needed, stage, arrivals, inFlight, late, stopped, remaining>>
  BY DEF Pick, plan
<1>2. InFlightSteps' = InFlightSteps /\ Failed' = Failed
  BY <1>1 DEF InFlightSteps, Unread, Failed
<1>3. ReadyInv'
  <2>1. pending = 0 /\ \A s \in needed : s # 0
    BY NAssumption DEF EndInv, IInv, PendingInv, Pick, TypeOK, Steps
  <2>2. QED
    BY <1>1, <2>1 DEF EndInv, ReadyInv, Pick
<1>4. InFlightIsExact' /\ StoppedInv' /\ LateInv'
  BY <1>1, <1>2 DEF EndInv, InFlightIsExact, StoppedInv, LateInv, Pick
<1>5. QED
  BY <1>3, <1>4, PickInvariant DEF EndInv

LEMMA SpawnEnd == EndInv /\ Spawn => EndInv'
<1> SUFFICES ASSUME EndInv, Spawn PROVE EndInv'
  OBVIOUS
<1>1. IInv'
  BY SpawnInvariant DEF EndInv
<1>2. /\ pending \in needed
      /\ stage[pending] = "idle"
      /\ UNCHANGED <<needed, arrivals, ready, remaining, stopped>>
      /\ stage' = [stage EXCEPT ![pending] = "running"]
      /\ inFlight' = inFlight + 1
      /\ ~stopped
  BY NAssumption DEF EndInv, IInv, PendingInv, LaunchInv, StoppedInv, TypeOK, Spawn, plan, Steps
<1>3. pending \notin Unread
  BY <1>2 DEF EndInv, IInv, ArrivalInv, Unread
<1>4. /\ InFlightSteps' = InFlightSteps \union {pending}
      /\ pending \notin InFlightSteps
      /\ Failed' = Failed
  BY <1>2, <1>3 DEF EndInv, IInv, TypeOK, InFlightSteps, Unread, Failed
<1>5. InFlightIsExact'
  <2>1. IsFiniteSet(InFlightSteps)
    BY StepsAreFinite DEF EndInv, IInv, TypeOK, InFlightSteps
  <2>2. Cardinality(InFlightSteps') = inFlight'
    BY <1>2, <1>4, <2>1, FS_AddElement DEF EndInv, InFlightIsExact
  <2>3. QED
    BY <1>1, <2>2, PipelineAssumption DEF InFlightIsExact, IInv, TypeOK
<1>6. ReadyInv'
  BY <1>2 DEF EndInv, IInv, TypeOK, ReadyInv
<1>7. StoppedInv'
  BY <1>2 DEF StoppedInv
<1>8. LateInv'
  <2> SUFFICES ASSUME ~ContinueOnError PROVE LateInv'
    BY DEF LateInv
  <2>1. CASE Failed = {}
    <3>1. late' = {}
      BY <2>1 DEF EndInv, LateInv, Spawn
    <3>2. QED
      BY <2>1, <3>1, <1>4, FS_EmptySet, PipelineAssumption DEF LateInv
  <2>2. CASE Failed # {}
    <3>1. PICK p \in 1..Len(arrivals) :
              /\ ~arrivals[p].ok
              /\ \A s \in late :
                    \/ stage[s] \in {"running", "computed"}
                    \/ \E j \in 1..Len(arrivals) : j > p /\ arrivals[j].name = s
      BY <1>2, <2>2 DEF EndInv, LateInv
    <3>2. late' = late \union {pending}
      BY <2>2 DEF Spawn
    <3>3. \A s \in late' :
              \/ stage'[s] \in {"running", "computed"}
              \/ \E j \in 1..Len(arrivals) : j > p /\ arrivals[j].name = s
      BY <1>2, <3>1, <3>2 DEF EndInv, IInv, TypeOK
    <3>4. Cardinality(late') < Limit
      <4>1. Cardinality(late) < inFlight
        BY <3>1, LateIsBounded DEF EndInv, IInv
      <4>2. Cardinality(late') <= Cardinality(late) + 1 /\ Cardinality(late) \in Nat
        <5>1. IsFiniteSet(late) /\ Cardinality(late) \in Nat
          BY StepsAreFinite DEF EndInv, IInv, TypeOK
        <5>2. Cardinality(late \union {pending}) =
                IF pending \in late THEN Cardinality(late) ELSE Cardinality(late) + 1
          BY <5>1, FS_AddElement
        <5>3. QED
          BY <3>2, <5>1, <5>2
      <4>3. Cardinality(late') \in Nat /\ inFlight < Limit
        BY <1>1, StepsAreFinite DEF EndInv, IInv, TypeOK, PendingInv, Spawn
      <4>4. QED
        BY <4>1, <4>2, <4>3, PipelineAssumption DEF EndInv, IInv, TypeOK
    <3>5. QED
      BY <1>2, <1>4, <2>2, <3>1, <3>3, <3>4 DEF LateInv
  <2>3. QED
    BY <2>1, <2>2
<1>9. QED
  BY <1>1, <1>5, <1>6, <1>7, <1>8 DEF EndInv

\* A receive takes one step out of flight.
LEMMA ReceiveEnd ==
    ASSUME EndInv, ReadFailure \/ ReadSuccess
    PROVE  /\ InFlightIsExact'
           /\ Failed' = Failed
           /\ UNCHANGED <<needed, stage, late, pc>>
           /\ Len(arrivals) \in Nat \ {0}
           /\ Head(arrivals) = arrivals[1]
           /\ Len(arrivals') = Len(arrivals) - 1
           /\ \A i \in 1..Len(arrivals') : arrivals'[i] = arrivals[i+1]
<1>1. /\ UNCHANGED <<needed, stage, late, pc>>
      /\ arrivals # <<>>
      /\ arrivals' = Tail(arrivals)
      /\ inFlight' = inFlight - 1
      /\ inFlight > 0
  BY DEF ReadFailure, ReadSuccess, plan
<1>2. /\ Head(arrivals) = arrivals[1]
      /\ Head(arrivals).name \in Unread
      /\ Unread' = Unread \ {Head(arrivals).name}
      /\ Len(arrivals') = Len(arrivals) - 1
      /\ \A i \in 1..Len(arrivals') : arrivals'[i] = arrivals[i+1]
  BY <1>1, UnreadAfterReceive DEF EndInv, IInv, TypeOK
<1>3. Len(arrivals) \in Nat \ {0}
  BY <1>1 DEF EndInv, IInv, TypeOK
<1>4. stage[Head(arrivals).name] \notin {"running", "computed"}
  <2>1. 1 \in 1..Len(arrivals)
    BY <1>3
  <2>2. QED
    BY <1>2, <2>1 DEF EndInv, IInv, ArrivalInv
<1>5. /\ InFlightSteps' = InFlightSteps \ {Head(arrivals).name}
      /\ Head(arrivals).name \in InFlightSteps
  BY <1>1, <1>2, <1>4 DEF InFlightSteps, Unread
<1>6. InFlightIsExact'
  <2>1. IsFiniteSet(InFlightSteps)
    BY StepsAreFinite DEF EndInv, IInv, TypeOK, InFlightSteps
  <2>2. Cardinality(InFlightSteps') = inFlight'
    BY <1>1, <1>5, <2>1, FS_RemoveElement DEF EndInv, InFlightIsExact
  <2>3. inFlight' <= Limit
    BY <1>1, PipelineAssumption DEF EndInv, IInv, TypeOK
  <2>4. QED
    BY <2>2, <2>3 DEF InFlightIsExact
<1>7. Failed' = Failed
  BY <1>1 DEF Failed
<1>8. QED
  BY <1>1, <1>2, <1>3, <1>6, <1>7

LEMMA ReadFailureEnd == EndInv /\ ReadFailure => EndInv'
<1> SUFFICES ASSUME EndInv, ReadFailure PROVE EndInv'
  OBVIOUS
<1>1. IInv'
  BY ReadFailureInvariant DEF EndInv
<1>2. /\ InFlightIsExact'
      /\ Failed' = Failed
      /\ UNCHANGED <<needed, stage, late, pc>>
      /\ Len(arrivals) \in Nat \ {0}
      /\ Head(arrivals) = arrivals[1]
  BY ReceiveEnd
<1>3. ReadyInv'
  BY <1>2 DEF EndInv, ReadyInv, ReadFailure
<1>4. stopped' = (stopped \/ ~ContinueOnError)
  BY PipelineAssumption DEF ReadFailure, FailureStops, EndInv, IInv, TypeOK
<1>5. Failed # {}
  <2>1. 1 \in 1..Len(arrivals) /\ ~arrivals[1].ok
    BY <1>2 DEF ReadFailure, Credits
  <2>2. arrivals[1].name \in Failed
    BY <2>1, ArrivalsAreNeeded DEF EndInv, IInv, TypeOK, ArrivalInv, Failed
  <2>3. QED
    BY <2>2
<1>6. StoppedInv'
  BY <1>2, <1>4, <1>5 DEF EndInv, StoppedInv, ReadFailure
<1>7. LateInv'
  BY <1>2, <1>4, <1>5 DEF EndInv, LateInv
<1>8. QED
  BY <1>1, <1>2, <1>3, <1>6, <1>7 DEF EndInv

LEMMA ReadSuccessEnd == EndInv /\ ReadSuccess => EndInv'
<1> SUFFICES ASSUME EndInv, ReadSuccess PROVE EndInv'
  OBVIOUS
<1>1. IInv'
  BY ReadSuccessInvariant DEF EndInv
<1>2. /\ InFlightIsExact'
      /\ Failed' = Failed
      /\ UNCHANGED <<needed, stage, late, pc, stopped, pending>>
      /\ Len(arrivals) \in Nat \ {0}
      /\ Head(arrivals) = arrivals[1]
      /\ Head(arrivals).ok
      /\ Len(arrivals') = Len(arrivals) - 1
      /\ \A i \in 1..Len(arrivals') : arrivals'[i] = arrivals[i+1]
  BY ReceiveEnd DEF ReadSuccess, Credits
<1>3. ReadyInv'
  <2> DEFINE dependents == {t \in needed : Head(arrivals).name \in graph[t]}
  <2>1. /\ remaining' = [t \in needed |->
              IF t \in dependents THEN remaining[t] - 1 ELSE remaining[t]]
        /\ ready' = ready \union {t \in dependents : remaining'[t] = 0}
    BY DEF ReadSuccess, BecomesReady
  <2>2. QED
    BY <1>2, <2>1 DEF EndInv, ReadyInv
<1>4. StoppedInv'
  BY <1>2 DEF EndInv, StoppedInv
<1>5. LateInv'
  <2> SUFFICES ASSUME ~ContinueOnError, Failed # {}, ~stopped
               PROVE  \E p \in 1..Len(arrivals') :
                          /\ ~arrivals'[p].ok
                          /\ \A s \in late :
                                \/ stage'[s] \in {"running", "computed"}
                                \/ \E j \in 1..Len(arrivals') : j > p /\ arrivals'[j].name = s
    BY <1>2 DEF EndInv, LateInv
  <2>1. PICK p \in 1..Len(arrivals) :
            /\ ~arrivals[p].ok
            /\ \A s \in late :
                  \/ stage[s] \in {"running", "computed"}
                  \/ \E j \in 1..Len(arrivals) : j > p /\ arrivals[j].name = s
    BY DEF EndInv, LateInv
  <2>2. p # 1
    BY <1>2, <2>1
  <2>3. p - 1 \in 1..Len(arrivals') /\ ~arrivals'[p-1].ok
    BY <1>2, <2>1, <2>2
  <2>4. ASSUME NEW s \in late, stage[s] \notin {"running", "computed"}
        PROVE  \E j \in 1..Len(arrivals') : j > p - 1 /\ arrivals'[j].name = s
    <3>1. PICK j \in 1..Len(arrivals) : j > p /\ arrivals[j].name = s
      BY <2>1, <2>4
    <3>2. j - 1 \in 1..Len(arrivals') /\ j - 1 > p - 1 /\ arrivals'[j-1].name = s
      BY <1>2, <2>1, <3>1
    <3>3. QED
      BY <3>2
  <2>5. QED
    BY <1>2, <2>3, <2>4
<1>6. QED
  BY <1>1, <1>2, <1>3, <1>4, <1>5 DEF EndInv

\* A goroutine that announces its result stays in flight, behind every arrival
\* already in the channel.
LEMMA SendEnd ==
    ASSUME EndInv, NEW s \in needed, StepFails(s) \/ Journal(s) \/ JournalFails(s)
    PROVE  EndInv'
<1>1. PICK ok \in BOOLEAN :
          /\ stage' = [stage EXCEPT ![s] = IF ok THEN "sentOk" ELSE "sentErr"]
          /\ Send(s, ok)
  BY DEF StepFails, Journal, JournalFails
<1>2. /\ UNCHANGED <<needed, late, pc, inFlight, stopped, pending, ready, remaining>>
      /\ stage[s] \in {"running", "computed"}
  BY DEF StepFails, Journal, JournalFails, plan, dispatcher
<1>3. IInv'
  BY StepFailsInvariant, JournalInvariant DEF EndInv
<1>4. /\ stage \in [needed -> Stages]
      /\ Len(arrivals) \in Nat
      /\ Unread' = Unread \union {s}
      /\ Len(arrivals') = Len(arrivals) + 1
      /\ \A i \in 1..Len(arrivals) : arrivals'[i] = arrivals[i]
      /\ arrivals'[Len(arrivals) + 1] = [name |-> s, ok |-> ok]
  BY <1>1, <1>2, UnreadAfterSend DEF EndInv, IInv, TypeOK
<1>5. InFlightSteps' = InFlightSteps
  BY <1>1, <1>2, <1>4 DEF InFlightSteps, Unread
<1>6. Failed' = IF ok THEN Failed ELSE Failed \union {s}
  BY <1>1, <1>2, <1>4 DEF Failed
<1>7. InFlightIsExact'
  BY <1>2, <1>5 DEF EndInv, InFlightIsExact
<1>8. ReadyInv'
  BY <1>1, <1>2, <1>4 DEF EndInv, ReadyInv
<1>9. StoppedInv'
  BY <1>2, <1>6 DEF EndInv, StoppedInv
<1>10. LateInv'
  <2> SUFFICES ASSUME ~ContinueOnError PROVE LateInv'
    BY DEF LateInv
  <2>1. CASE Failed' = {}
    <3>1. Failed = {}
      BY <1>6, <2>1
    <3>2. late' = {}
      BY <3>1, <1>2 DEF EndInv, LateInv
    <3>3. Cardinality(late') < Limit
      BY <3>2, FS_EmptySet, PipelineAssumption
    <3>4. QED
      BY <2>1, <3>2, <3>3 DEF LateInv
  <2>2. CASE Failed = {} /\ Failed' # {}
    <3>1. late = {} /\ ~ok
      BY <2>2, <1>6 DEF EndInv, LateInv
    <3>2. Len(arrivals) + 1 \in 1..Len(arrivals') /\ ~arrivals'[Len(arrivals) + 1].ok
      BY <1>4, <3>1
    <3>3. QED
      BY <1>2, <2>2, <3>1, <3>2 DEF EndInv, LateInv
  <2>3. CASE Failed # {}
    <3> SUFFICES ASSUME ~stopped
                 PROVE  \E p \in 1..Len(arrivals') :
                            /\ ~arrivals'[p].ok
                            /\ \A t \in late :
                                  \/ stage'[t] \in {"running", "computed"}
                                  \/ \E j \in 1..Len(arrivals') : j > p /\ arrivals'[j].name = t
      BY <1>2, <1>6, <2>3 DEF EndInv, LateInv
    <3>1. PICK p \in 1..Len(arrivals) :
              /\ ~arrivals[p].ok
              /\ \A t \in late :
                    \/ stage[t] \in {"running", "computed"}
                    \/ \E j \in 1..Len(arrivals) : j > p /\ arrivals[j].name = t
      BY <2>3 DEF EndInv, LateInv
    <3>2. p \in 1..Len(arrivals') /\ ~arrivals'[p].ok
      BY <1>4, <3>1
    <3>3. ASSUME NEW t \in late, stage'[t] \notin {"running", "computed"}
          PROVE  \E j \in 1..Len(arrivals') : j > p /\ arrivals'[j].name = t
      <4>1. CASE t = s
        <5>1. /\ Len(arrivals) + 1 \in 1..Len(arrivals')
              /\ Len(arrivals) + 1 > p
              /\ arrivals'[Len(arrivals) + 1].name = s
          BY <1>4
        <5>2. QED
          BY <4>1, <5>1
      <4>2. CASE t # s
        <5>1. stage'[t] = stage[t]
          BY <1>1, <1>4, <4>2 DEF EndInv, IInv, TypeOK
        <5>2. PICK j \in 1..Len(arrivals) : j > p /\ arrivals[j].name = t
          BY <3>1, <3>3, <5>1
        <5>3. j \in 1..Len(arrivals') /\ arrivals'[j].name = t
          BY <1>4, <5>2
        <5>4. QED
          BY <5>2, <5>3
      <4>3. QED
        BY <4>1, <4>2
    <3>4. QED
      BY <3>2, <3>3
  <2>4. QED
    BY <2>1, <2>2, <2>3
<1>11. QED
  BY <1>3, <1>7, <1>8, <1>9, <1>10 DEF EndInv

\* What leaves every step on its side of the announcement.
LEMMA QuietEnd ==
    ASSUME EndInv,
           \/ \E s \in needed : StepReturns(s) \/ GoroutineEnds(s)
           \/ Return \/ Interrupt \/ UNCHANGED vars
    PROVE  EndInv'
<1>1. IInv'
  BY StepReturnsInvariant, GoroutineEndsInvariant, OtherInvariant DEF EndInv
<1>2. /\ UNCHANGED <<needed, arrivals, late, inFlight, stopped, pending, ready, remaining>>
      /\ pc' = "spawn" <=> pc = "spawn"
  BY DEF StepReturns, GoroutineEnds, Return, Interrupt, vars, plan, dispatcher, shared
<1>3. /\ stage' \in [needed -> Stages]
      /\ \A t \in needed :
            /\ stage'[t] = "idle" <=> stage[t] = "idle"
            /\ stage'[t] \in {"running", "computed"} <=> stage[t] \in {"running", "computed"}
            /\ stage'[t] \in {"sentErr", "overErr"} <=> stage[t] \in {"sentErr", "overErr"}
  <2>1. CASE Return \/ Interrupt \/ UNCHANGED vars
    BY <2>1 DEF EndInv, IInv, TypeOK, Return, Interrupt, vars, shared
  <2>2. ASSUME NEW s \in needed, StepReturns(s)
        PROVE  <1>3!1 /\ <1>3!2
    BY <2>2 DEF EndInv, IInv, TypeOK, Stages, StepReturns
  <2>3. ASSUME NEW s \in needed, GoroutineEnds(s)
        PROVE  <1>3!1 /\ <1>3!2
    BY <2>3 DEF EndInv, IInv, TypeOK, Stages, GoroutineEnds
  <2>4. QED
    BY <2>1, <2>2, <2>3
<1>4. InFlightSteps' = InFlightSteps /\ Failed' = Failed
  BY <1>2, <1>3 DEF InFlightSteps, Unread, Failed
<1>5. InFlightIsExact'
  BY <1>2, <1>4 DEF EndInv, InFlightIsExact
<1>6. ReadyInv'
  BY <1>2, <1>3 DEF EndInv, ReadyInv
<1>7. StoppedInv'
  BY <1>2, <1>4 DEF EndInv, StoppedInv
<1>8. LateInv'
  <2>1. late \subseteq needed
    BY DEF EndInv, IInv, TypeOK
  <2>2. QED
    BY <1>2, <1>3, <1>4, <2>1 DEF EndInv, LateInv
<1>9. QED
  BY <1>1, <1>5, <1>6, <1>7, <1>8 DEF EndInv

LEMMA StepEnd == EndInv /\ [Next]_vars => EndInv'
<1> SUFFICES ASSUME EndInv, [Next]_vars PROVE EndInv'
  OBVIOUS
<1>1. CASE Dispatch
  BY <1>1, PickEnd, SpawnEnd, ReadFailureEnd, ReadSuccessEnd, QuietEnd DEF Dispatch
<1>2. ASSUME NEW s \in needed, StepBody(s) \/ Plumbing(s)
      PROVE  EndInv'
  BY <1>2, SendEnd, QuietEnd DEF StepBody, Plumbing
<1>3. CASE Interrupt \/ Terminated \/ UNCHANGED vars
  BY <1>3, QuietEnd DEF Terminated
<1>4. QED
  BY <1>1, <1>2, <1>3 DEF Next

\* Every step keeps the count of the slots and the completeness of the ready queue.
THEOREM EndInductive == Spec => []EndInv
BY InitEnd, StepEnd, PTL DEF Spec
-----------------------------------------------------------------------------
(* The theorems on the slots and the late starts                           *)

\* inFlight counts exactly the launched steps whose arrival is not read, and
\* stays within the limit: the launch loop alone bounds the concurrency.
THEOREM SlotsAreExact == Spec => []InFlightIsExact
<1>1. EndInv => InFlightIsExact
  BY DEF EndInv
<1>2. QED
  BY <1>1, EndInductive, PTL

\* Stopping on a failure lets through fewer than Limit further starts, for
\* every graph; with one slot, none.
THEOREM LateStartsAreBounded == Spec => []LateStartsBounded
<1>1. EndInv => LateStartsBounded
  BY DEF EndInv, LateInv, LateStartsBounded
<1>2. QED
  BY <1>1, EndInductive, PTL
-----------------------------------------------------------------------------
(* Pipeline implements GraphExecution                                      *)

LEMMA StatusOf ==
    ASSUME NEW s \in needed, stage[s] \in Stages
    PROVE  /\ Status[s] = "waiting" <=> stage[s] = "idle"
           /\ Status[s] = "running" <=> stage[s] \in {"running", "computed"}
           /\ Status[s] = "done" <=> stage[s] \in {"sentOk", "overOk"}
           /\ Status[s] = "failed" <=> stage[s] \in {"sentErr", "overErr"}
BY DEF Status, Stages

LEMMA WithStatus ==
    ASSUME TypeOK
    PROVE  /\ Abstract!With("running") = {s \in needed : stage[s] \in {"running", "computed"}}
           /\ Abstract!With("done") = Succeeded
           /\ Abstract!With("failed") = Failed
           /\ \A s \in needed :
                 Abstract!Startable(s) <=> stage[s] = "idle" /\ graph[s] \subseteq Succeeded
<1>1. \A s \in needed : stage[s] \in Stages
  BY DEF TypeOK
<1>2. Abstract!With("done") = Succeeded
  BY <1>1, StatusOf DEF Abstract!With, Succeeded
<1>3. QED
  BY <1>1, <1>2, StatusOf DEF Abstract!With, Abstract!Startable, Failed

LEMMA InitImplements == Init => Abstract!Init
<1> SUFFICES ASSUME Init PROVE Abstract!Init
  OBVIOUS
<1>1. /\ graph \in Abstract!Graphs
      /\ needed \subseteq Abstract!Steps
      /\ Abstract!Closed(graph, needed)
  <2>1. IInv
    BY InitInvariant
  <2>2. QED
    BY <2>1 DEF IInv, TypeOK, Closed, Abstract!Closed, Graphs, Abstract!Graphs, Steps, Abstract!Steps
<1>2. Status = [s \in needed |-> "waiting"]
  BY DEF Init, Status
<1>3. QED
  BY <1>1, <1>2 DEF Init, Abstract!Init

\* The changes of status, from the changes of stage.
LEMMA StatusExcept ==
    ASSUME TypeOK, NEW s \in needed, NEW st \in Stages,
           stage' = [stage EXCEPT ![s] = st], UNCHANGED needed
    PROVE  Status' = [Status EXCEPT ![s] =
               CASE st = "idle" -> "waiting"
                 [] st \in {"running", "computed"} -> "running"
                 [] st \in {"sentOk", "overOk"} -> "done"
                 [] OTHER -> "failed"]
BY DEF TypeOK, Status

LEMMA SpawnImplements == EndInv /\ Spawn => \E s \in needed : Abstract!Start(s)
<1> SUFFICES ASSUME EndInv, Spawn PROVE \E s \in needed : Abstract!Start(s)
  OBVIOUS
<1>1. /\ pending \in needed
      /\ pending # 0
      /\ stage' = [stage EXCEPT ![pending] = "running"]
      /\ UNCHANGED <<graph, needed>>
      /\ pc = "spawn" /\ pc' = "dispatch"
  <2>1. pending \in needed /\ needed \subseteq Steps
    BY DEF EndInv, IInv, PendingInv, TypeOK, Spawn
  <2>2. pending # 0
    BY <2>1, NAssumption DEF Steps
  <2>3. QED
    BY <2>1, <2>2 DEF Spawn, plan
<1>2. stage[pending] = "idle" /\ graph[pending] \subseteq Succeeded
  BY <1>1 DEF EndInv, IInv, LaunchInv, Credited
<1>3. TypeOK
  BY DEF EndInv, IInv
<1>4. Abstract!Startable(pending)
  BY <1>1, <1>2, <1>3, WithStatus
<1>5. Cardinality(Abstract!With("running")) < Limit
  <2>1. Abstract!With("running") \in SUBSET Holders
    BY <1>3, WithStatus DEF Holders
  <2>2. Holders \in SUBSET Steps
    BY <1>3 DEF Holders, TypeOK
  <2>3. /\ Cardinality(Abstract!With("running")) <= Cardinality(Holders)
        /\ Cardinality(Abstract!With("running")) \in Nat
        /\ Cardinality(Holders) \in Nat
    BY <2>1, <2>2, StepsAreFinite, FS_Subset
  <2>4. QED
    BY <2>3, PipelineAssumption DEF Spawn
<1>6. Status' = [Status EXCEPT ![pending] = "running"]
  BY <1>1, <1>3, StatusExcept DEF Stages
<1>7. ~(pc = "returned") /\ ~(pc' = "returned")
  BY <1>1
<1>8. UNCHANGED <<graph, needed, pc = "returned">>
  BY <1>1, <1>7
<1>9. \A S : Abstract!Cardinality(S) = Cardinality(S)
  BY DEF Abstract!Cardinality, Abstract!IsFiniteSet, Cardinality, IsFiniteSet
<1>10. Abstract!Start(pending)
  BY <1>4, <1>5, <1>6, <1>7, <1>8, <1>9, Zenon DEF Abstract!Start
<1>11. QED
  BY <1>1, <1>10

LEMMA SendImplements ==
    ASSUME EndInv, NEW s \in needed, StepFails(s) \/ Journal(s) \/ JournalFails(s)
    PROVE  Abstract!End(s)
<1>1. TypeOK
  BY DEF EndInv, IInv
<1>2. PICK st \in {"sentOk", "sentErr"} :
          /\ stage' = [stage EXCEPT ![s] = st]
          /\ stage[s] \in {"running", "computed"}
          /\ UNCHANGED <<graph, needed, pc>>
  BY DEF StepFails, Journal, JournalFails, plan, dispatcher
<1>3. Status[s] = "running"
  BY <1>1, <1>2, StatusOf DEF TypeOK
<1>4. \E v \in {"done", "failed"} : Status' = [Status EXCEPT ![s] = v]
  <2>1. CASE st = "sentOk"
    <3>1. Status' = [Status EXCEPT ![s] = "done"]
      BY <1>1, <1>2, <2>1, StatusExcept DEF Stages
    <3>2. QED
      BY <3>1
  <2>2. CASE st = "sentErr"
    <3>1. Status' = [Status EXCEPT ![s] = "failed"]
      BY <1>1, <1>2, <2>2, StatusExcept DEF Stages
    <3>2. QED
      BY <3>1
  <2>3. QED
    BY <2>1, <2>2
<1>5. QED
  BY <1>2, <1>3, <1>4 DEF Abstract!End

\* Once nothing is in flight the dispatcher has credited every success.
LEMMA NothingUnread ==
    ASSUME EndInv, inFlight = 0
    PROVE  Unread = {} /\ Credited = Succeeded
           /\ \A s \in needed : stage[s] \notin {"running", "computed"}
<1>1. IsFiniteSet(InFlightSteps)
  BY StepsAreFinite DEF EndInv, IInv, TypeOK, InFlightSteps
<1>2. Cardinality(InFlightSteps) = 0
  BY DEF EndInv, InFlightIsExact
<1>3. InFlightSteps = {}
  BY <1>1, <1>2, FS_EmptySet
<1>4. Unread \subseteq InFlightSteps
  BY DEF Unread, InFlightSteps
<1>5. QED
  BY <1>3, <1>4 DEF Credited, InFlightSteps

LEMMA ReturnImplements == EndInv /\ Return => Abstract!Close
<1> SUFFICES ASSUME EndInv, Return PROVE Abstract!Close
  OBVIOUS
<1>1. TypeOK
  BY DEF EndInv, IInv
<1>2. inFlight = 0 /\ pc = "dispatch" /\ pc' = "returned" /\ CannotLaunch
  BY DEF Return
<1>3. Credited = Succeeded /\ \A s \in needed : stage[s] \notin {"running", "computed"}
  BY <1>2, NothingUnread
<1>4. UNCHANGED <<graph, needed, stage>>
  BY DEF Return, plan, shared
<1>5. UNCHANGED Status
  BY <1>4 DEF Status
<1>6. Abstract!With("running") = {}
  BY <1>1, <1>3, WithStatus
<1>7. \/ \A s \in needed : ~Abstract!Startable(s)
      \/ ~ContinueOnError /\ Abstract!With("failed") # {}
  <2>1. CASE stopped
    BY <2>1, <1>1, WithStatus DEF EndInv, StoppedInv
  <2>2. CASE ready = {}
    <3>1. SUFFICES ASSUME NEW s \in needed, stage[s] = "idle", graph[s] \subseteq Credited
                   PROVE  FALSE
      BY <1>1, <1>3, WithStatus
    <3>2. remaining[s] = 0
      <4>1. graph[s] \ Credited = {}
        BY <3>1
      <4>2. QED
        BY <4>1, FS_EmptySet DEF EndInv, IInv, CountInv
    <3>3. s # pending
      <4>1. pending = 0 /\ needed \subseteq Steps
        BY <1>2 DEF EndInv, IInv, PendingInv, TypeOK
      <4>2. QED
        BY <4>1, NAssumption DEF Steps
    <3>4. QED
      BY <2>2, <3>1, <3>2, <3>3 DEF EndInv, ReadyInv
  <2>3. HasSlot
    BY <1>2, PipelineAssumption DEF HasSlot
  <2>4. QED
    BY <1>2, <2>1, <2>2, <2>3 DEF CannotLaunch
<1>8. ~(pc = "returned") /\ (pc = "returned")' = TRUE
  BY <1>2
<1>9. QED
  BY <1>4, <1>5, <1>6, <1>7, <1>8, Zenon DEF Abstract!Close

\* The actions the abstract execution does not see.
LEMMA QuietImplements ==
    ASSUME EndInv,
           \/ Pick \/ ReadFailure \/ ReadSuccess \/ Interrupt \/ UNCHANGED vars
           \/ \E s \in needed : StepReturns(s) \/ GoroutineEnds(s)
    PROVE  UNCHANGED Abstract!vars
<1>1. TypeOK
  BY DEF EndInv, IInv
<1>2. UNCHANGED <<graph, needed>> /\ (pc = "returned")' = (pc = "returned")
  <2>1. CASE Pick \/ ReadFailure \/ ReadSuccess \/ Interrupt \/ UNCHANGED vars
    BY <2>1 DEF Pick, ReadFailure, ReadSuccess, Interrupt, vars, plan, dispatcher
  <2>2. CASE \E s \in needed : StepReturns(s) \/ GoroutineEnds(s)
    BY <2>2 DEF StepReturns, GoroutineEnds, plan, dispatcher
  <2>3. QED
    BY <2>1, <2>2
<1>3. UNCHANGED Status
  <2>1. CASE Pick \/ ReadFailure \/ ReadSuccess \/ Interrupt \/ UNCHANGED vars
    <3>1. UNCHANGED <<stage, needed>>
      BY <2>1 DEF Pick, ReadFailure, ReadSuccess, Interrupt, vars, plan, shared
    <3>2. QED
      BY <3>1 DEF Status
  <2>2. ASSUME NEW s \in needed, StepReturns(s) PROVE UNCHANGED Status
    <3>1. stage' = [stage EXCEPT ![s] = "computed"] /\ UNCHANGED needed /\ stage[s] = "running"
      BY <2>2 DEF StepReturns, plan
    <3>2. QED
      BY <1>1, <3>1 DEF TypeOK, Status
  <2>3. ASSUME NEW s \in needed, GoroutineEnds(s) PROVE UNCHANGED Status
    <3>1. UNCHANGED needed
      BY <2>3 DEF GoroutineEnds, plan
    <3>2. CASE stage[s] = "sentOk"
      <4>1. stage' = [stage EXCEPT ![s] = "overOk"]
        BY <2>3, <3>2, <1>1 DEF GoroutineEnds, TypeOK
      <4>2. QED
        BY <1>1, <3>1, <3>2, <4>1 DEF TypeOK, Status
    <3>3. CASE stage[s] = "sentErr"
      <4>1. stage' = [stage EXCEPT ![s] = "overErr"]
        BY <2>3, <3>3, <1>1 DEF GoroutineEnds, TypeOK
      <4>2. QED
        BY <1>1, <3>1, <3>3, <4>1 DEF TypeOK, Status
    <3>4. QED
      BY <2>3, <3>2, <3>3 DEF GoroutineEnds
  <2>4. QED
    BY <2>1, <2>2, <2>3
<1>4. QED
  BY <1>2, <1>3, Zenon DEF Abstract!vars

LEMMA StepImplements == EndInv /\ [Next]_vars => [Abstract!Next]_(Abstract!vars)
<1> SUFFICES ASSUME EndInv, [Next]_vars PROVE Abstract!Next \/ UNCHANGED Abstract!vars
  OBVIOUS
<1>1. CASE Dispatch
  BY <1>1, SpawnImplements, ReturnImplements, QuietImplements DEF Dispatch, Abstract!Next
<1>2. ASSUME NEW s \in needed, StepBody(s) \/ Plumbing(s)
      PROVE  Abstract!Next \/ UNCHANGED Abstract!vars
  BY <1>2, SendImplements, QuietImplements DEF StepBody, Plumbing, Abstract!Next
<1>3. CASE Interrupt \/ Terminated \/ UNCHANGED vars
  BY <1>3, QuietImplements DEF Terminated
<1>4. QED
  BY <1>1, <1>2, <1>3 DEF Next

\* For every graph, limit and mode, the dispatcher executes the graph as
\* GraphExecution describes it: it starts a step only once its dependencies
\* have succeeded and a slot is free, and returns only when nothing runs and
\* nothing more can start, or, in stop mode, after a failure.
THEOREM Implements == Spec => ExecutesTheGraph
<1>1. Init => Abstract!Init
  BY InitImplements
<1>2. EndInv /\ [Next]_vars => [Abstract!Next]_(Abstract!vars)
  BY StepImplements
<1>3. QED
  BY <1>1, <1>2, EndInductive, PTL DEF Spec, ExecutesTheGraph, Abstract!Spec
-----------------------------------------------------------------------------
(* What Run returns                                                        *)

\* The invariant of what the end of Run reads: a failed goroutine that has ended has
\* left its error, a success its row in the journal, a result was computed by a step
\* that started, and echouees holds the failures read so far.
RunInv ==
    /\ \A s \in needed : stage[s] = "overErr" => firstError # 0
    /\ firstError # 0 => firstError \in Failed
    /\ Journaled => Succeeded \subseteq journal
    /\ results \subseteq Started
    /\ ContinueOnError => echouees = Failed \ Unread
    /\ pc = "returned" => Holders = {} /\ ReturnIsComplete /\ ReturnIsAllOrNothing

LEMMA LeastOf ==
    ASSUME NEW S \in SUBSET Nat, S # {}
    PROVE  \E m \in S : \A n \in S : m <= n
<1> DEFINE R == OpToRel(<, Nat)
<1>1. IsWellFoundedOn(R, Nat)
  BY NatLessThanWellFounded
<1>2. PICK m \in S : \A n \in S : ~(<<n, m>> \in R)
  BY <1>1, WFMin
<1>3. \A n \in S : <<n, m>> \in R <=> n < m
  BY DEF OpToRel
<1> HIDE DEF R
<1>4. \A n \in S : ~(n < m)
  BY <1>2, <1>3
<1>5. QED
  BY <1>4

\* When the launch loop has nothing left and every goroutine is over, a set of steps
\* closed under dependencies that holds no failure has succeeded entirely: its first
\* step, in declaration order, that never started would be ready.
LEMMA NothingIsForgotten ==
    ASSUME EndInv, Return, ~stopped, NEW C \in SUBSET needed, Closed(graph, C), C \intersect Failed = {}
    PROVE  C \subseteq Succeeded
<1>1. /\ needed \subseteq Steps /\ graph \in Graphs /\ stage \in [needed -> Stages]
      /\ inFlight = 0 /\ Holders = {} /\ pc = "dispatch" /\ ready = {}
  BY PipelineAssumption DEF Return, GroupIsOver, CannotLaunch, HasSlot, EndInv, IInv, TypeOK
<1>2. Credited = Succeeded
  BY <1>1, NothingUnread
<1>3. \A s \in C : s \in Started => s \in Succeeded
  BY <1>1 DEF Started, Succeeded, Holders, Failed, Stages
<1>4. C \subseteq Started
  <2> DEFINE U == C \ Started
  <2> SUFFICES ASSUME U # {} PROVE FALSE
    OBVIOUS
  <2>1. U \in SUBSET Nat
    <3>1. \A s \in Steps : s \in Nat
      BY NAssumption DEF Steps
    <3>2. QED
      BY <1>1, <3>1
  <2>2. PICK m \in U : \A n \in U : m <= n
    BY <2>1, LeastOf
  <2>3. m \in C /\ m \in Steps /\ m \in needed /\ stage[m] = "idle"
    BY <1>1, <2>2 DEF Started
  <2>4. graph[m] \subseteq C /\ graph[m] \subseteq 1..(m-1)
    BY <1>1, <2>3 DEF Closed, Graphs
  <2>5. \A d \in graph[m] : d \notin U
    BY <2>1, <2>2, <2>3, <2>4, NAssumption DEF Steps
  <2>6. graph[m] \subseteq Succeeded
    BY <1>3, <2>4, <2>5
  <2>7. remaining[m] = 0
    <3>1. graph[m] \ Credited = {}
      BY <1>2, <2>6
    <3>2. QED
      BY <2>3, <3>1, FS_EmptySet DEF EndInv, IInv, CountInv
  <2>8. m # pending
    BY <1>1, <2>3, NAssumption DEF EndInv, IInv, PendingInv, Steps
  <2>9. QED
    BY <1>1, <2>3, <2>7, <2>8 DEF EndInv, ReadyInv
<1>5. QED
  BY <1>3, <1>4

\* The three lines of Return, in both modes.
LEMMA ReturnReports ==
    ASSUME EndInv, RunInv, Return
    PROVE  ReturnIsComplete' /\ ReturnIsAllOrNothing' /\ Holders' = {}
<1>1. /\ UNCHANGED <<graph, needed, stage, results, journal, echouees, firstError>>
      /\ inFlight = 0 /\ Holders = {}
      /\ outcome' = IF ContinueOnError
                    THEN [results |-> results, errors |-> echouees, nilResults |-> FALSE]
                    ELSE IF firstError = 0
                    THEN [results |-> results, errors |-> {}, nilResults |-> FALSE]
                    ELSE [results |-> {}, errors |-> {firstError}, nilResults |-> TRUE]
  BY DEF Return, GroupIsOver, plan, shared
<1>2. /\ needed \subseteq Steps /\ graph \in Graphs /\ stage \in [needed -> Stages]
      /\ results \subseteq needed /\ journal \subseteq needed /\ Closed(graph, needed)
      /\ StoppedInv /\ ResultsInv
  BY DEF EndInv, IInv, TypeOK
<1>3. UNCHANGED <<Holders, Failed, Succeeded, Started>>
  BY <1>1 DEF Holders, Failed, Succeeded, Started
<1>4. Unread = {}
  BY <1>1, NothingUnread
<1>5. Started = Failed \union Succeeded /\ Succeeded \subseteq results
  BY <1>1, <1>2 DEF Started, Failed, Succeeded, Holders, Stages, ResultsInv
<1>6. ReturnIsComplete'
  <2> SUFFICES ASSUME ContinueOnError
               PROVE  /\ outcome'.errors = Failed
                      /\ \A s \in needed \ Started : \E f \in Failed : Downstream(graph, f, s)
                      /\ needed \ (outcome'.results \union echouees) = needed \ Started
    BY <1>1, <1>3 DEF ReturnIsComplete
  <2>1. outcome'.errors = Failed /\ outcome'.results = results /\ echouees = Failed
    BY <1>1, <1>4 DEF RunInv
  <2>2. results \subseteq Started
    BY DEF RunInv
  <2>3. ASSUME NEW s \in needed \ Started PROVE \E f \in Failed : Downstream(graph, f, s)
    <3> DEFINE C == Needed(graph, {s})
    <3>1. Closed(graph, C) /\ s \in C
      <4>1. s \in Steps /\ {s} \in SUBSET Steps
        BY <1>2
      <4>2. QED
        BY <1>2, <4>1, NeededIsClosed DEF Needed
    <3>2. C \subseteq needed
      BY <1>2 DEF Needed
    <3>3. ~stopped
      BY <1>2 DEF StoppedInv
    <3>4. PICK f \in C : f \in Failed
      BY <3>1, <3>2, <3>3, <1>5, NothingIsForgotten
    <3>5. f # s
      BY <1>5, <3>4
    <3>6. QED
      BY <3>4, <3>5 DEF Downstream
  <2>4. QED
    BY <1>5, <2>1, <2>2, <2>3
<1>7. ReturnIsAllOrNothing'
  <2> SUFFICES ASSUME ~ContinueOnError
               PROVE  /\ outcome'.nilResults <=> Failed # {}
                      /\ outcome'.nilResults => outcome'.errors # {}
                      /\ ~outcome'.nilResults =>
                            outcome'.results = needed /\ (Journaled => journal = needed)
    BY <1>1, <1>3 DEF ReturnIsAllOrNothing
  <2>1. CASE firstError # 0
    BY <1>1, <2>1 DEF RunInv
  <2>2. CASE firstError = 0
    <3>1. outcome' = [results |-> results, errors |-> {}, nilResults |-> FALSE]
      BY <1>1, <2>2
    <3>2. Failed = {}
      BY <1>1, <2>2 DEF RunInv, Failed, Holders
    <3>3. ~stopped
      BY <1>2, <3>2 DEF StoppedInv
    <3>4. needed \subseteq Succeeded
      BY <1>2, <3>2, <3>3, NothingIsForgotten
    <3>5. results = needed /\ (Journaled => journal = needed)
      BY <1>2, <1>5, <3>4 DEF RunInv
    <3>6. QED
      BY <3>1, <3>2, <3>5
  <2>3. QED
    BY <2>1, <2>2
<1>8. QED
  BY <1>1, <1>3, <1>6, <1>7

\* Once Run has returned nothing moves.
LEMMA ReturnedIsFinal ==
    ASSUME EndInv, RunInv, pc = "returned", [Next]_vars
    PROVE  UNCHANGED vars
<1>1. Holders = {}
  BY DEF RunInv
<1>2. ~Dispatch /\ ~Interrupt
  BY DEF Dispatch, Pick, Spawn, ReadFailure, ReadSuccess, Return, Interrupt
<1>3. ASSUME NEW s \in needed PROVE ~(StepBody(s) \/ Plumbing(s))
  BY <1>1 DEF Holders, StepBody, Plumbing, StepFails, StepReturns, Journal, JournalFails, GoroutineEnds
<1>4. QED
  BY <1>2, <1>3 DEF Next, Terminated

LEMMA RunUnchanged == RunInv /\ UNCHANGED vars => RunInv'
  BY DEF RunInv, vars, plan, dispatcher, shared, Failed, Succeeded, Started, Unread, Holders,
         ReturnIsComplete, ReturnIsAllOrNothing

\* The dispatcher: only a receive moves what the failures read are.
LEMMA DispatchRun == EndInv /\ RunInv /\ Dispatch => RunInv'
<1> SUFFICES ASSUME EndInv, RunInv, Dispatch PROVE RunInv'
  OBVIOUS
<1>1. stage \in [needed -> Stages] /\ needed' = needed /\ firstError' = firstError
      /\ results' = results /\ journal' = journal
  BY DEF EndInv, IInv, TypeOK, Dispatch, Pick, Spawn, ReadFailure, ReadSuccess, Return, plan, shared
<1>2. CASE Pick
  <2>1. UNCHANGED <<stage, arrivals, echouees>> /\ pc' # "returned"
    BY <1>2 DEF Pick
  <2>2. QED
    BY <1>1, <2>1 DEF RunInv, Failed, Succeeded, Started, Unread
<1>3. CASE Spawn
  <2>1. /\ pending \in needed /\ stage[pending] = "idle"
        /\ stage' = [stage EXCEPT ![pending] = "running"]
        /\ UNCHANGED <<arrivals, echouees>> /\ pc' # "returned"
    BY <1>3, NAssumption DEF Spawn, EndInv, IInv, PendingInv, LaunchInv, TypeOK, Steps
  <2>2. /\ Failed' = Failed /\ Succeeded' = Succeeded /\ Started \subseteq Started' /\ Unread' = Unread
    BY <1>1, <2>1 DEF Failed, Succeeded, Started, Unread
  <2>3. \A s \in needed : stage'[s] = "overErr" => stage[s] = "overErr"
    BY <1>1, <2>1
  <2>4. QED
    BY <1>1, <2>1, <2>2, <2>3 DEF RunInv
<1>4. CASE ReadFailure \/ ReadSuccess
  <2>1. /\ UNCHANGED stage /\ pc' # "returned" /\ arrivals' = Tail(arrivals)
        /\ arrivals # <<>>
    BY <1>4 DEF ReadFailure, ReadSuccess
  <2>2. /\ Head(arrivals) = arrivals[1] /\ Head(arrivals).name \in Unread
        /\ Unread' = Unread \ {Head(arrivals).name}
    BY <1>1, <2>1, UnreadAfterReceive DEF EndInv, IInv, TypeOK
  <2>3. 1 \in 1..Len(arrivals)
    BY <2>1 DEF EndInv, IInv, TypeOK
  <2>4. Head(arrivals).name \in IF Head(arrivals).ok THEN Succeeded ELSE Failed
    BY <2>2, <2>3 DEF EndInv, IInv, ArrivalInv, Succeeded, Failed, Unread
  <2>5. Failed' = Failed /\ Succeeded' = Succeeded /\ Started' = Started
        /\ Failed \intersect Succeeded = {}
    BY <1>1, <2>1 DEF Failed, Succeeded, Started
  <2>6. ContinueOnError => echouees' = Failed' \ Unread'
    <3>1. CASE ReadFailure
      <4>1. ~Head(arrivals).ok /\ (ContinueOnError => echouees' = echouees \union {Head(arrivals).name})
        BY <3>1 DEF ReadFailure, Credits, FailureStops
      <4>2. QED
        BY <2>2, <2>4, <2>5, <4>1 DEF RunInv
    <3>2. CASE ReadSuccess
      <4>1. Head(arrivals).ok /\ echouees' = echouees
        BY <3>2 DEF ReadSuccess, Credits
      <4>2. QED
        BY <2>2, <2>4, <2>5, <4>1 DEF RunInv
    <3>3. QED
      BY <1>4, <3>1, <3>2
  <2>7. QED
    BY <1>1, <2>1, <2>5, <2>6 DEF RunInv
<1>5. CASE Return
  <2>1. UNCHANGED <<stage, arrivals, echouees>>
    BY <1>5 DEF Return, shared
  <2>2. QED
    BY <1>1, <1>5, <2>1, ReturnReports DEF RunInv, Failed, Succeeded, Started, Unread
<1>6. QED
  BY <1>2, <1>3, <1>4, <1>5 DEF Dispatch

\* A goroutine announces a failure or a success.
LEMMA SendRun ==
    ASSUME EndInv, RunInv, pc # "returned", NEW s \in needed,
           StepFails(s) \/ Journal(s) \/ JournalFails(s)
    PROVE  RunInv'
<1>1. PICK ok \in BOOLEAN :
          /\ stage' = [stage EXCEPT ![s] = IF ok THEN "sentOk" ELSE "sentErr"]
          /\ Send(s, ok)
          /\ ok => Journal(s)
  BY DEF StepFails, Journal, JournalFails
<1>2. /\ UNCHANGED <<needed, pc, echouees, firstError, results>>
      /\ stage[s] \in {"running", "computed"} /\ stage \in [needed -> Stages]
      /\ journal \subseteq journal'
  BY DEF StepFails, Journal, JournalFails, plan, dispatcher, EndInv, IInv, TypeOK
<1>3. Unread' = Unread \union {s}
  BY <1>1, <1>2, UnreadAfterSend DEF EndInv, IInv, TypeOK
<1>4. /\ Failed' = (IF ok THEN Failed ELSE Failed \union {s})
      /\ Succeeded' = (IF ok THEN Succeeded \union {s} ELSE Succeeded)
      /\ Started' = Started /\ s \notin Failed
      /\ \A t \in needed : stage'[t] = "overErr" => stage[t] = "overErr"
  BY <1>1, <1>2 DEF Failed, Succeeded, Started
<1>5. Journaled => Succeeded' \subseteq journal'
  <2>1. ok /\ Journaled => s \in journal'
    BY <1>1 DEF Journal
  <2>2. QED
    BY <1>2, <1>4, <2>1 DEF RunInv
<1>6. QED
  BY <1>2, <1>3, <1>4, <1>5 DEF RunInv

\* A body that returns a value, a goroutine that ends, a signal.
LEMMA QuietRun ==
    ASSUME EndInv, RunInv, pc # "returned",
           (\E s \in needed : StepReturns(s) \/ GoroutineEnds(s)) \/ Interrupt
    PROVE  RunInv'
<1>1. /\ UNCHANGED <<needed, pc, echouees, arrivals, journal>>
      /\ stage \in [needed -> Stages] /\ needed \subseteq Steps
  BY DEF StepReturns, GoroutineEnds, Interrupt, plan, dispatcher, shared, EndInv, IInv, TypeOK
<1>2. CASE Interrupt
  BY <1>1, <1>2 DEF RunInv, Interrupt, shared, Failed, Succeeded, Started, Unread
<1>3. ASSUME NEW s \in needed, StepReturns(s) PROVE RunInv'
  <2>1. stage' = [stage EXCEPT ![s] = "computed"] /\ stage[s] = "running"
        /\ results' = results \union {s} /\ firstError' = firstError
    BY <1>3 DEF StepReturns
  <2>2. Failed' = Failed /\ Succeeded' = Succeeded /\ Started' = Started /\ Unread' = Unread /\ s \in Started
    BY <1>1, <2>1 DEF Failed, Succeeded, Started, Unread
  <2>3. \A t \in needed : stage'[t] = "overErr" => stage[t] = "overErr"
    BY <1>1, <2>1
  <2>4. QED
    BY <1>1, <2>1, <2>2, <2>3 DEF RunInv
<1>4. ASSUME NEW s \in needed, GoroutineEnds(s) PROVE RunInv'
  <2>1. /\ stage' = [stage EXCEPT ![s] = IF stage[s] = "sentOk" THEN "overOk" ELSE "overErr"]
        /\ stage[s] \in {"sentOk", "sentErr"} /\ results' = results
        /\ firstError' = IF firstError = 0 /\ stage[s] = "sentErr" THEN s ELSE firstError
    BY <1>4 DEF GoroutineEnds
  <2>2. Failed' = Failed /\ Succeeded' = Succeeded /\ Started' = Started /\ Unread' = Unread
    BY <1>1, <2>1 DEF Failed, Succeeded, Started, Unread
  <2>3. s # 0
    BY <1>1, NAssumption DEF Steps
  <2>4. \A t \in needed : stage'[t] = "overErr" => firstError' # 0
    BY <1>1, <2>1, <2>3 DEF RunInv
  <2>5. firstError' # 0 => firstError' \in Failed
    BY <2>1 DEF RunInv, Failed
  <2>6. QED
    BY <1>1, <2>1, <2>2, <2>4, <2>5 DEF RunInv
<1>5. QED
  BY <1>2, <1>3, <1>4

LEMMA InitRun == Init => RunInv
<1> SUFFICES ASSUME Init PROVE RunInv
  OBVIOUS
<1>1. Failed = {} /\ Succeeded = {} /\ firstError = 0 /\ results = {} /\ echouees = {}
      /\ pc = "dispatch" /\ \A s \in needed : stage[s] = "idle"
  BY DEF Init, Failed, Succeeded
<1>2. QED
  BY <1>1 DEF RunInv

LEMMA StepRun == EndInv /\ RunInv /\ [Next]_vars => RunInv'
<1> SUFFICES ASSUME EndInv, RunInv, [Next]_vars PROVE RunInv'
  OBVIOUS
<1>1. CASE pc = "returned" \/ UNCHANGED vars
  BY <1>1, ReturnedIsFinal, RunUnchanged
<1>2. CASE pc # "returned" /\ Next
  BY <1>2, DispatchRun, SendRun, QuietRun, RunUnchanged DEF Next, StepBody, Plumbing, Terminated
<1>3. QED
  BY <1>1, <1>2

\* Every step keeps what the results, the errors and the journal of a run say.
THEOREM RunInductive == Spec => []RunInv
<1>1. RunInv /\ EndInv /\ [Next]_vars => RunInv'
  BY StepRun
<1>2. QED
  BY <1>1, InitRun, EndInductive, PTL DEF Spec

\* In stop mode Run returns all or nothing, for every graph and limit.
THEOREM AllOrNothing == Spec => []ReturnIsAllOrNothing
<1>1. RunInv => ReturnIsAllOrNothing
  BY DEF RunInv, ReturnIsAllOrNothing
<1>2. QED
  BY <1>1, RunInductive, PTL

\* Under ContinueOnError a step that never ran is downstream of a failure, and every
\* failure is reported, for every graph and limit.
THEOREM CompleteReport == Spec => []ReturnIsComplete
<1>1. RunInv => ReturnIsComplete
  BY DEF RunInv, ReturnIsComplete
<1>2. QED
  BY <1>1, RunInductive, PTL
-----------------------------------------------------------------------------
(* The ingestion commands: a run of Pipeline beside the prefetch, which only *)
(* restrains the bodies of the steps                                        *)

LEMMA StepIsPipelineStep == NextPrefetch => [Next]_vars
<1> SUFFICES ASSUME NextPrefetch PROVE [Next]_vars
  OBVIOUS
<1>1. CASE RunStep
  BY <1>1 DEF RunStep, Next
<1>2. CASE Interrupt
  BY <1>2 DEF Next
<1>3. ASSUME NEW s \in needed, Enter(s) PROVE vars' = vars
  BY <1>3 DEF Enter
<1>4. ASSUME NEW s \in needed, Refused(s) \/ ConnectorEnds(s) PROVE Next
  BY <1>4 DEF Refused, ConnectorEnds, StepBody, Next
<1>5. ASSUME NEW t \in waiters, FileStarts(t) \/ FileEnds(t) PROVE vars' = vars
  BY <1>5 DEF FileStarts, FileEnds
<1>6. CASE Resolve
  BY <1>6 DEF Resolve
<1>7. CASE UNCHANGED allVars
  BY <1>7 DEF allVars
<1> QED
  BY <1>1, <1>2, <1>3, <1>4, <1>5, <1>6, <1>7 DEF NextPrefetch

\* An ingestion command executes its registry exactly as Registry.Run does: the
\* waits of prefetch.go never make it do what Pipeline cannot.
THEOREM RunsThePipeline == SpecPrefetch => Spec
<1>1. InitPrefetch => Init
  BY DEF InitPrefetch
<1>2. [NextPrefetch]_allVars => [Next]_vars
  BY StepIsPipelineStep DEF allVars
<1> QED
  BY <1>1, <1>2, PTL DEF SpecPrefetch, Spec

\* No step of an ingestion that is downstream of a failed one is ever started,
\* the failures that come from the prefetch included.
THEOREM PrefetchFailuresAreContained == SpecPrefetch => []FailureContained
  BY RunsThePipeline, FailuresAreContained, PTL
-----------------------------------------------------------------------------
(* The files and the connectors                                            *)

\* Once the future is resolved no download is left running, and either one has
\* failed or all are done; and a connector that waits for its files was called
\* when they were.
FilesInv ==
    /\ waveOver => Wave!With("running") = {}
    /\ waveOver => Wave!With("failed") # {} \/ Wave!With("done") = waiters
    /\ entered \intersect waiters # {} => waveOver /\ Wave!With("done") = waiters

Statuses == {"waiting", "running", "done", "failed"}
PrefetchType ==
    /\ waiters \in Dependants
    /\ download \in [waiters -> Statuses]
    /\ waveOver \in BOOLEAN

LEMMA FilesInitially == InitPrefetch => PrefetchType /\ FilesInv
  BY DEF InitPrefetch, PrefetchType, FilesInv, Statuses, Wave!With

\* A second run that closes without a failure has fetched everything.
LEMMA ClosesComplete ==
  ASSUME PrefetchType, Wave!Close, Wave!With("failed") = {}
  PROVE  Wave!With("done") = waiters
<1>1. ASSUME NEW t \in waiters PROVE download[t] = "done"
  <2>1. download[t] # "failed"
    BY DEF Wave!With
  <2>2. download[t] # "running"
    BY DEF Wave!Close, Wave!With
  <2>3. download[t] # "waiting"
    <3>1. t \in Steps
      BY DependantsAssumption DEF PrefetchType
    <3>2. ~Wave!Startable(t)
      BY DEF Wave!Close
    <3> QED
      BY <3>1, <3>2 DEF Wave!Startable
  <2> QED
    BY <2>1, <2>2, <2>3 DEF PrefetchType, Statuses
<1> QED
  BY <1>1 DEF Wave!With

\* The resolution of the future is final: nothing runs afterwards, so that what
\* was fetched stays as the connectors were told.
LEMMA FilesStep == PrefetchType /\ FilesInv /\ [NextPrefetch]_allVars => PrefetchType' /\ FilesInv'
<1> SUFFICES ASSUME PrefetchType, FilesInv, [NextPrefetch]_allVars PROVE PrefetchType' /\ FilesInv'
  OBVIOUS
<1>1. CASE UNCHANGED prefetchVars
  BY <1>1 DEF PrefetchType, FilesInv, prefetchVars, Wave!With
<1>2. ASSUME NEW t \in waiters, FileStarts(t) PROVE PrefetchType' /\ FilesInv'
  <2>1. /\ ~waveOver
        /\ download' = [download EXCEPT ![t] = "running"]
        /\ waiters' = waiters /\ entered' = entered /\ waveOver' = waveOver
    BY <1>2 DEF FileStarts, Wave!Start
  <2> QED
    BY <2>1 DEF PrefetchType, FilesInv, Statuses
<1>3. ASSUME NEW t \in waiters, FileEnds(t) PROVE PrefetchType' /\ FilesInv'
  <2>1. /\ download[t] = "running"
        /\ \E st \in {"done", "failed"} : download' = [download EXCEPT ![t] = st]
        /\ waiters' = waiters /\ entered' = entered /\ waveOver' = waveOver
    BY <1>3 DEF FileEnds, Wave!End
  <2>2. ~waveOver
    BY <2>1 DEF FilesInv, Wave!With
  <2> QED
    BY <2>1, <2>2 DEF PrefetchType, FilesInv, Statuses
<1>4. CASE Resolve
  <2>1. Wave!Close /\ waveOver' = TRUE
        /\ UNCHANGED <<waiters, entered, download>>
    BY <1>4 DEF Resolve, Wave!Close
  <2>2. Wave!With("running") = {} /\ ~waveOver
    BY <2>1 DEF Wave!Close
  <2>3. Wave!With("failed") # {} \/ Wave!With("done") = waiters
    BY <2>1, ClosesComplete
  <2> QED
    BY <2>1, <2>2, <2>3 DEF PrefetchType, FilesInv, Wave!With
<1>5. ASSUME NEW s \in needed, Enter(s) PROVE PrefetchType' /\ FilesInv'
  <2>1. /\ entered' = entered \union {s}
        /\ UNCHANGED <<waiters, download, waveOver>>
    BY <1>5 DEF Enter
  <2>2. s \in waiters => waveOver /\ Wave!With("failed") = {}
    BY <1>5 DEF Enter, MayEnter, WaveFailed
  <2> QED
    BY <2>1, <2>2 DEF PrefetchType, FilesInv, Wave!With
<1>6. ASSUME NEW s \in needed, Refused(s) \/ ConnectorEnds(s) PROVE UNCHANGED prefetchVars
  BY <1>6 DEF Refused, ConnectorEnds
<1> QED
  BY <1>1, <1>2, <1>3, <1>4, <1>5, <1>6 DEF NextPrefetch, RunStep, allVars

\* A connector that waits for its files is only called once all of them are
\* fetched, for every registry, every set of files, limit and mode.
THEOREM FilesComeFirst == SpecPrefetch => []FilesBeforeConnector
<1>1. PrefetchType /\ FilesInv => FilesBeforeConnector
  <2> SUFFICES ASSUME PrefetchType, FilesInv, NEW s \in entered \intersect waiters, NEW t \in waiters
               PROVE  download[t] = "done"
    BY DEF FilesBeforeConnector
  <2> QED
    BY DEF FilesInv, Wave!With
<1> QED
  BY <1>1, FilesInitially, FilesStep, PTL DEF SpecPrefetch

LEMMA EnteredStep == [NextPrefetch]_allVars => needed' = needed /\ entered' \subseteq entered \union needed
<1> SUFFICES ASSUME [NextPrefetch]_allVars
             PROVE  needed' = needed /\ entered' \subseteq entered \union needed
  OBVIOUS
<1>1. [Next]_vars
  BY StepIsPipelineStep DEF allVars
<1>2. needed' = needed
  <2>1. CASE Dispatch
    BY <2>1 DEF Dispatch, Pick, Spawn, ReadFailure, ReadSuccess, Return, plan
  <2>2. ASSUME NEW s \in needed, StepBody(s) PROVE needed' = needed
    BY <2>2 DEF StepBody, StepFails, StepReturns, plan
  <2>3. ASSUME NEW s \in needed, Plumbing(s) PROVE needed' = needed
    BY <2>3 DEF Plumbing, Journal, JournalFails, GoroutineEnds, plan
  <2>4. CASE Interrupt \/ UNCHANGED vars
    BY <2>4 DEF Interrupt, vars, plan
  <2> QED
    BY <1>1, <2>1, <2>2, <2>3, <2>4 DEF Next, Terminated
<1>3. ASSUME NEW s \in needed, Enter(s) PROVE entered' \subseteq entered \union needed
  BY <1>3 DEF Enter
<1>4. ASSUME NEW s \in needed, Refused(s) \/ ConnectorEnds(s) PROVE entered' = entered
  BY <1>4 DEF Refused, ConnectorEnds, prefetchVars
<1>5. ASSUME NEW t \in waiters, FileStarts(t) \/ FileEnds(t) PROVE entered' = entered
  BY <1>5 DEF FileStarts, FileEnds
<1>6. CASE RunStep \/ Resolve \/ UNCHANGED prefetchVars
  <2>1. entered' = entered
    BY <1>6 DEF RunStep, Resolve, prefetchVars
  <2> QED
    BY <1>2, <2>1
<1> QED
  <2>1. UNCHANGED allVars => UNCHANGED prefetchVars
    BY DEF allVars
  <2> QED
    BY <1>2, <1>3, <1>4, <1>5, <1>6, <2>1 DEF NextPrefetch

\* The state of an ingestion command keeps its type.
THEOREM PrefetchTypeCorrect == SpecPrefetch => []TypeOKPrefetch
<1>1. InitPrefetch => entered \subseteq needed
  BY DEF InitPrefetch
<1>2. entered \subseteq needed /\ [NextPrefetch]_allVars => (entered \subseteq needed)'
  BY EnteredStep
<1>3. TypeOK /\ PrefetchType /\ entered \subseteq needed => TypeOKPrefetch
  BY DEF PrefetchType, Statuses, TypeOKPrefetch
<1> QED
  BY <1>1, <1>2, <1>3, FilesInitially, FilesStep, RunsThePipeline, TypeCorrect, PTL DEF SpecPrefetch
-----------------------------------------------------------------------------
(* The steps that are lost                                                 *)

\* A step whose body is over although its connector was never called waited for the
\* second run, and heard its failure or a cancellation.
LostInv == \A s \in needed :
    stage[s] \notin {"idle", "running"} /\ s \notin entered =>
        s \in waiters /\ (WaveFailed \/ interrupted \/ ~ContinueOnError)

\* A failure of the second run is final.
LEMMA WaveStaysFailed ==
    ASSUME FilesInv, PrefetchType, [NextPrefetch]_allVars, WaveFailed
    PROVE  WaveFailed'
<1>1. waveOver /\ Wave!With("running") = {}
  BY DEF WaveFailed, FilesInv
<1>2. ASSUME NEW t \in waiters PROVE ~FileStarts(t) /\ ~FileEnds(t)
  BY <1>1 DEF FileStarts, FileEnds, Wave!Start, Wave!End, Wave!With
<1>3. ~Resolve
  BY <1>1 DEF Resolve, Wave!Close
<1>4. UNCHANGED <<waiters, download, waveOver>>
  BY <1>2, <1>3 DEF NextPrefetch, RunStep, Enter, Refused, ConnectorEnds, prefetchVars, allVars
<1>5. QED
  BY <1>4 DEF WaveFailed, Wave!With

\* A body only ends in a connector that was called, or in a wait that gave up.
LEMMA HowABodyEnds ==
    ASSUME TypeOK, [NextPrefetch]_allVars, NEW s \in needed,
           stage[s] \in {"idle", "running"}, stage'[s] \notin {"idle", "running"}
    PROVE  s \in entered \/ Refused(s)
<1>0. stage \in [needed -> Stages] /\ stage' # stage
  BY DEF TypeOK
<1>1. CASE Dispatch
  <2>1. stage' = stage \/ stage' = [stage EXCEPT ![pending] = "running"]
    BY <1>1 DEF Dispatch, Pick, Spawn, ReadFailure, ReadSuccess, Return, shared
  <2>2. QED
    BY <1>0, <2>1
<1>2. ASSUME NEW t \in needed, Plumbing(t) PROVE FALSE
  <2>1. /\ stage[t] \notin {"idle", "running"}
        /\ \E v \in Stages : stage' = [stage EXCEPT ![t] = v]
    BY <1>2 DEF Plumbing, Journal, JournalFails, GoroutineEnds, Stages
  <2>2. QED
    BY <1>0, <2>1
<1>3. ASSUME NEW t \in needed, Refused(t) PROVE Refused(s)
  <2>1. stage' = [stage EXCEPT ![t] = "sentErr"]
    BY <1>3 DEF Refused, StepFails
  <2>2. QED
    BY <1>0, <1>3, <2>1
<1>4. ASSUME NEW t \in needed, ConnectorEnds(t) PROVE s \in entered
  <2>1. t \in entered /\ \E v \in Stages : stage' = [stage EXCEPT ![t] = v]
    BY <1>4 DEF ConnectorEnds, StepBody, StepFails, StepReturns, Stages
  <2>2. QED
    BY <1>0, <2>1
<1>5. ASSUME UNCHANGED vars PROVE FALSE
  BY <1>0, <1>5 DEF vars, shared
<1>6. ~Interrupt
  BY <1>0 DEF Interrupt, shared
<1>7. QED
  BY <1>1, <1>2, <1>3, <1>4, <1>5, <1>6
  DEF NextPrefetch, RunStep, Enter, FileStarts, FileEnds, Resolve, allVars

LEMMA InterruptedStays == [Next]_vars /\ interrupted => interrupted'
<1> SUFFICES ASSUME [Next]_vars, interrupted PROVE interrupted'
  OBVIOUS
<1>1. CASE Dispatch
  BY <1>1 DEF Dispatch, Pick, Spawn, ReadFailure, ReadSuccess, Return
<1>2. ASSUME NEW s \in needed, StepBody(s) \/ Plumbing(s) PROVE interrupted'
  BY <1>2 DEF StepBody, StepFails, StepReturns, Plumbing, Journal, JournalFails, GoroutineEnds
<1>3. CASE Interrupt \/ UNCHANGED vars
  BY <1>3 DEF Interrupt, vars
<1>4. QED
  BY <1>1, <1>2, <1>3 DEF Next, Terminated

LEMMA LostStep ==
    TypeOK /\ PrefetchType /\ FilesInv /\ LostInv /\ [NextPrefetch]_allVars => LostInv'
<1> SUFFICES ASSUME TypeOK, PrefetchType, FilesInv, LostInv, [NextPrefetch]_allVars, NEW s \in needed,
                    stage'[s] \notin {"idle", "running"}, s \notin entered'
             PROVE  s \in waiters' /\ (WaveFailed' \/ interrupted' \/ ~ContinueOnError)
  BY EnteredStep DEF LostInv
<1>1. waiters' = waiters /\ entered \subseteq entered' /\ (interrupted => interrupted')
  <2>1. waiters' = waiters /\ entered \subseteq entered'
    BY DEF NextPrefetch, RunStep, Enter, Refused, ConnectorEnds, FileStarts, FileEnds, Resolve,
           Wave!Close, prefetchVars, allVars
  <2>2. [Next]_vars
    BY StepIsPipelineStep DEF allVars
  <2>3. QED
    BY <2>1, <2>2, InterruptedStays
<1>2. s \in waiters /\ (WaveFailed \/ interrupted \/ ~ContinueOnError)
  <2>1. CASE stage[s] \notin {"idle", "running"}
    BY <1>1, <2>1 DEF LostInv
  <2>2. CASE stage[s] \in {"idle", "running"}
    <3>1. Refused(s)
      BY <1>1, <2>2, HowABodyEnds
    <3>2. QED
      BY <3>1 DEF Refused, Waiting, GivesUp, StepCtxCancelled
  <2>3. QED
    BY <2>1, <2>2
<1>3. QED
  BY <1>1, <1>2, WaveStaysFailed

\* In a run nobody interrupts, under ContinueOnError, a step whose connector was never
\* called waited for the second run, which failed, or is downstream of a failure.
THEOREM OnlyWaitersAreLost == SpecPrefetch => []OnlyDependantsAreLost
<1>1. TypeOK /\ RunInv /\ LostInv => OnlyDependantsAreLost
  <2> SUFFICES ASSUME TypeOK, RunInv, LostInv, pc = "returned", ContinueOnError, ~interrupted,
                      NEW s \in needed \ entered
               PROVE  (s \in waiters /\ WaveFailed) \/ \E f \in Failed : Downstream(graph, f, s)
    BY DEF OnlyDependantsAreLost
  <2>1. Holders = {} /\ ReturnIsComplete
    BY DEF RunInv
  <2>2. CASE s \in Started
    BY <2>1, <2>2 DEF LostInv, Started, Holders
  <2>3. CASE s \notin Started
    BY <2>1, <2>3 DEF ReturnIsComplete
  <2>4. QED
    BY <2>2, <2>3
<1>2. InitPrefetch => LostInv
  BY DEF InitPrefetch, Init, LostInv
<1>3. QED
  BY <1>1, <1>2, LostStep, FilesInitially, FilesStep, RunsThePipeline, TypeCorrect, RunInductive, PTL
  DEF SpecPrefetch

\* An ingestion command reports every failure and leaves out only what depends on one.
THEOREM PrefetchReportIsComplete == SpecPrefetch => []ReturnIsComplete
  BY RunsThePipeline, CompleteReport, PTL
=============================================================================

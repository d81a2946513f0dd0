--------------------------- MODULE IngestionProofs ---------------------------
(***************************************************************************)
(* Proofs about Ingestion, for every catalogue of sources, every crew, limit *)
(* and pool, and whatever fails, is killed or is run again.                 *)
(***************************************************************************)
EXTENDS Ingestion, FiniteSetTheorems, SequenceTheorems, NaturalsInduction, WellFoundedInduction, TLAPS

Running(s) == phase[s] = "running"

-----------------------------------------------------------------------------
(* Operations and the queue                                                *)

\* The operation under way is one of the steps of its source.
LEMMA CurrentStep ==
  ASSUME NEW s \in crew, NEW op \in Current(s), crew \in Crews, pc[s] \in 1..(Len(Steps[s]) + 1)
  PROVE  /\ Running(s) /\ s \in DOMAIN Chain
         /\ Len(Steps[s]) \in Nat /\ DOMAIN Steps[s] = 1..Len(Steps[s])
         /\ pc[s] \in DOMAIN Steps[s] /\ op = Steps[s][pc[s]] /\ op \in OpsOf(s)
         /\ op.script \in DOMAIN Chain[s].runs
         /\ pc[s] + 1 \in 1..(Len(Steps[s]) + 1)
<1>1. /\ Running(s) /\ pc[s] <= Len(Steps[s]) /\ op = Steps[s][pc[s]]
  BY DEF Current, Running
<1>2. s \in DOMAIN Chain
  BY IngestionAssumption
<1>3. Len(Steps[s]) \in Nat /\ DOMAIN Steps[s] = 1..Len(Steps[s])
  BY <1>2, StepsAssumption
<1>4. pc[s] \in DOMAIN Steps[s] /\ pc[s] + 1 \in 1..(Len(Steps[s]) + 1)
  BY <1>1, <1>3
<1>5. op \in OpsOf(s)
  BY <1>1, <1>4 DEF OpsOf, Range
<1>6. op.script \in DOMAIN Chain[s].runs
  BY <1>1, <1>2, <1>4, StepsAssumption
<1>7. QED
  BY <1>1, <1>2, <1>3, <1>4, <1>5, <1>6

\* The least of a set of numbers is one of them, and before the others.
LEMMA LeastIsIn ==
  ASSUME NEW S \in SUBSET Nat, S # {}
  PROVE  Min(S) \in S /\ \A n \in S : Min(S) <= n
<1> DEFINE R == OpToRel(<, Nat)
<1>1. IsWellFoundedOn(R, Nat)
  BY NatLessThanWellFounded
<1>2. PICK m \in S : \A n \in S : ~(<<n, m>> \in R)
  BY <1>1, WFMin
<1>3. \A n \in S : <<n, m>> \in R <=> n < m
  BY DEF OpToRel
<1> HIDE DEF R
<1>4. \A n \in S : ~(n < m)
  BY <1>2, <1>3
<1>5. \A n \in S : n \in Nat /\ m \in Nat
  OBVIOUS
<1>6. \A n \in S : m <= n
  BY <1>4, <1>5
<1>7. QED
  BY <1>6 DEF Min

\* Numbers after k and up to n.
LEMMA AfterUpTo ==
  ASSUME NEW n \in Nat, NEW k \in 1..n
  PROVE  /\ \A i \in 1..n : i \in Nat /\ i + 1 \in 1..(n + 1)
         /\ \A m \in (k + 1)..n : m \in 1..n /\ m > k
  OBVIOUS

\* Numbers around k.
LEMMA Around ==
  ASSUME NEW n \in Nat, NEW k \in 1..n
  PROVE  /\ \A e \in 1..k : 1..e \subseteq 1..k /\ (e # k => e \in 1..(k - 1))
         /\ \A q, m \in 1..n : q < k + 1 /\ k + 1 <= m /\ q # k => q < k /\ k <= m /\ m # k
         /\ \A l \in 1..n : \A i \in (k + 1)..(l - 1) : i \in 1..n /\ i > k /\ ~(l <= i)
OBVIOUS

\* What is skipped ends inside the script.
LEMMA SkipStays ==
  ASSUME NEW s \in DOMAIN Chain, NEW k \in DOMAIN Steps[s], Steps[s][k].do = "skip if recorded"
  PROVE  \E m \in DOMAIN Steps[s] :
            /\ Min({i \in DOMAIN Steps[s] : i > k /\ Steps[s][i].do = "record"}) = m
            /\ m > k /\ Steps[s][m].do = "record" /\ Spans(s, k, m)
<1> DEFINE following == {i \in DOMAIN Steps[s] : i > k /\ Steps[s][i].do = "record"}
<1>1. Len(Steps[s]) \in Nat /\ DOMAIN Steps[s] = 1..Len(Steps[s]) /\ k \in 1..Len(Steps[s])
  BY StepsAssumption
<1>2. PICK m \in (k + 1)..Len(Steps[s]) : Steps[s][m].do = "record"
  BY StepsAssumption
<1>3. m \in 1..Len(Steps[s]) /\ m > k
  BY <1>1, AfterUpTo
<1>4. m \in following
  BY <1>1, <1>2, <1>3
<1>5. \A i \in 1..Len(Steps[s]) : i \in Nat
  BY <1>1, AfterUpTo
<1>6. following \in SUBSET Nat
  BY <1>1, <1>5
<1>7. following # {}
  BY <1>4
<1> HIDE DEF following
<1>8. Min(following) \in following /\ \A i \in following : Min(following) <= i
  BY <1>6, <1>7, LeastIsIn
<1> DEFINE least == Min(following)
<1>9. /\ least \in DOMAIN Steps[s] /\ least > k /\ Steps[s][least].do = "record"
      /\ \A i \in DOMAIN Steps[s] : i > k /\ Steps[s][i].do = "record" => least <= i
  BY <1>8 DEF following
<1>10. \A i \in (k + 1)..(least - 1) : i \in DOMAIN Steps[s] /\ i > k /\ ~(least <= i)
  <2> HIDE DEF least
  <2>1. QED
    BY <1>1, <1>9, Around
<1>11. Spans(s, k, least)
  <2> HIDE DEF least
  <2>1. k < least
    BY <1>1, <1>9
  <2>2. QED
    BY <2>1, <1>9, <1>10 DEF Spans
<1>12. QED
  BY <1>9, <1>11 DEF following

\* What a sequence is without its element k.
LEMMA WithoutOne ==
  ASSUME NEW R, NEW q \in Seq(R), NEW k \in 1..Len(q)
  PROVE  /\ RemoveAt(q, k) \in Seq(R) /\ Len(RemoveAt(q, k)) = Len(q) - 1
         /\ \A i \in 1..(Len(q) - 1) : RemoveAt(q, k)[i] = IF i < k THEN q[i] ELSE q[i + 1]
<1> DEFINE left == SubSeq(q, 1, k - 1)
           right == SubSeq(q, k + 1, Len(q))
<1>1. Len(q) \in Nat /\ k \in Int /\ k - 1 \in Nat /\ Len(q) - k \in Nat /\ k + 1 \in Int
  OBVIOUS
<1>2. \A i \in 1..Len(q) : q[i] \in R
  OBVIOUS
<1>3. (\A i \in 1..(k - 1) : q[i] \in R) /\ (\A i \in (k + 1)..Len(q) : q[i] \in R)
  BY <1>1, <1>2
<1>4. left \in Seq(R) /\ Len(left) = k - 1 /\ \A i \in 1..(k - 1) : left[i] = q[i]
  <2>1. /\ left \in Seq(R)
        /\ Len(left) = IF 1 <= k - 1 THEN k - 1 - 1 + 1 ELSE 0
        /\ \A i \in 1..(k - 1 - 1 + 1) : left[i] = q[1 + i - 1]
    BY <1>1, <1>3, SubSeqProperties
  <2> HIDE DEF left
  <2>2. QED
    BY <2>1, <1>1
<1>5. right \in Seq(R) /\ Len(right) = Len(q) - k /\ \A i \in 1..(Len(q) - k) : right[i] = q[i + k]
  <2>1. /\ right \in Seq(R)
        /\ Len(right) = IF k + 1 <= Len(q) THEN Len(q) - (k + 1) + 1 ELSE 0
        /\ \A i \in 1..(Len(q) - (k + 1) + 1) : right[i] = q[k + 1 + i - 1]
    BY <1>1, <1>3, SubSeqProperties
  <2> HIDE DEF right
  <2>2. \A i \in 1..(Len(q) - k) : i \in 1..(Len(q) - (k + 1) + 1) /\ k + 1 + i - 1 = i + k
    BY <1>1
  <2>3. Len(right) = Len(q) - k
    BY <2>1, <1>1
  <2>4. QED
    BY <2>1, <2>2, <2>3
<1>6. RemoveAt(q, k) = left \o right
  BY DEF RemoveAt
<1> HIDE DEF left, right
<1>7. /\ left \o right \in Seq(R) /\ Len(left \o right) = Len(left) + Len(right)
      /\ \A i \in 1..Len(left) + Len(right) : (left \o right)[i] =
             IF i <= Len(left) THEN left[i] ELSE right[i - Len(left)]
  BY <1>4, <1>5, ConcatProperties
<1>8. Len(left) + Len(right) = Len(q) - 1
  BY <1>1, <1>4, <1>5
<1>9. ASSUME NEW i \in 1..(Len(q) - 1)
      PROVE  (left \o right)[i] = IF i < k THEN q[i] ELSE q[i + 1]
  <2>1. CASE i < k
    <3>1. i \in 1..(k - 1) /\ i <= Len(left)
      BY <2>1, <1>1, <1>4
    <3>2. QED
      BY <2>1, <3>1, <1>4, <1>7, <1>8
  <2>2. CASE ~(i < k)
    <3>1. i - (k - 1) \in 1..(Len(q) - k) /\ ~(i <= Len(left)) /\ (i - (k - 1)) + k = i + 1
      BY <2>2, <1>1, <1>4
    <3>2. (left \o right)[i] = right[i - (k - 1)]
      BY <3>1, <1>4, <1>7, <1>8
    <3>3. QED
      BY <2>2, <3>1, <3>2, <1>5
  <2>3. QED
    BY <2>1, <2>2
<1>10. QED
  BY <1>6, <1>7, <1>8, <1>9

\* A source waits for one lock at a time.
OnceQueued == \A i, j \in DOMAIN queue : queue[i].step = queue[j].step => i = j

\* What a request adds to a queue.
LEMMA OneMore ==
  ASSUME NEW R, NEW q \in Seq(R), NEW l \in R
  PROVE  /\ Append(q, l) \in Seq(R) /\ Range(Append(q, l)) = Range(q) \union {l}
         /\ (\A i, j \in DOMAIN q : q[i].step = q[j].step => i = j) /\ (\A m \in Range(q) : m.step # l.step)
              => \A i, j \in DOMAIN Append(q, l) : Append(q, l)[i].step = Append(q, l)[j].step => i = j
<1>1. /\ Append(q, l) \in Seq(R) /\ Len(q) \in Nat /\ DOMAIN q = 1..Len(q)
      /\ DOMAIN Append(q, l) = 1..(Len(q) + 1)
      /\ \A i \in 1..(Len(q) + 1) : Append(q, l)[i] = IF i <= Len(q) THEN q[i] ELSE l
  OBVIOUS
<1>2. \A i \in 1..(Len(q) + 1) : (i \in 1..Len(q) /\ i <= Len(q)) \/ (i = Len(q) + 1 /\ ~(i <= Len(q)))
  BY <1>1
<1>3. \A i \in 1..Len(q) : i \in 1..(Len(q) + 1) /\ i <= Len(q)
  BY <1>1
<1>4. Len(q) + 1 \in 1..(Len(q) + 1) /\ ~(Len(q) + 1 <= Len(q))
  BY <1>1
<1>5. Range(Append(q, l)) = Range(q) \union {l}
  BY <1>1, <1>2, <1>3, <1>4 DEF Range
<1>6. ASSUME \A i, j \in DOMAIN q : q[i].step = q[j].step => i = j, \A m \in Range(q) : m.step # l.step,
             NEW i \in 1..(Len(q) + 1), NEW j \in 1..(Len(q) + 1),
             Append(q, l)[i].step = Append(q, l)[j].step
      PROVE  i = j
  <2>1. \A n \in 1..Len(q) : q[n].step # l.step
    BY <1>1, <1>6 DEF Range
  <2>2. QED
    BY <1>1, <1>2, <1>6, <2>1
<1>7. QED
  BY <1>1, <1>5, <1>6

LEMMA LeavesTheQueue ==
  ASSUME NEW R, queue \in Seq(R), OnceQueued, NEW s
  PROVE  /\ Dequeued(s) \in Seq(R)
         /\ Range(Dequeued(s)) = {l \in Range(queue) : l.step # s}
         /\ \A i, j \in DOMAIN Dequeued(s) : Dequeued(s)[i].step = Dequeued(s)[j].step => i = j
<1>1. CASE Queued(s) = {}
  BY <1>1 DEF Dequeued, Queued, OnceQueued
<1>2. CASE Queued(s) # {}
  <2> DEFINE k == CHOOSE i \in DOMAIN queue : queue[i].step = s
  <2>1. \E i \in DOMAIN queue : queue[i].step = s
    BY <1>2 DEF Queued, Range
  <2>2. k \in DOMAIN queue /\ queue[k].step = s
    BY <2>1
  <2>3. Dequeued(s) = RemoveAt(queue, k)
    BY <1>2 DEF Dequeued
  <2> HIDE DEF k
  <2>4. Len(queue) \in Nat /\ DOMAIN queue = 1..Len(queue) /\ k \in 1..Len(queue)
    BY <2>2
  <2>5. /\ Dequeued(s) \in Seq(R) /\ Len(Dequeued(s)) = Len(queue) - 1
        /\ \A i \in 1..(Len(queue) - 1) : Dequeued(s)[i] = IF i < k THEN queue[i] ELSE queue[i + 1]
    BY <2>3, <2>4, WithoutOne
  <2>6. DOMAIN Dequeued(s) = 1..(Len(queue) - 1)
    BY <2>5
  <2>7. /\ Dequeued(s) \in Seq(R) /\ Len(Dequeued(s)) = Len(queue) - 1
        /\ DOMAIN Dequeued(s) = 1..(Len(queue) - 1)
        /\ \A i \in 1..(Len(queue) - 1) : Dequeued(s)[i] = IF i < k THEN queue[i] ELSE queue[i + 1]
    BY <2>5, <2>6
  <2>8. \A i \in 1..Len(queue) : queue[i].step = s <=> i = k
    BY <2>2, <2>4 DEF OnceQueued
  <2>9. Range(Dequeued(s)) = {l \in Range(queue) : l.step # s}
    <3>1. ASSUME NEW i \in 1..(Len(queue) - 1) PROVE Dequeued(s)[i] \in {l \in Range(queue) : l.step # s}
      <4>1. \E j \in 1..Len(queue) : j # k /\ Dequeued(s)[i] = queue[j]
        BY <2>4, <2>7
      <4>2. QED
        BY <4>1, <2>4, <2>8 DEF Range
    <3>2. ASSUME NEW j \in 1..Len(queue), queue[j].step # s PROVE queue[j] \in Range(Dequeued(s))
      <4>1. j # k
        BY <3>2, <2>2
      <4>2. \E i \in 1..(Len(queue) - 1) : Dequeued(s)[i] = queue[j]
        <5>1. CASE j < k
          <6>1. j \in 1..(Len(queue) - 1)
            BY <5>1, <2>4
          <6>2. QED
            BY <5>1, <6>1, <2>7
        <5>2. CASE j > k
          <6>1. j - 1 \in 1..(Len(queue) - 1) /\ ~(j - 1 < k) /\ (j - 1) + 1 = j
            BY <5>2, <2>4
          <6>2. QED
            BY <6>1, <2>7
        <5>3. QED
          BY <4>1, <5>1, <5>2, <2>4
      <4>3. QED
        BY <4>2, <2>7 DEF Range
    <3>3. QED
      BY <3>1, <3>2, <2>4, <2>7 DEF Range
  <2>10. ASSUME NEW i \in 1..(Len(queue) - 1), NEW j \in 1..(Len(queue) - 1),
                Dequeued(s)[i].step = Dequeued(s)[j].step
         PROVE  i = j
    <3> DEFINE at(n) == IF n < k THEN n ELSE n + 1
    <3>1. at(i) \in 1..Len(queue) /\ at(j) \in 1..Len(queue)
      BY <2>4
    <3>2. Dequeued(s)[i] = queue[at(i)] /\ Dequeued(s)[j] = queue[at(j)]
      BY <2>7
    <3>3. at(i) = at(j)
      BY <3>1, <3>2, <2>4, <2>10 DEF OnceQueued
    <3>4. QED
      BY <3>3, <2>4
  <2>11. QED
    BY <2>7, <2>9, <2>10
<1>3. QED
  BY <1>1, <1>2

-----------------------------------------------------------------------------
(* The invariant, source by source                                         *)

\* Every variable keeps its shape.
StateShape ==
  /\ crew \in Crews /\ contended = Contended(crew)
  /\ phase \in [crew -> Phases]
  /\ DOMAIN pc = crew /\ \A s \in crew : pc[s] \in 1..(Len(Steps[s]) + 1)
  /\ tx \subseteq crew
  /\ locks \subseteq LockRecords
  /\ queue \in Seq(LockRecords) /\ OnceQueued
  /\ served \in [Groups(crew) -> {"before", "new", "part", "gone"}]
  /\ DOMAIN pending = crew
  /\ recorded \subseteq UNION {{s} \X (DOMAIN Chain[s].runs) : s \in crew}
  /\ status \in [crew -> {"none", "RUNNING", "SUCCESS", "FAILED"}]
  /\ starts \in Nat

\* Only what runs, or closes its run, holds or waits for something.
HoldingInv(s) ==
  /\ s \in tx => phase[s] \in {"running", "closing"}
  /\ \A l \in locks \union Range(queue) : l.step = s => phase[s] \in {"running", "closing"}
  /\ IF s \in tx THEN AreChanges(pending[s]) ELSE pending[s] = NoChange

\* Between begin and commit a transaction is open, and a commit is to come.
TransactionInv(s) ==
  /\ phase[s] = "waiting" => pc[s] = 1
  /\ Running(s) =>
        /\ \A j \in 1..(pc[s] - 1) : Steps[s][j].do = "begin" /\ Follow(s, j + 1, pc[s] - 1) => s \in tx
        /\ s \in tx => \E m \in pc[s]..Len(Steps[s]) :
              /\ Steps[s][m].do = "commit"
              /\ \A i \in pc[s]..m : Steps[s][i].do # "skip if recorded"

\* The locks of a transaction are held in it; the others, and the request that
\* waits, are of the operation under way.
LockInv(s) ==
  /\ \A l \in locks : l.step = s /\ l.session = "transaction" => s \in tx
  /\ \A l \in locks : l.step = s /\ l.session = "statement" /\ Running(s) =>
        \E op \in Current(s) : l \in NeededLocks(s, op)
  /\ \A l \in Range(queue) : l.step = s =>
        Running(s) /\ \E op \in Current(s) : l \in MissingLocks(s, op)

\* A transaction changes rows of its source, and fills what it removed.
RowsInv(s) ==
  \A g \in DOMAIN pending[s] :
    /\ Touches(s, g)
    /\ Running(s) /\ pending[s][g] = "gone" /\ g \notin ErasedFirst =>
          \E m \in pc[s]..Len(Steps[s]) : Fills(s, m, g) /\ Follow(s, pc[s], m)

SourceInv(s) == HoldingInv(s) /\ TransactionInv(s) /\ LockInv(s) /\ RowsInv(s)

\* What has started had its dependencies done.
LaunchInv ==
  \A s \in crew : phase[s] # "waiting" => \A d \in Prerequisites[s] \intersect crew : phase[d] = "done"

IInv ==
  /\ StateShape
  /\ \A s \in crew : SourceInv(s)
  /\ LaunchInv
  /\ UsedConnections <= PoolSize
  /\ NothingIsLost

-----------------------------------------------------------------------------
(* A step of s leaves the other sources alone                              *)

Others(s) ==
  /\ UNCHANGED command
  /\ \A r \in crew \ {s} : phase'[r] = phase[r] /\ pc'[r] = pc[r] /\ pending'[r] = pending[r] /\ (r \in tx' <=> r \in tx)
  /\ \A l : l.step # s => (l \in locks' <=> l \in locks) /\ (l \in Range(queue') <=> l \in Range(queue))
  /\ DOMAIN served' = DOMAIN served

\* What a lock that an operation needs looks like.
LEMMA NeededShape ==
  ASSUME NEW s \in crew, NEW op, NEW l \in NeededLocks(s, op)
  PROVE  /\ l.step = s /\ l.session = Session(s, op) /\ l \in LockRecords
         /\ [l EXCEPT !.mode = "exclusive"].step = s
BY DEF NeededLocks, Lock, LockRecords, Session, Modes

LEMMA OthersStay ==
  ASSUME NEW s, NEW r \in crew \ {s}, Others(s), SourceInv(r)
  PROVE  SourceInv(r)'
<1>1. /\ phase'[r] = phase[r] /\ pc'[r] = pc[r] /\ pending'[r] = pending[r] /\ (r \in tx' <=> r \in tx)
      /\ crew' = crew /\ contended' = contended /\ DOMAIN served' = DOMAIN served
      /\ \A l : l.step = r => (l \in locks' <=> l \in locks) /\ (l \in Range(queue') <=> l \in Range(queue))
  BY DEF Others, command
<1>2. HoldingInv(r)'
  BY <1>1 DEF HoldingInv, SourceInv, AreChanges
<1>3. TransactionInv(r)'
  BY <1>1 DEF TransactionInv, SourceInv, Running
<1>4. RowsInv(r)'
  BY <1>1 DEF RowsInv, SourceInv, Running
<1>5. Current(r)' = Current(r) /\ (Running(r)' <=> Running(r))
  BY <1>1 DEF Current, Running
<1>6. ASSUME NEW op PROVE NeededLocks(r, op)' = NeededLocks(r, op)
  BY <1>1 DEF NeededLocks, Session
<1>7. ASSUME NEW op PROVE MissingLocks(r, op)' = MissingLocks(r, op)
  <2>1. \A l \in NeededLocks(r, op) : Holds(l)' <=> Holds(l)
    BY <1>1, NeededShape DEF Holds
  <2>2. QED
    BY <1>6, <2>1 DEF MissingLocks
<1>8. LockInv(r)'
  BY <1>1, <1>5, <1>6, <1>7 DEF LockInv, SourceInv
<1>9. QED
  BY <1>2, <1>3, <1>4, <1>8 DEF SourceInv

-----------------------------------------------------------------------------
(* What a step of s does to s                                              *)

\* s ends, fails or closes its run: it waits for nothing, and has no transaction
\* or keeps it to the end of the run.
LEMMA Stops ==
  ASSUME NEW s, SourceInv(s), DOMAIN served' = DOMAIN served,
         phase'[s] \in {"closing", "failed", "done"}, \A l \in Range(queue') : l.step # s,
         \/ s \notin tx' /\ pending'[s] = NoChange /\ \A l \in locks' : l.step # s
         \/ /\ phase'[s] = "closing" /\ (s \in tx' <=> s \in tx)
            /\ pending'[s] \in {pending[s], NoChange} /\ \A l \in locks' : l.step = s => l \in locks
  PROVE  SourceInv(s)'
<1>1. ~Running(s)' /\ phase'[s] # "waiting"
  BY DEF Running
<1>2. HoldingInv(s)'
  BY DEF HoldingInv, SourceInv, AreChanges, NoChange
<1>3. TransactionInv(s)'
  BY <1>1 DEF TransactionInv
<1>4. LockInv(s)'
  BY <1>1 DEF LockInv, SourceInv
<1>5. RowsInv(s)'
  BY <1>1 DEF RowsInv, SourceInv, NoChange
<1>6. QED
  BY <1>2, <1>3, <1>4, <1>5 DEF SourceInv

\* There is one operation under way, and nothing is asked when it can go on.
LEMMA NoRequest ==
  ASSUME NEW s, NEW op \in Current(s), LockInv(s), MissingLocks(s, op) = {}
  PROVE  /\ Current(s) = {op} /\ Queued(s) = {}
         /\ \A l \in Range(queue) : l.step # s
<1>1. Current(s) = {op}
  BY DEF Current
<1>2. QED
  BY <1>1 DEF LockInv, Queued

\* A source whose operation needs no lock of its own connection has none.
LEMMA NoStatement ==
  ASSUME NEW s \in crew, NEW op \in Current(s), LockInv(s), locks \subseteq LockRecords,
         Session(s, op) = "transaction" \/ NeededLocks(s, op) = {}
  PROVE  \A l \in locks : l.step = s => l.session = "transaction" /\ s \in tx
<1>1. Current(s) = {op} /\ Running(s)
  BY DEF Current, Running
<1>2. \A l \in locks : l.session \in {"transaction", "statement"}
  BY DEF LockRecords
<1>3. QED
  BY <1>1, <1>2, NeededShape DEF LockInv

WithoutLocks == {"begin", "commit", "end run", "refused end run", "record", "skip if recorded"}
LEMMA NeedsNothing ==
  ASSUME NEW s, NEW op, op.do \in WithoutLocks
  PROVE  NeededLocks(s, op) = {} /\ op.do \notin Writes
<1>1. Exclusive(op) = {}
  BY DEF Exclusive, WithoutLocks
<1>2. Shared(op) = {} /\ op.do \notin Writes
  BY DEF Shared, Writes, WithoutLocks
<1>3. QED
  BY <1>1, <1>2 DEF NeededLocks

\* The operation goes on: what s keeps is held by its transaction.
LEMMA LocksGoOn ==
  ASSUME NEW s, LockInv(s), Queued(s) = {}, queue' = queue, s \in tx => s \in tx',
         \A l \in locks' : l.step = s => l \in locks /\ l.session = "transaction"
  PROVE  LockInv(s)'
BY DEF LockInv, Queued

\* The next operation, unless the transaction ends.
LEMMA TransactionGoesOn ==
  ASSUME NEW s \in crew, NEW op \in Current(s), crew \in Crews, pc[s] \in 1..(Len(Steps[s]) + 1),
         TransactionInv(s), phase'[s] = "running", pc'[s] = pc[s] + 1, op.do # "commit",
         s \in tx' <=> (s \in tx \/ op.do = "begin")
  PROVE  TransactionInv(s)'
<1> DEFINE n == Len(Steps[s])
           k == pc[s]
<1>1. /\ Running(s) /\ s \in DOMAIN Chain /\ n \in Nat /\ DOMAIN Steps[s] = 1..n
      /\ k \in 1..n /\ op = Steps[s][k]
  BY CurrentStep
<1>2. k \in Nat /\ k - 1 \in Nat /\ (k + 1) - 1 = k
  BY <1>1
<1>3. ASSUME NEW j \in 1..k, Steps[s][j].do = "begin", Follow(s, j + 1, k)
      PROVE  s \in tx'
  <2>1. CASE j = k
    BY <2>1, <1>1, <1>3
  <2>2. CASE j # k
    <3>1. j \in 1..(k - 1) /\ (j + 1)..(k - 1) \subseteq (j + 1)..k
      BY <2>2, <1>2
    <3>2. Follow(s, j + 1, k - 1)
      BY <3>1, <1>3 DEF Follow
    <3>3. QED
      BY <3>1, <3>2, <1>1, <1>3 DEF TransactionInv
  <2>3. QED
    BY <2>1, <2>2
<1>4. ASSUME s \in tx'
      PROVE  \E m \in (k + 1)..n :
               Steps[s][m].do = "commit" /\ \A i \in (k + 1)..m : Steps[s][i].do # "skip if recorded"
  <2>1. \E m \in k..n : Steps[s][m].do = "commit" /\ \A i \in k..m : Steps[s][i].do # "skip if recorded"
    <3>1. CASE s \in tx
      BY <3>1, <1>1 DEF TransactionInv
    <3>2. CASE op.do = "begin"
      <4>1. PICK m \in (k + 1)..n : /\ Steps[s][m].do = "commit"
                                     /\ \A i \in k..m : Steps[s][i].do # "skip if recorded"
        BY <3>2, <1>1, StepsAssumption
      <4>2. m \in k..n
        BY <1>1
      <4>3. QED
        BY <4>1, <4>2
    <3>3. QED
      BY <1>4, <3>1, <3>2
  <2>2. PICK m \in k..n : Steps[s][m].do = "commit" /\ \A i \in k..m : Steps[s][i].do # "skip if recorded"
    BY <2>1
  <2>3. m # k
    BY <2>2, <1>1
  <2>4. m \in (k + 1)..n /\ \A i \in (k + 1)..m : i \in k..m
    BY <2>3, <1>1
  <2>5. QED
    BY <2>2, <2>4
<1>5. QED
  BY ZenonT(30), <1>2, <1>3, <1>4 DEF TransactionInv, Running

\* What is to be filled still is, after an operation that writes nothing.
LEMMA RowsGoOn ==
  ASSUME NEW s \in crew, NEW op \in Current(s), crew \in Crews, pc[s] \in 1..(Len(Steps[s]) + 1),
         RowsInv(s), pc'[s] = pc[s] + 1, pending'[s] = pending[s], op.do \notin Writes
  PROVE  RowsInv(s)'
<1> DEFINE n == Len(Steps[s])
           k == pc[s]
<1>1. Running(s) /\ n \in Nat /\ k \in 1..n /\ op = Steps[s][k]
  BY CurrentStep
<1>2. ASSUME NEW g \in DOMAIN pending[s], pending[s][g] = "gone", g \notin ErasedFirst
      PROVE  \E m \in (k + 1)..n : Fills(s, m, g) /\ Follow(s, k + 1, m)
  <2>1. PICK m \in k..n : Fills(s, m, g) /\ Follow(s, k, m)
    BY <1>1, <1>2 DEF RowsInv
  <2>2. m # k
    BY <2>1, <1>1 DEF Fills
  <2>3. m \in (k + 1)..n /\ (k + 1)..m \subseteq k..m
    BY <2>2, <1>1
  <2>4. QED
    BY <2>1, <2>3 DEF Follow
<1>3. QED
  BY <1>2 DEF RowsInv

-----------------------------------------------------------------------------
(* One source at a time                                                    *)

\* What Dequeued and a released lock leave of the requests.
LEMMA DequeuedShape ==
  ASSUME StateShape, NEW s
  PROVE  /\ Dequeued(s) \in Seq(LockRecords)
         /\ Range(Dequeued(s)) = {l \in Range(queue) : l.step # s}
         /\ \A i, j \in DOMAIN Dequeued(s) : Dequeued(s)[i].step = Dequeued(s)[j].step => i = j
BY LeavesTheQueue DEF StateShape

LEMMA NextIsMissing ==
  ASSUME NEW s \in crew, NEW op, MissingLocks(s, op) # {}
  PROVE  /\ NextLock(s, op) \in MissingLocks(s, op) /\ NextLock(s, op) \in NeededLocks(s, op)
         /\ NextLock(s, op).step = s /\ NextLock(s, op).session = Session(s, op)
         /\ NextLock(s, op) \in LockRecords
<1> DEFINE own == {l \in MissingLocks(s, op) : l.table = op.table}
<1>1. (CHOOSE l \in MissingLocks(s, op) : TRUE) \in MissingLocks(s, op)
  OBVIOUS
<1>2. own # {} => (CHOOSE l \in own : TRUE) \in own
  OBVIOUS
<1>3. own # {} => (CHOOSE l \in own : TRUE) \in MissingLocks(s, op)
  BY <1>2
<1>4. NextLock(s, op) \in MissingLocks(s, op)
  BY <1>1, <1>3 DEF NextLock
<1>5. NextLock(s, op) \in NeededLocks(s, op)
  BY <1>4 DEF MissingLocks
<1>6. QED
  BY <1>4, <1>5, NeededShape

\* What a load leaves is not the absence of rows.
LEMMA LoadedIsThere ==
  ASSUME NEW s, NEW op, NEW value \in LoadedBy(s, op)
  PROVE  value \in Loaded(GroupOf(s, op)) /\ value # "gone"
BY DEF LoadedBy, Loaded

LEMMA ChangesAreRows ==
  ASSUME NEW s, NEW op, NEW value \in LoadedBy(s, op)
  PROVE  AreChanges(Changes(s, op, value))
BY LoadedIsThere DEF AreChanges, Changes

LEMMA PlusIsAllRight ==
  ASSUME NEW a, NEW b, AreChanges(a), AreChanges(b)
  PROVE  AreChanges(Plus(a, b))
BY DEF AreChanges, Plus

LEMMA WithIsServed ==
  ASSUME NEW G, served \in [G -> {"before", "new", "part", "gone"}], NEW changes, AreChanges(changes)
  PROVE  With(served, changes) \in [G -> {"before", "new", "part", "gone"}] /\ DOMAIN With(served, changes) = DOMAIN served
BY DEF AreChanges, With, Loaded

LEMMA RollbackStep ==
  ASSUME StateShape, NEW s \in crew, Rollback(s)
  PROVE  /\ s \notin tx' /\ pending'[s] = NoChange /\ (\A l \in locks' \union Range(queue') : l.step # s)
         /\ tx' \subseteq tx /\ locks' \subseteq locks /\ Range(queue') \subseteq Range(queue)
         /\ locks' \subseteq LockRecords /\ queue' \in Seq(LockRecords) /\ OnceQueued'
         /\ DOMAIN pending' = crew
         /\ \A r \in crew \ {s} : pending'[r] = pending[r] /\ (r \in tx' <=> r \in tx)
         /\ \A l : l.step # s => (l \in locks' <=> l \in locks) /\ (l \in Range(queue') <=> l \in Range(queue))
<1>1. /\ queue' \in Seq(LockRecords) /\ OnceQueued'
      /\ Range(queue') = {l \in Range(queue) : l.step # s}
  BY DequeuedShape DEF Rollback, OnceQueued
<1>2. locks' = {l \in locks : l.step # s} /\ tx' = tx \ {s} /\ pending' = [pending EXCEPT ![s] = NoChange]
  BY DEF Rollback
<1>3. DOMAIN pending = crew /\ locks \subseteq LockRecords
  BY DEF StateShape
<1>4. QED
  BY <1>1, <1>2, <1>3

\* The operations that succeed, the refusals, and the ends of a run.
SourceStep(s) ==
  \/ Start(s) \/ Finish(s) \/ CloseFailed(s)
  \/ \E op \in Current(s) :
        Waits(s, op) \/ TakesLock(s, op) \/ Operates(s, op) \/ Aborted(s, op)
        \/ Refuse(s, op) \/ CommitUnanswered(s, op)

\* Nothing that s does is seen by the others but in the tables.
LEMMA OthersStep ==
  ASSUME StateShape, NEW s \in crew, SourceStep(s)
  PROVE  Others(s)
<1>1. /\ DOMAIN phase = crew /\ DOMAIN pc = crew /\ DOMAIN pending = crew
      /\ served \in [Groups(crew) -> {"before", "new", "part", "gone"}]
  BY DEF StateShape
<1>2. CASE Start(s) \/ Finish(s)
  BY <1>1, <1>2 DEF Start, Finish, Others, command, sessions, database
<1>3. CASE CloseFailed(s)
  <2>1. Rollback(s) /\ UNCHANGED <<command, pc, served>> /\ phase' = [phase EXCEPT ![s] = "failed"]
    BY <1>3 DEF CloseFailed
  <2>2. QED
    BY <2>1, <1>1, RollbackStep DEF Others, command
<1>4. ASSUME NEW op \in Current(s), Waits(s, op)
      PROVE  Others(s)
  <2>1. MissingLocks(s, op) # {} /\ queue' = Append(queue, NextLock(s, op))
        /\ UNCHANGED <<command, phase, pc, tx, locks, pending, database, starts>>
    BY <1>4 DEF Waits
  <2>2. NextLock(s, op) \in LockRecords /\ NextLock(s, op).step = s
    BY <2>1, NextIsMissing
  <2>3. queue \in Seq(LockRecords)
    BY DEF StateShape
  <2>4. Range(queue') = Range(queue) \union {NextLock(s, op)}
    BY <2>1, <2>2, <2>3, OneMore
  <2>5. QED
    BY <2>1, <2>2, <2>4 DEF Others, command, database
<1>5. ASSUME NEW op \in Current(s), TakesLock(s, op)
      PROVE  Others(s)
  <2>1. /\ MissingLocks(s, op) # {} /\ queue' = Dequeued(s) /\ locks' = locks \union {NextLock(s, op)}
        /\ UNCHANGED <<command, phase, pc, tx, pending, database, starts>>
    BY <1>5 DEF TakesLock
  <2>2. NextLock(s, op).step = s
    BY <2>1, NextIsMissing
  <2>3. QED
    BY <2>1, <2>2, DequeuedShape DEF Others, command, database
<1>6. ASSUME NEW op \in Current(s), Operates(s, op)
      PROVE  Others(s)
  <2>1. CASE Consult(s, op) \/ OpenRun(s, op) \/ CloseRun(s, op)
    BY <2>1, <1>1 DEF Consult, OpenRun, CloseRun, Forward, Returns, Others, command, database, sessions
  <2>2. CASE Transact(s, op) \/ DropConstraints(s, op)
    BY <2>2, <1>1 DEF Transact, DropConstraints, Forward, Others, command, database, sessions
  <2>3. CASE WriteInTransaction(s, op) \/ RecordWatermark(s, op) \/ Skip(s, op)
    BY <2>3, <1>1 DEF WriteInTransaction, RecordWatermark, Skip, Forward, Others, command, database, sessions
  <2>4. CASE WriteAtOnce(s, op)
    <3>1. DOMAIN served' = DOMAIN served
      BY <2>4, <1>1, ChangesAreRows, WithIsServed DEF WriteAtOnce
    <3>2. QED
      BY <2>4, <3>1, <1>1 DEF WriteAtOnce, Forward, Returns, Others, command
  <2>5. CASE CommitTransaction(s, op)
    <3>1. DOMAIN served' = DOMAIN served /\ Rollback(s)
      BY <2>5 DEF CommitTransaction, With
    <3>2. QED
      BY <2>5, <3>1, <1>1, RollbackStep DEF CommitTransaction, Forward, Others, command
  <2>6. QED
    BY <1>6, <2>1, <2>2, <2>3, <2>4, <2>5 DEF Operates
<1>7. ASSUME NEW op \in Current(s), Aborted(s, op)
      PROVE  Others(s)
  BY <1>1, <1>7, DequeuedShape DEF Aborted, AfterError, Others, command, database
<1>8. ASSUME NEW op \in Current(s), Refuse(s, op)
      PROVE  Others(s)
  <2>1. CASE KeepsItsTransaction(s, op)
    BY <2>1, <1>1, <1>8 DEF Refuse, Fails, AfterError, Others, command, database, sessions
  <2>2. CASE ~KeepsItsTransaction(s, op)
    <3>1. Rollback(s) /\ UNCHANGED <<command, pc, served>> /\ phase' = AfterError(s, op)
      BY <2>2, <1>8 DEF Refuse, Fails, database
    <3>2. QED
      BY <3>1, <1>1, RollbackStep DEF AfterError, Others, command
  <2>3. QED
    BY <2>1, <2>2
<1>9. ASSUME NEW op \in Current(s), CommitUnanswered(s, op)
      PROVE  Others(s)
  <2>1. DOMAIN served' = DOMAIN served /\ Rollback(s) /\ UNCHANGED <<command, pc>>
    BY <1>9 DEF CommitUnanswered, With
  <2>2. \A r \in crew \ {s} : phase'[r] = phase[r]
    BY <1>1, <1>9 DEF CommitUnanswered
  <2>3. QED
    BY <2>1, <2>2, RollbackStep DEF Others, command
<1>10. QED
  BY <1>2, <1>3, <1>4, <1>5, <1>6, <1>7, <1>8, <1>9 DEF SourceStep

\* What a step of s may change without a change of shape.
LEMMA SameShape ==
  ASSUME StateShape, UNCHANGED command,
         phase' \in [crew -> Phases],
         DOMAIN pc' = crew, \A s \in crew : pc'[s] \in 1..(Len(Steps[s]) + 1),
         tx' \subseteq crew, locks' \subseteq LockRecords, queue' \in Seq(LockRecords), OnceQueued',
         served' \in [Groups(crew) -> {"before", "new", "part", "gone"}], DOMAIN pending' = crew,
         recorded' \subseteq UNION {{s} \X (DOMAIN Chain[s].runs) : s \in crew},
         status' \in [crew -> {"none", "RUNNING", "SUCCESS", "FAILED"}], starts' \in Nat
  PROVE  StateShape'
<1>1. crew' = crew /\ contended' = contended
  BY DEF command
<1>2. LockRecords' = LockRecords
  BY <1>1 DEF LockRecords
<1>3. QED
  BY <1>1, <1>2 DEF StateShape

LEMMA ShapeStep ==
  ASSUME StateShape, NEW s \in crew, HoldingInv(s), SourceStep(s)
  PROVE  StateShape'
<1>1. /\ crew \in Crews /\ phase \in [crew -> Phases]
      /\ DOMAIN pc = crew /\ \A r \in crew : pc[r] \in 1..(Len(Steps[r]) + 1)
      /\ tx \subseteq crew /\ locks \subseteq LockRecords /\ queue \in Seq(LockRecords) /\ OnceQueued
      /\ served \in [Groups(crew) -> {"before", "new", "part", "gone"}] /\ DOMAIN pending = crew
      /\ recorded \subseteq UNION {{r} \X (DOMAIN Chain[r].runs) : r \in crew}
      /\ status \in [crew -> {"none", "RUNNING", "SUCCESS", "FAILED"}] /\ starts \in Nat
  BY DEF StateShape
<1>2. ASSUME UNCHANGED queue PROVE queue' \in Seq(LockRecords) /\ OnceQueued'
  BY <1>1, <1>2 DEF OnceQueued
<1>3. \A p \in {"running", "closing", "done", "failed"} : [phase EXCEPT ![s] = p] \in [crew -> Phases]
  BY <1>1 DEF Phases
<1>4. CASE Start(s) \/ Finish(s)
  <2>1. phase' \in [crew -> Phases] /\ UNCHANGED <<command, pc, sessions, database, starts>>
    BY <1>3, <1>4 DEF Start, Finish
  <2>2. QED
    BY <2>1, <1>1, <1>2, SameShape DEF command, sessions, database
<1>5. CASE CloseFailed(s)
  <2>1. /\ Rollback(s) /\ UNCHANGED <<command, pc, served, recorded, starts>>
        /\ phase' = [phase EXCEPT ![s] = "failed"] /\ status' \in {status, [status EXCEPT ![s] = "FAILED"]}
    BY <1>5 DEF CloseFailed
  <2>2. status' \in [crew -> {"none", "RUNNING", "SUCCESS", "FAILED"}]
    BY <2>1, <1>1
  <2>3. QED
    BY <2>1, <2>2, <1>1, <1>3, RollbackStep, SameShape
<1>6. ASSUME NEW op \in Current(s), Waits(s, op)
      PROVE  StateShape'
  <2>1. /\ MissingLocks(s, op) # {} /\ Queued(s) = {} /\ queue' = Append(queue, NextLock(s, op))
        /\ UNCHANGED <<command, phase, pc, tx, locks, pending, database, starts>>
    BY <1>6 DEF Waits
  <2>2. NextLock(s, op) \in LockRecords /\ NextLock(s, op).step = s
    BY <2>1, NextIsMissing
  <2>3. \A m \in Range(queue) : m.step # NextLock(s, op).step
    BY <2>1, <2>2 DEF Queued
  <2>4. queue' \in Seq(LockRecords) /\ OnceQueued'
    BY <2>1, <2>2, <2>3, <1>1, OneMore DEF OnceQueued
  <2>5. QED
    BY <2>1, <2>4, <1>1, SameShape DEF database
<1>7. ASSUME NEW op \in Current(s), TakesLock(s, op)
      PROVE  StateShape'
  <2>1. /\ MissingLocks(s, op) # {} /\ queue' = Dequeued(s) /\ locks' = locks \union {NextLock(s, op)}
        /\ UNCHANGED <<command, phase, pc, tx, pending, database, starts>>
    BY <1>7 DEF TakesLock
  <2>2. NextLock(s, op) \in LockRecords
    BY <2>1, NextIsMissing
  <2>3. queue' \in Seq(LockRecords) /\ OnceQueued'
    BY <2>1, DequeuedShape DEF OnceQueued
  <2>4. QED
    BY <2>1, <2>2, <2>3, <1>1, SameShape DEF database
<1>8. ASSUME NEW op \in Current(s), Aborted(s, op)
      PROVE  StateShape'
  <2>1. /\ phase' = AfterError(s, op) /\ locks' \subseteq locks /\ queue' = Dequeued(s)
        /\ DOMAIN pending' = DOMAIN pending /\ tx' \subseteq tx
        /\ UNCHANGED <<command, pc, database, starts>>
    BY <1>8 DEF Aborted
  <2>2. phase' \in [crew -> Phases]
    BY <2>1, <1>3 DEF AfterError
  <2>3. queue' \in Seq(LockRecords) /\ OnceQueued'
    BY <2>1, DequeuedShape DEF OnceQueued
  <2>4. QED
    BY <2>1, <2>2, <2>3, <1>1, SameShape DEF database
<1>9. ASSUME NEW op \in Current(s), Refuse(s, op)
      PROVE  StateShape'
  <2>1. Fails(s, op)
    BY <1>9 DEF Refuse
  <2>2. phase' \in [crew -> Phases] /\ UNCHANGED <<command, pc, database, starts>>
    BY <2>1, <1>3 DEF Fails, AfterError
  <2>3. CASE KeepsItsTransaction(s, op)
    <3>1. UNCHANGED sessions
      BY <2>1, <2>3 DEF Fails
    <3>2. QED
      BY <3>1, <2>2, <1>1, <1>2, SameShape DEF sessions, database
  <2>4. CASE ~KeepsItsTransaction(s, op)
    <3>1. Rollback(s)
      BY <2>1, <2>4 DEF Fails
    <3>2. QED
      BY <3>1, <2>2, <1>1, RollbackStep, SameShape DEF database
  <2>5. QED
    BY <2>3, <2>4
<1>10. ASSUME NEW op \in Current(s), Goes(s, op, {"commit"}), Rollback(s), served' = With(served, pending[s]),
              phase' \in [crew -> Phases], pc' \in {pc, [pc EXCEPT ![s] = @ + 1]},
              UNCHANGED <<command, recorded, status, starts>>
       PROVE  StateShape'
  <2>1. AreChanges(pending[s])
    BY DEF HoldingInv, AreChanges, NoChange
  <2>2. served' \in [Groups(crew) -> {"before", "new", "part", "gone"}]
    BY <2>1, <1>1, <1>10, WithIsServed
  <2>3. DOMAIN pc' = crew /\ \A r \in crew : pc'[r] \in 1..(Len(Steps[r]) + 1)
    BY ZenonT(30), <1>1, <1>10, CurrentStep
  <2>4. QED
    BY <2>2, <2>3, <1>1, <1>10, RollbackStep, SameShape
<1>11. ASSUME NEW op \in Current(s), CommitUnanswered(s, op)
       PROVE  StateShape'
  <2>1. phase' \in [crew -> Phases]
    BY <1>3, <1>11 DEF CommitUnanswered
  <2>2. QED
    BY <2>1, <1>10, <1>11 DEF CommitUnanswered
<1>12. ASSUME NEW op \in Current(s), Operates(s, op)
       PROVE  StateShape'
  <2>1. pc[s] + 1 \in 1..(Len(Steps[s]) + 1) /\ s \in DOMAIN Chain
        /\ pc[s] \in DOMAIN Steps[s] /\ op = Steps[s][pc[s]]
        /\ op.script \in DOMAIN Chain[s].runs
    BY <1>1, CurrentStep
  <2>2. Forward(s) => DOMAIN pc' = crew /\ \A r \in crew : pc'[r] \in 1..(Len(Steps[r]) + 1)
    BY <2>1, <1>1 DEF Forward
  <2>3. Returns(s) => locks' \subseteq LockRecords
    BY <1>1 DEF Returns
  <2>4. CASE Consult(s, op)
    BY <2>2, <2>3, <2>4, <1>1, <1>2, SameShape DEF Consult, database
  <2>5. CASE OpenRun(s, op)
    <3>1. status' \in [crew -> {"none", "RUNNING", "SUCCESS", "FAILED"}]
      BY <2>5, <1>1 DEF OpenRun
    <3>2. QED
      BY <3>1, <2>2, <2>3, <2>5, <1>1, <1>2, SameShape DEF OpenRun
  <2>6. CASE CloseRun(s, op)
    <3>1. status' \in [crew -> {"none", "RUNNING", "SUCCESS", "FAILED"}]
      BY <2>6, <1>1 DEF CloseRun
    <3>2. QED
      BY <3>1, <2>2, <2>6, <1>1, <1>2, SameShape DEF CloseRun, sessions
  <2>7. CASE Transact(s, op)
    <3>1. tx' \subseteq crew
      BY <2>7, <1>1 DEF Transact
    <3>2. QED
      BY <3>1, <2>2, <2>7, <1>1, <1>2, SameShape DEF Transact, database
  <2>8. CASE DropConstraints(s, op)
    BY <2>2, <2>8, <1>1, <1>2, SameShape DEF DropConstraints, sessions, database
  <2>9. CASE WriteInTransaction(s, op)
    <3>1. DOMAIN pending' = crew
      BY <2>9, <1>1 DEF WriteInTransaction
    <3>2. QED
      BY <3>1, <2>2, <2>9, <1>1, <1>2, SameShape DEF WriteInTransaction, database
  <2>10. CASE WriteAtOnce(s, op)
    <3>1. served' \in [Groups(crew) -> {"before", "new", "part", "gone"}]
      BY <2>10, <1>1, ChangesAreRows, WithIsServed DEF WriteAtOnce
    <3>2. QED
      BY <3>1, <2>2, <2>3, <2>10, <1>1, <1>2, SameShape DEF WriteAtOnce
  <2>11. CASE CommitTransaction(s, op)
    BY <2>11, <1>1, <1>10 DEF CommitTransaction, Forward
  <2>12. CASE RecordWatermark(s, op)
    <3>1. recorded' \subseteq UNION {{r} \X (DOMAIN Chain[r].runs) : r \in crew}
      BY <2>1, <2>12, <1>1 DEF RecordWatermark
    <3>2. QED
      BY <3>1, <2>2, <2>12, <1>1, <1>2, SameShape DEF RecordWatermark, sessions
  <2>13. CASE Skip(s, op)
    <3>1. PICK m \in DOMAIN Steps[s] :
            Min({k \in DOMAIN Steps[s] : k > pc[s] /\ Steps[s][k].do = "record"}) = m
      BY <2>1, <2>13, SkipStays DEF Skip, Goes
    <3>2. Len(Steps[s]) \in Nat /\ DOMAIN Steps[s] = 1..Len(Steps[s])
      BY <2>1, StepsAssumption
    <3>3. m + 1 \in 1..(Len(Steps[s]) + 1)
      BY <2>1, <3>2, AfterUpTo
    <3>4. pc' = [pc EXCEPT ![s] = m + 1] \/ Forward(s)
      BY <2>13, <3>1 DEF Skip, Forward
    <3>5. DOMAIN pc' = crew /\ \A r \in crew : pc'[r] \in 1..(Len(Steps[r]) + 1)
      BY <3>3, <3>4, <2>2, <1>1
    <3>6. QED
      BY <3>5, <2>13, <1>1, <1>2, SameShape DEF Skip, sessions, database
  <2>14. QED
    BY <1>12, <2>4, <2>5, <2>6, <2>7, <2>8, <2>9, <2>10, <2>11, <2>12, <2>13 DEF Operates
<1>13. QED
  BY <1>4, <1>5, <1>6, <1>7, <1>8, <1>9, <1>11, <1>12 DEF SourceStep

\* What a write in a transaction removed is filled later in it.
LEMMA RowsAreReplaced ==
  ASSUME StateShape, NEW s \in crew, NEW op \in Current(s), SourceInv(s), WriteInTransaction(s, op)
  PROVE  RowsInv(s)'
<1>0. PICK value \in LoadedBy(s, op) : pending' = [pending EXCEPT ![s] = Plus(@, Changes(s, op, value))]
  BY DEF WriteInTransaction
<1> DEFINE n == Len(Steps[s])
           k == pc[s]
           changes == Changes(s, op, value)
<1>1. /\ Running(s) /\ n \in Nat /\ DOMAIN Steps[s] = 1..n /\ k \in 1..n /\ op = Steps[s][k] /\ op \in OpsOf(s)
      /\ crew \in Crews
  BY CurrentStep DEF StateShape
<1>2. /\ op.do \in Writes /\ s \in tx /\ pending'[s] = Plus(pending[s], changes) /\ pc'[s] = k + 1
      /\ DOMAIN served = Groups(crew)
  BY <1>0 DEF WriteInTransaction, Goes, Forward, StateShape
<1>3. /\ AreChanges(pending[s]) /\ DOMAIN changes \subseteq Groups(crew)
      /\ RowsInv(s)
  BY <1>2 DEF SourceInv, HoldingInv, Changes
<1>4. ASSUME NEW g \in DOMAIN pending'[s]
      PROVE  /\ g \in Groups(crew) /\ Touches(s, g)
             /\ pending'[s][g] = IF g \in DOMAIN changes THEN changes[g] ELSE pending[s][g]
             /\ g \in DOMAIN changes \/ g \in DOMAIN pending[s]
  <2>1. /\ pending'[s][g] = IF g \in DOMAIN changes THEN changes[g] ELSE pending[s][g]
        /\ g \in DOMAIN changes \/ g \in DOMAIN pending[s]
    BY <1>2 DEF Plus
  <2>2. g \in DOMAIN changes => Touches(s, g)
    BY <1>1, <1>2 DEF Changes, Touches
  <2>3. QED
    BY <2>1, <2>2, <1>2, <1>3 DEF RowsInv, AreChanges
<1>5. ASSUME NEW g \in DOMAIN pending'[s], pending'[s][g] = "gone", g \notin ErasedFirst
      PROVE  \E m \in (k + 1)..n : Fills(s, m, g) /\ Follow(s, k + 1, m)
  <2>1. CASE g \in DOMAIN changes
    <3>1. changes[g] = "gone"
      BY <2>1, <1>4, <1>5
    <3>2. g \in DOMAIN served /\ (g = GroupOf(s, op) \/ Replaces(op, g)) /\ ~(g = GroupOf(s, op) /\ op.do # "erase")
      BY <2>1, <3>1, LoadedIsThere DEF Changes
    <3>3. Replaces(op, g) /\ ~Fills(s, k, g)
      BY <3>2, <1>1 DEF Replaces, GroupOf, Replacing, Fills, Writes
    <3>4. g \in Groups(crew) \ ErasedFirst
      BY <1>4, <1>5
    <3>5. \E j \in 1..(k - 1), m \in (k + 1)..n :
             Steps[s][j].do = "begin" /\ Follow(s, j + 1, m) /\ Fills(s, m, g)
      BY <3>3, <3>4, <1>1, ReplacementAssumption
    <3>6. PICK j \in 1..(k - 1), m \in (k + 1)..n :
             Steps[s][j].do = "begin" /\ Follow(s, j + 1, m) /\ Fills(s, m, g)
      BY <3>5
    <3>7. (k + 1)..m \subseteq (j + 1)..m
      BY <1>1
    <3>8. QED
      BY <3>6, <3>7 DEF Follow
  <2>2. CASE g \notin DOMAIN changes
    <3>1. g \in DOMAIN pending[s] /\ pending[s][g] = "gone"
      BY <2>2, <1>4, <1>5
    <3>2. PICK m \in k..n : Fills(s, m, g) /\ Follow(s, k, m)
      BY <3>1, <1>1, <1>3, <1>5 DEF RowsInv
    <3>3. m # k
      <4>1. g \in DOMAIN served
        BY <3>1, <1>3 DEF AreChanges
      <4>2. m = k => g = GroupOf(s, op)
        BY <3>2, <1>1 DEF Fills
      <4>3. QED
        BY <4>1, <4>2, <2>2 DEF Changes
    <3>4. m \in (k + 1)..n /\ (k + 1)..m \subseteq k..m
      BY <3>3, <1>1
    <3>5. QED
      BY <3>2, <3>4 DEF Follow
  <2>3. QED
    BY <2>1, <2>2
<1>6. QED
  BY <1>2, <1>4, <1>5 DEF RowsInv

\* Constraints are dropped in a transaction.
LEMMA UnlinkInTransaction ==
  ASSUME StateShape, NEW s \in crew, NEW op \in Current(s), TransactionInv(s), op.do = "unlink"
  PROVE  s \in tx
<1>1. /\ Running(s) /\ s \in DOMAIN Chain /\ pc[s] \in DOMAIN Steps[s] /\ op = Steps[s][pc[s]]
      /\ Len(Steps[s]) \in Nat /\ pc[s] \in 1..Len(Steps[s])
  BY CurrentStep DEF StateShape
<1>2. InTransaction(s, pc[s])
  BY <1>1, StepsAssumption
<1>3. PICK j \in 1..(pc[s] - 1) : Steps[s][j].do = "begin" /\ Follow(s, j + 1, pc[s])
  BY <1>2 DEF InTransaction
<1>4. (j + 1)..(pc[s] - 1) \subseteq (j + 1)..pc[s]
  BY <1>1
<1>5. QED
  BY <1>1, <1>3, <1>4 DEF TransactionInv, Follow

\* The operation under way fails.
LEMMA FailedSource ==
  ASSUME StateShape, NEW s \in crew, NEW op \in Current(s), SourceInv(s), DOMAIN served' = DOMAIN served,
         Refuse(s, op) \/ Aborted(s, op) \/ CommitUnanswered(s, op)
  PROVE  SourceInv(s)'
<1>1. phase \in [crew -> Phases] /\ DOMAIN pending = crew
  BY DEF StateShape
<1>2. AfterError(s, op)[s] \in {"closing", "failed"} /\ (KeepsItsTransaction(s, op) => AfterError(s, op)[s] = "closing")
  BY <1>1 DEF AfterError, KeepsItsTransaction
<1>3. CASE Refuse(s, op) /\ KeepsItsTransaction(s, op)
  <2>1. UNCHANGED sessions /\ phase' = AfterError(s, op) /\ MissingLocks(s, op) = {}
    BY <1>3 DEF Refuse, Fails, Goes
  <2>2. \A l \in Range(queue) : l.step # s
    BY <2>1, NoRequest DEF SourceInv
  <2>3. QED
    BY <2>1, <2>2, <1>2, <1>3, Stops DEF sessions
<1>4. CASE Refuse(s, op) /\ ~KeepsItsTransaction(s, op)
  <2>1. Rollback(s) /\ phase' = AfterError(s, op)
    BY <1>4 DEF Refuse, Fails
  <2>2. QED
    BY <2>1, <1>2, RollbackStep, Stops
<1>5. CASE Aborted(s, op)
  <2>1. /\ phase' = AfterError(s, op) /\ locks' = {l \in locks : l.step # s} /\ pending'[s] = NoChange
        /\ tx' = IF KeepsItsTransaction(s, op) THEN tx ELSE tx \ {s}
        /\ queue' = Dequeued(s)
    BY <1>1, <1>5 DEF Aborted
  <2>2. \A l \in Range(queue') : l.step # s
    BY <2>1, DequeuedShape
  <2>3. QED
    BY <2>1, <2>2, <1>2, Stops
<1>6. CASE CommitUnanswered(s, op)
  <2>1. Rollback(s) /\ phase'[s] \in {"closing", "failed"}
    BY <1>1, <1>6 DEF CommitUnanswered
  <2>2. QED
    BY <2>1, RollbackStep, Stops
<1>7. QED
  BY <1>3, <1>4, <1>5, <1>6

\* A request is of the operation that makes it, and so is the lock it gets.
LEMMA AskingSource ==
  ASSUME StateShape, NEW s \in crew, NEW op \in Current(s), SourceInv(s), DOMAIN served' = DOMAIN served,
         Waits(s, op) \/ TakesLock(s, op)
  PROVE  SourceInv(s)'
<1> DEFINE l == NextLock(s, op)
<1>1. MissingLocks(s, op) # {} /\ UNCHANGED <<command, phase, pc, tx, pending>>
  BY DEF Waits, TakesLock
<1>2. l \in MissingLocks(s, op) /\ l \in NeededLocks(s, op) /\ l.step = s /\ l.session = Session(s, op) /\ l \in LockRecords
  BY <1>1, NextIsMissing
<1>3. Current(s)' = Current(s) /\ (Running(s)' <=> Running(s)) /\ Running(s) /\ contended' = contended
  BY <1>1 DEF Current, Running, command
<1>4. NeededLocks(s, op)' = NeededLocks(s, op) /\ Current(s) = {op}
  BY <1>1, <1>3 DEF NeededLocks, Session, Current
<1>5. TransactionInv(s)' /\ RowsInv(s)'
  BY <1>1, <1>3 DEF SourceInv, TransactionInv, RowsInv, Running
<1>6. Session(s, op) = "transaction" => s \in tx
  BY DEF Session
<1>7. CASE Waits(s, op)
  <2>1. queue' = Append(queue, l) /\ locks' = locks
    BY <1>7 DEF Waits
  <2>2. Range(queue') = Range(queue) \union {l}
    BY <2>1, <1>2, OneMore DEF StateShape
  <2> HIDE DEF l
  <2>3. MissingLocks(s, op)' = MissingLocks(s, op)
    BY <2>1, <1>4 DEF MissingLocks, Holds
  <2>4. HoldingInv(s)'
    BY <2>1, <2>2, <1>1, <1>2, <1>3 DEF SourceInv, HoldingInv, AreChanges, Running
  <2>5. LockInv(s)'
    BY <2>1, <2>2, <2>3, <1>1, <1>2, <1>3, <1>4 DEF SourceInv, LockInv
  <2>6. QED
    BY <1>5, <2>4, <2>5 DEF SourceInv
<1>8. CASE TakesLock(s, op)
  <2>1. queue' = Dequeued(s) /\ locks' = locks \union {l}
    BY <1>8 DEF TakesLock
  <2>2. \A m \in Range(queue') : m.step # s
    BY <2>1, DequeuedShape
  <2> HIDE DEF l
  <2>3. HoldingInv(s)'
    BY <2>1, <2>2, <1>1, <1>2, <1>3 DEF SourceInv, HoldingInv, AreChanges, Running
  <2>4. LockInv(s)'
    BY <2>1, <2>2, <1>1, <1>2, <1>3, <1>4, <1>6 DEF SourceInv, LockInv
  <2>5. QED
    BY <1>5, <2>3, <2>4 DEF SourceInv
<1>9. QED
  BY <1>7, <1>8

\* The operation under way succeeds.
LEMMA OperatingSource ==
  ASSUME StateShape, NEW s \in crew, NEW op \in Current(s), SourceInv(s), DOMAIN served' = DOMAIN served,
         Operates(s, op)
  PROVE  SourceInv(s)'
<1>1. /\ crew \in Crews /\ pc[s] \in 1..(Len(Steps[s]) + 1) /\ DOMAIN pc = crew /\ DOMAIN pending = crew
      /\ locks \subseteq LockRecords /\ phase[s] = "running"
      /\ HoldingInv(s) /\ TransactionInv(s) /\ LockInv(s) /\ RowsInv(s)
  BY DEF StateShape, SourceInv, Current
<1>2. MissingLocks(s, op) = {} /\ phase' = phase
  BY DEF Operates, Goes, Consult, OpenRun, CloseRun, Transact, DropConstraints, CommitTransaction,
         WriteInTransaction, WriteAtOnce, RecordWatermark, Skip
<1>3. Queued(s) = {} /\ \A l \in Range(queue) : l.step # s
  BY <1>1, <1>2, NoRequest
<1>4. Forward(s) => pc'[s] = pc[s] + 1
  BY <1>1 DEF Forward
<1>5. Returns(s) => \A l \in locks' : l.step = s => l \in locks /\ l.session = "transaction"
  BY DEF Returns
<1>6. ASSUME UNCHANGED locks, Session(s, op) = "transaction" \/ NeededLocks(s, op) = {}
      PROVE  \A l \in locks' : l.step = s => l \in locks /\ l.session = "transaction"
  BY <1>1, <1>6, NoStatement
<1>7. CASE Consult(s, op) \/ OpenRun(s, op)
  <2>1. /\ op.do \notin Writes \union {"begin", "commit"} /\ Forward(s) /\ Returns(s)
        /\ UNCHANGED <<tx, queue, pending>>
    BY <1>7 DEF Consult, OpenRun, Goes, Writes
  <2>2. HoldingInv(s)'
    BY <2>1, <1>1, <1>2, <1>3 DEF HoldingInv, AreChanges
  <2>3. QED
    BY <2>1, <2>2, <1>1, <1>2, <1>3, <1>4, <1>5, LocksGoOn, TransactionGoesOn, RowsGoOn DEF SourceInv
<1>8. CASE CloseRun(s, op) \/ DropConstraints(s, op) \/ RecordWatermark(s, op)
  <2>1. /\ op.do \notin Writes \union {"begin", "commit"} /\ Forward(s)
        /\ UNCHANGED <<tx, locks, queue, pending>>
    BY <1>8 DEF CloseRun, DropConstraints, RecordWatermark, Goes, Writes, sessions
  <2>2. Session(s, op) = "transaction" \/ NeededLocks(s, op) = {}
    <3>1. CASE op.do = "unlink"
      BY <3>1, <1>1, UnlinkInTransaction DEF Session
    <3>2. CASE op.do # "unlink"
      <4>1. op.do \in WithoutLocks
        BY <3>2, <1>8 DEF CloseRun, DropConstraints, RecordWatermark, Goes, WithoutLocks
      <4>2. QED
        BY <4>1, NeedsNothing
    <3>3. QED
      BY <3>1, <3>2
  <2>3. HoldingInv(s)'
    BY <2>1, <1>1, <1>2, <1>3 DEF HoldingInv, AreChanges
  <2>4. QED
    BY <2>1, <2>2, <2>3, <1>1, <1>2, <1>3, <1>4, <1>6, LocksGoOn, TransactionGoesOn, RowsGoOn DEF SourceInv
<1>9. CASE Transact(s, op)
  <2>1. op.do = "begin" /\ Forward(s) /\ tx' = tx \union {s} /\ UNCHANGED <<locks, queue, pending>>
    BY <1>9 DEF Transact, Goes
  <2>2. op.do \in WithoutLocks
    BY <2>1 DEF WithoutLocks
  <2>3. HoldingInv(s)'
    BY <2>1, <1>1, <1>2, <1>3 DEF HoldingInv, AreChanges, NoChange
  <2>4. NeededLocks(s, op) = {} /\ op.do \notin Writes /\ op.do # "commit"
    BY <2>1, <2>2, NeedsNothing
  <2>5. s \in tx'
    BY <2>1
  <2>6. QED
    BY <2>1, <2>3, <2>4, <2>5, <1>1, <1>2, <1>3, <1>4, <1>6, LocksGoOn, TransactionGoesOn, RowsGoOn
    DEF SourceInv
<1>10. CASE CommitTransaction(s, op)
  <2>1. op.do = "commit" /\ Forward(s) /\ Rollback(s)
    BY <1>10 DEF CommitTransaction, Goes
  <2>2. s \notin tx' /\ pending'[s] = NoChange /\ \A l \in locks' \union Range(queue') : l.step # s
    BY <2>1, RollbackStep
  <2>3. HoldingInv(s)' /\ LockInv(s)' /\ RowsInv(s)'
    BY <2>2 DEF HoldingInv, LockInv, RowsInv, NoChange
  <2>4. ASSUME NEW j \in 1..pc[s], Steps[s][j].do = "begin", Follow(s, j + 1, pc[s])
        PROVE  FALSE
    <3>1. op = Steps[s][pc[s]] /\ pc[s] \in Nat
      BY <1>1, CurrentStep
    <3>2. j # pc[s] => pc[s] \in (j + 1)..pc[s]
      BY <3>1
    <3>3. QED
      BY <2>1, <2>4, <3>1, <3>2 DEF Follow
  <2>5. pc[s] + 1 - 1 = pc[s]
    BY <1>1
  <2>6. TransactionInv(s)'
    <3>1. phase'[s] = "running" /\ pc'[s] - 1 = pc[s]
      BY <2>1, <2>5, <1>1, <1>2, <1>4
    <3>2. \A j \in 1..(pc'[s] - 1) : ~(Steps[s][j].do = "begin" /\ Follow(s, j + 1, pc'[s] - 1))
      BY <2>4, <3>1
    <3>3. QED
      BY <3>1, <3>2, <2>2 DEF TransactionInv
  <2>7. QED
    BY <2>3, <2>6 DEF SourceInv
<1>11. CASE WriteInTransaction(s, op)
  <2>0. PICK value \in LoadedBy(s, op) : pending' = [pending EXCEPT ![s] = Plus(@, Changes(s, op, value))]
    BY <1>11 DEF WriteInTransaction
  <2>1. /\ op.do \in Writes /\ s \in tx /\ Forward(s) /\ pending'[s] = Plus(pending[s], Changes(s, op, value))
        /\ UNCHANGED <<tx, locks, queue>>
    BY <1>1, <1>11, <2>0 DEF WriteInTransaction, Goes
  <2>2. Session(s, op) = "transaction" /\ op.do \notin {"begin", "commit"}
    BY <2>1 DEF Session, Writes
  <2>3. AreChanges(pending'[s])
    BY <2>1, <1>1, ChangesAreRows, PlusIsAllRight DEF HoldingInv
  <2>4. HoldingInv(s)'
    BY <2>1, <2>3, <1>1, <1>2, <1>3 DEF HoldingInv, AreChanges
  <2>5. QED
    BY <2>1, <2>2, <2>4, <1>1, <1>2, <1>3, <1>4, <1>6, <1>11, LocksGoOn, TransactionGoesOn, RowsAreReplaced DEF SourceInv
<1>12. CASE WriteAtOnce(s, op)
  <2>1. op.do \in Writes /\ s \notin tx /\ Forward(s) /\ Returns(s) /\ UNCHANGED <<tx, queue, pending>>
    BY <1>12 DEF WriteAtOnce, Goes
  <2>2. op.do \notin {"begin", "commit"}
    BY <2>1 DEF Writes
  <2>3. pending'[s] = NoChange
    BY <2>1, <1>1 DEF HoldingInv
  <2>4. HoldingInv(s)' /\ RowsInv(s)'
    BY <2>1, <2>3, <1>1, <1>2, <1>3 DEF HoldingInv, RowsInv, NoChange
  <2>5. QED
    BY <2>1, <2>2, <2>4, <1>1, <1>2, <1>3, <1>4, <1>5, LocksGoOn, TransactionGoesOn DEF SourceInv
<1>13. CASE Skip(s, op)
  <2>1. op.do = "skip if recorded" /\ UNCHANGED <<tx, locks, queue, pending>>
    BY <1>13 DEF Skip, Goes, sessions
  <2>2. NeededLocks(s, op) = {} /\ op.do \notin Writes \union {"begin", "commit"}
    <3>1. op.do \in WithoutLocks
      BY <2>1 DEF WithoutLocks
    <3>2. QED
      BY <2>1, <3>1, NeedsNothing
  <2>3. HoldingInv(s)'
    BY <2>1, <1>1, <1>2, <1>3 DEF HoldingInv, AreChanges
  <2>4. LockInv(s)'
    BY <2>1, <2>2, <1>1, <1>3, <1>6, LocksGoOn
  <2>5. CASE Forward(s)
    BY <2>1, <2>2, <2>3, <2>4, <2>5, <1>1, <1>2, <1>4, TransactionGoesOn, RowsGoOn DEF SourceInv
  <2>6. CASE ~Forward(s)
    <3>1. /\ s \in DOMAIN Chain /\ pc[s] \in DOMAIN Steps[s] /\ op = Steps[s][pc[s]]
          /\ Len(Steps[s]) \in Nat /\ DOMAIN Steps[s] = 1..Len(Steps[s]) /\ pc[s] \in Nat
      BY <1>1, CurrentStep
    <3>2. PICK m \in DOMAIN Steps[s] :
            /\ Min({k \in DOMAIN Steps[s] : k > pc[s] /\ Steps[s][k].do = "record"}) = m
            /\ m > pc[s] /\ Steps[s][m].do = "record"
      BY <2>1, <3>1, SkipStays
    <3>3. pc'[s] = m + 1
      BY <2>6, <3>2, <1>1, <1>13 DEF Skip, Forward
    <3>4. m \in Nat /\ m + 1 - 1 = m
      BY <3>1, AfterUpTo
    <3>5. s \notin tx
      <4>1. ASSUME NEW i \in pc[s]..Len(Steps[s])
            PROVE  pc[s] \in pc[s]..i
        BY <3>1
      <4>2. QED
        BY <4>1, <2>1, <3>1, <1>1 DEF TransactionInv, Running
    <3>6. ASSUME NEW j \in 1..m, Steps[s][j].do = "begin", Follow(s, j + 1, m)
          PROVE  FALSE
      <4>1. j # m => m \in (j + 1)..m
        BY <3>4
      <4>2. QED
        BY <3>2, <3>6, <4>1 DEF Follow
    <3>7. TransactionInv(s)'
      <4>1. phase'[s] = "running" /\ pc'[s] - 1 = m /\ s \notin tx'
        <5>1. pc'[s] - 1 = m
          BY <3>3, <3>4
        <5>2. QED
          BY <5>1, <2>1, <3>5, <1>1, <1>2
      <4>2. \A j \in 1..(pc'[s] - 1) : ~(Steps[s][j].do = "begin" /\ Follow(s, j + 1, pc'[s] - 1))
        BY <3>6, <4>1
      <4>3. QED
        BY <4>1, <4>2 DEF TransactionInv
    <3>8. RowsInv(s)'
      BY <2>1, <3>5, <1>1 DEF RowsInv, HoldingInv, NoChange
    <3>9. QED
      BY <2>3, <2>4, <3>7, <3>8 DEF SourceInv
  <2>7. QED
    BY <2>5, <2>6
<1>14. QED
  BY <1>7, <1>8, <1>9, <1>10, <1>11, <1>12, <1>13 DEF Operates

LEMMA SourceInvStep ==
  ASSUME StateShape, NEW s \in crew, SourceInv(s), SourceStep(s)
  PROVE  SourceInv(s)'
<1>1. DOMAIN served' = DOMAIN served
  BY OthersStep DEF SourceInv, Others
<1>2. /\ phase \in [crew -> Phases] /\ pc[s] \in 1..(Len(Steps[s]) + 1) /\ locks \subseteq LockRecords
      /\ s \in DOMAIN Chain /\ Len(Steps[s]) \in Nat
      /\ HoldingInv(s) /\ TransactionInv(s) /\ LockInv(s)
  BY IngestionAssumption, StepsAssumption DEF StateShape, SourceInv
<1>3. CASE Start(s)
  <2>1. /\ phase[s] = "waiting" /\ phase'[s] = "running" /\ UNCHANGED <<pc, tx, locks, queue, pending>>
    BY <1>2, <1>3 DEF Start, sessions
  <2>2. /\ s \notin tx' /\ pending'[s] = NoChange /\ pc'[s] = 1
        /\ \A l \in locks' \union Range(queue') : l.step # s
    BY <2>1, <1>2 DEF HoldingInv, TransactionInv
  <2>3. HoldingInv(s)' /\ LockInv(s)' /\ RowsInv(s)'
    BY <2>1, <2>2 DEF HoldingInv, LockInv, RowsInv, NoChange
  <2>4. TransactionInv(s)'
    <3>1. phase'[s] = "running" /\ 1..(pc'[s] - 1) = {}
      BY <2>1, <2>2
    <3>2. QED
      BY <3>1, <2>2 DEF TransactionInv
  <2>5. QED
    BY <2>3, <2>4 DEF SourceInv
<1>4. CASE Finish(s)
  <2>1. /\ phase[s] = "running" /\ Current(s) = {} /\ phase'[s] = "done" /\ UNCHANGED <<pc, tx, locks, queue, pending>>
    BY <1>2, <1>4 DEF Finish, sessions
  <2>2. ~(pc[s] <= Len(Steps[s]))
    BY <2>1 DEF Current
  <2>3. pc[s]..Len(Steps[s]) = {}
    BY <2>2, <1>2
  <2>4. s \notin tx
    BY <2>1, <2>3, <1>2 DEF TransactionInv, Running
  <2>5. \A l \in locks : l.session \in {"transaction", "statement"}
    BY <1>2 DEF LockRecords
  <2>6. \A l \in locks \union Range(queue) : l.step # s
    BY <2>1, <2>4, <2>5, <1>2 DEF LockInv, Running
  <2>7. QED
    BY <2>1, <2>4, <2>6, <1>1, <1>2, Stops DEF HoldingInv
<1>5. CASE CloseFailed(s)
  <2>1. Rollback(s) /\ phase'[s] = "failed"
    BY <1>2, <1>5 DEF CloseFailed
  <2>2. QED
    BY <2>1, <1>1, RollbackStep, Stops
<1>6. QED
  BY <1>1, <1>3, <1>4, <1>5, FailedSource, AskingSource, OperatingSource DEF SourceStep

LEMMA LaunchStep ==
  ASSUME StateShape, NEW s \in crew, LaunchInv, SourceStep(s)
  PROVE  LaunchInv'
<1>1. /\ crew' = crew /\ \A r \in crew \ {s} : phase'[r] = phase[r]
  BY OthersStep DEF Others, command
<1>2. phase[s] # "done" /\ (phase[s] # "waiting" \/ Ready(s) \/ phase'[s] = "waiting")
  BY DEF SourceStep, Start, Finish, CloseFailed, Current
<1>3. ASSUME NEW r \in crew, phase'[r] # "waiting", NEW d \in Prerequisites[r] \intersect crew
      PROVE  phase'[d] = "done"
  <2>1. phase[d] = "done"
    BY <1>1, <1>2, <1>3 DEF LaunchInv, Ready
  <2>2. QED
    BY <2>1, <1>1, <1>2
<1>4. QED
  BY <1>1, <1>3 DEF LaunchInv

-----------------------------------------------------------------------------
(* The pool                                                                *)

LEMMA OneMoreAtMost ==
  ASSUME NEW S, IsFiniteSet(S), NEW x, NEW T \in SUBSET (S \union {x})
  PROVE  IsFiniteSet(T) /\ Cardinality(T) <= Cardinality(S) + 1 /\ (T \subseteq S => Cardinality(T) <= Cardinality(S))
<1>1. IsFiniteSet(S \union {x}) /\ Cardinality(S \union {x}) <= Cardinality(S) + 1 /\ Cardinality(S) \in Nat
  BY FS_AddElement, FS_CardinalityType
<1>2. IsFiniteSet(T) /\ Cardinality(T) <= Cardinality(S \union {x})
  BY <1>1, FS_Subset
<1>3. T \subseteq S => Cardinality(T) <= Cardinality(S)
  BY FS_Subset
<1>4. QED
  BY <1>1, <1>2, <1>3, FS_CardinalityType

\* No step takes more connections than the pool has.
LEMMA WithinThePool ==
  ASSUME StateShape, crew' = crew, UsedConnections <= PoolSize, NEW s \in crew,
         tx' \subseteq tx \union {s}, \A r \in crew \ {s} : InStatement(r)' => InStatement(r),
         \/ tx' \subseteq tx /\ (InStatement(s)' => InStatement(s))
         \/ tx' \subseteq tx /\ UsedConnections < PoolSize
         \/ (InStatement(s)' => InStatement(s)) /\ UsedConnections < PoolSize
  PROVE  UsedConnections' <= PoolSize
<1> DEFINE S == {r \in crew : InStatement(r)}
           T == {r \in crew : InStatement(r)'}
<1>1. IsFiniteSet(crew)
  BY IngestionAssumption DEF StateShape
<1>2. IsFiniteSet(tx) /\ IsFiniteSet(S)
  BY <1>1, FS_Subset DEF StateShape
<1>3. T \subseteq S \union {s} /\ ((InStatement(s)' => InStatement(s)) => T \subseteq S)
  OBVIOUS
<1>4. UsedConnections = Cardinality(tx) + Cardinality(S) /\ UsedConnections' = Cardinality(tx') + Cardinality(T)
  BY DEF UsedConnections
<1>5. /\ Cardinality(tx) \in Nat /\ Cardinality(S) \in Nat
      /\ IsFiniteSet(tx') /\ IsFiniteSet(T)
      /\ Cardinality(tx') <= Cardinality(tx) + 1 /\ (tx' \subseteq tx => Cardinality(tx') <= Cardinality(tx))
      /\ Cardinality(T) <= Cardinality(S) + 1 /\ (T \subseteq S => Cardinality(T) <= Cardinality(S))
  BY <1>2, <1>3, FS_CardinalityType, OneMoreAtMost
<1>6. Cardinality(tx') \in Nat /\ Cardinality(T) \in Nat
  BY <1>5, FS_CardinalityType
<1>7. PoolSize \in Nat
  BY IngestionAssumption DEF PoolSize, Larger
<1> HIDE DEF S, T
<1>8. QED
  BY <1>3, <1>4, <1>5, <1>6, <1>7

\* The statement of s that is sent has a connection.
LEMMA PoolStep ==
  ASSUME StateShape, NEW s \in crew, SourceInv(s), UsedConnections <= PoolSize, SourceStep(s)
  PROVE  UsedConnections' <= PoolSize
<1>1. crew' = crew /\ \A r \in crew \ {s} : InStatement(r)' => InStatement(r)
  BY OthersStep DEF Others, command, InStatement
<1>2. ASSUME tx' \subseteq tx, locks' \subseteq locks, Range(queue') \subseteq Range(queue)
      PROVE  UsedConnections' <= PoolSize
  <2>1. InStatement(s)' => InStatement(s)
    BY <1>2 DEF InStatement
  <2>2. QED
    BY <2>1, <1>1, <1>2, WithinThePool
<1>3. ASSUME Rollback(s) PROVE UsedConnections' <= PoolSize
  BY <1>2, <1>3, RollbackStep
<1>4. CASE Start(s) \/ Finish(s) \/ CloseFailed(s)
  BY <1>2, <1>3, <1>4 DEF Start, Finish, CloseFailed, sessions
<1>5. ASSUME NEW op \in Current(s), Waits(s, op) \/ TakesLock(s, op)
      PROVE  UsedConnections' <= PoolSize
  <2> DEFINE l == NextLock(s, op)
  <2>1. MissingLocks(s, op) # {} /\ HasConnection(s, op) /\ UNCHANGED tx
    BY <1>5 DEF Waits, TakesLock
  <2>2. l \in LockRecords /\ l.step = s /\ l.session = Session(s, op)
    BY <2>1, NextIsMissing
  <2>3. locks' \union Range(queue') \subseteq locks \union Range(queue) \union {l}
    <3>1. CASE Waits(s, op)
      <4>1. queue' = Append(queue, l) /\ locks' = locks
        BY <3>1 DEF Waits
      <4>2. Range(queue') = Range(queue) \union {l}
        BY <4>1, <2>2, OneMore DEF StateShape
      <4>3. QED
        BY <4>1, <4>2
    <3>2. CASE TakesLock(s, op)
      <4>1. queue' = Dequeued(s) /\ locks' = locks \union {l}
        BY <3>2 DEF TakesLock
      <4>2. QED
        BY <4>1, DequeuedShape
    <3>3. QED
      BY <1>5, <3>1, <3>2
  <2> HIDE DEF l
  <2>4. Session(s, op) = "transaction" => (InStatement(s)' => InStatement(s))
    BY <2>2, <2>3 DEF InStatement
  <2>5. (InStatement(s)' => InStatement(s)) \/ UsedConnections < PoolSize
    BY <2>1, <2>4 DEF HasConnection
  <2>6. QED
    BY <2>1, <2>5, <1>1, WithinThePool
<1>6. ASSUME NEW op \in Current(s), Transact(s, op)
      PROVE  UsedConnections' <= PoolSize
  <2>1. /\ op.do = "begin" /\ MissingLocks(s, op) = {} /\ HasConnection(s, op)
        /\ tx' = tx \union {s} /\ UNCHANGED <<locks, queue>>
    BY <1>6 DEF Transact, Goes
  <2>2. op.do \in WithoutLocks /\ Session(s, op) = "statement"
    BY <2>1 DEF WithoutLocks, Session, Writes
  <2>3. NeededLocks(s, op) = {}
    BY <2>2, NeedsNothing
  <2>4. ~InStatement(s)
    <3>1. \A l \in locks : l.step = s => l.session = "transaction"
      BY <2>3, NoStatement DEF SourceInv, StateShape
    <3>2. \A l \in Range(queue) : l.step # s
      BY <2>1, NoRequest DEF SourceInv
    <3>3. QED
      BY <3>1, <3>2 DEF InStatement
  <2>5. UsedConnections < PoolSize
    BY <2>1, <2>2, <2>4 DEF HasConnection
  <2>6. InStatement(s)' => InStatement(s)
    BY <2>1 DEF InStatement
  <2>7. QED
    BY <2>1, <2>5, <2>6, <1>1, WithinThePool
<1>7. ASSUME NEW op \in Current(s), Operates(s, op), ~Transact(s, op)
      PROVE  UsedConnections' <= PoolSize
  <2>1. CASE CommitTransaction(s, op)
    BY <2>1, <1>3 DEF CommitTransaction
  <2>2. CASE ~CommitTransaction(s, op)
    <3>1. tx' = tx /\ locks' \subseteq locks /\ queue' = queue
      BY <2>2, <1>7 DEF Operates, Consult, OpenRun, CloseRun, DropConstraints, WriteInTransaction,
                        WriteAtOnce, RecordWatermark, Skip, Returns, sessions
    <3>2. QED
      BY <3>1, <1>2
  <2>3. QED
    BY <2>1, <2>2
<1>8. ASSUME NEW op \in Current(s), Aborted(s, op)
      PROVE  UsedConnections' <= PoolSize
  BY <1>2, <1>8, DequeuedShape DEF Aborted
<1>9. ASSUME NEW op \in Current(s), Refuse(s, op) \/ CommitUnanswered(s, op)
      PROVE  UsedConnections' <= PoolSize
  <2>1. Rollback(s) \/ UNCHANGED sessions
    BY <1>9 DEF Refuse, Fails, CommitUnanswered
  <2>2. QED
    BY <2>1, <1>2, <1>3 DEF sessions
<1>10. QED
  BY <1>4, <1>5, <1>6, <1>7, <1>8, <1>9 DEF SourceStep

-----------------------------------------------------------------------------
(* The rows                                                                *)

\* What is committed at once removes nothing, and what a transaction removed is
\* filled when it commits.
LEMMA RowsStep ==
  ASSUME StateShape, NEW s \in crew, SourceInv(s), NothingIsLost, SourceStep(s)
  PROVE  NothingIsLost'
<1>1. /\ HoldingInv(s) /\ TransactionInv(s) /\ RowsInv(s)
      /\ crew \in Crews /\ DOMAIN served = Groups(crew)
  BY DEF SourceInv, StateShape
<1>2. ASSUME UNCHANGED served PROVE NothingIsLost'
  BY <1>2 DEF NothingIsLost
<1>3. ASSUME NEW changes, served' = With(served, changes),
             \A g \in DOMAIN served \intersect DOMAIN changes : changes[g] = "gone" => g \in ErasedFirst
      PROVE  NothingIsLost'
  BY <1>3 DEF NothingIsLost, With
<1>4. ASSUME NEW op \in Current(s), WriteAtOnce(s, op)
      PROVE  NothingIsLost'
  <2> DEFINE k == pc[s]
             n == Len(Steps[s])
  <2>0. PICK value \in LoadedBy(s, op) : served' = With(served, Changes(s, op, value))
    BY <1>4 DEF WriteAtOnce
  <2>1. /\ op.do \in Writes /\ s \notin tx /\ served' = With(served, Changes(s, op, value))
    BY <1>4, <2>0 DEF WriteAtOnce, Goes
  <2>2. /\ Running(s) /\ n \in Nat /\ DOMAIN Steps[s] = 1..n /\ k \in 1..n /\ op = Steps[s][k]
    BY <1>1, CurrentStep DEF StateShape
  <2>3. ASSUME NEW g \in DOMAIN Changes(s, op, value), Changes(s, op, value)[g] = "gone", g \notin ErasedFirst
        PROVE  FALSE
    <3>1. g \in Groups(crew) /\ (g = GroupOf(s, op) \/ Replaces(op, g)) /\ ~(g = GroupOf(s, op) /\ op.do # "erase")
      BY <2>3, <1>1, LoadedIsThere DEF Changes
    <3>2. Replaces(op, g) /\ ~Fills(s, k, g)
      BY <3>1, <2>1, <2>2 DEF Replaces, GroupOf, Replacing, Fills, Writes
    <3>3. \E j \in 1..(k - 1), m \in (k + 1)..n :
             Steps[s][j].do = "begin" /\ Follow(s, j + 1, m) /\ Fills(s, m, g)
      BY <3>1, <3>2, <2>2, <2>3, <1>1, ReplacementAssumption
    <3>4. PICK j \in 1..(k - 1), m \in (k + 1)..n : Steps[s][j].do = "begin" /\ Follow(s, j + 1, m)
      BY <3>3
    <3>5. (j + 1)..(k - 1) \subseteq (j + 1)..m
      BY <2>2
    <3>6. Follow(s, j + 1, k - 1)
      BY <3>4, <3>5 DEF Follow
    <3>7. QED
      BY <3>4, <3>6, <2>1, <2>2, <1>1 DEF TransactionInv
  <2>4. QED
    BY <2>1, <2>3, <1>3
<1>5. ASSUME NEW op \in Current(s), op.do = "commit", served' = With(served, pending[s])
      PROVE  NothingIsLost'
  <2>1. /\ Running(s) /\ op = Steps[s][pc[s]] /\ Len(Steps[s]) \in Nat /\ pc[s] \in 1..Len(Steps[s])
    BY <1>1, CurrentStep DEF StateShape
  <2>2. ASSUME NEW g \in DOMAIN pending[s], pending[s][g] = "gone", g \notin ErasedFirst
        PROVE  FALSE
    <3>1. PICK m \in pc[s]..Len(Steps[s]) : Follow(s, pc[s], m)
      BY <2>1, <2>2, <1>1 DEF RowsInv
    <3>2. pc[s] \in pc[s]..m
      BY <2>1
    <3>3. QED
      BY <3>1, <3>2, <2>1, <1>5 DEF Follow
  <2>3. QED
    BY <2>2, <1>3, <1>5
<1>6. ASSUME NEW op \in Current(s), CommitTransaction(s, op) \/ CommitUnanswered(s, op)
      PROVE  NothingIsLost'
  BY <1>5, <1>6 DEF CommitTransaction, CommitUnanswered, Goes
<1>7. ASSUME NEW op \in Current(s), Operates(s, op), ~CommitTransaction(s, op), ~WriteAtOnce(s, op)
      PROVE  NothingIsLost'
  <2>1. UNCHANGED served
    BY <1>7 DEF Operates, Consult, OpenRun, CloseRun, Transact, DropConstraints, WriteInTransaction,
                RecordWatermark, Skip, database
  <2>2. QED
    BY <2>1, <1>2
<1>8. ASSUME NEW op \in Current(s), Waits(s, op) \/ TakesLock(s, op) \/ Aborted(s, op) \/ Refuse(s, op)
      PROVE  NothingIsLost'
  BY <1>2, <1>8 DEF Waits, TakesLock, Aborted, Refuse, Fails, database
<1>9. CASE Start(s) \/ Finish(s) \/ CloseFailed(s)
  BY <1>2, <1>9 DEF Start, Finish, CloseFailed, database
<1>10. QED
  BY <1>4, <1>6, <1>7, <1>8, <1>9 DEF SourceStep

-----------------------------------------------------------------------------
(* The invariant                                                           *)

\* A source that was not launched.
LEMMA Idle ==
  ASSUME NEW s, phase[s] = "waiting", pc[s] = 1, tx = {}, locks = {}, queue = <<>>, pending[s] = NoChange
  PROVE  SourceInv(s)
<1>1. Range(queue) = {}
  BY DEF Range
<1>2. HoldingInv(s) /\ LockInv(s) /\ RowsInv(s)
  BY <1>1 DEF HoldingInv, LockInv, RowsInv, NoChange
<1>3. TransactionInv(s)
  BY DEF TransactionInv, Running
<1>4. QED
  BY <1>2, <1>3 DEF SourceInv

LEMMA NoConnection ==
  ASSUME tx = {}, locks = {}, queue = <<>>
  PROVE  UsedConnections <= PoolSize
<1>1. {s \in crew : InStatement(s)} = {}
  BY DEF InStatement, Range
<1>2. PoolSize \in Nat
  BY IngestionAssumption DEF PoolSize, Larger
<1>3. UsedConnections = 0
  BY <1>1, FS_EmptySet DEF UsedConnections
<1>4. QED
  BY <1>2, <1>3

LEMMA FirstStep == ASSUME NEW c \in Crews, NEW s \in c PROVE 1 \in 1..(Len(Steps[s]) + 1)
<1>1. Len(Steps[s]) \in Nat
  BY IngestionAssumption, StepsAssumption
<1>2. QED
  BY <1>1

LEMMA InitInv == Init => IInv
<1> SUFFICES ASSUME Init PROVE IInv
  OBVIOUS
<1>1. StateShape
  <2>1. queue \in Seq(LockRecords) /\ OnceQueued
    BY DEF Init, OnceQueued
  <2>2. \A s \in crew : pc[s] \in 1..(Len(Steps[s]) + 1)
    BY FirstStep DEF Init
  <2>3. QED
    BY <2>1, <2>2 DEF Init, StateShape, Phases
<1>2. \A s \in crew : SourceInv(s)
  BY Idle DEF Init
<1>3. LaunchInv /\ NothingIsLost
  BY DEF Init, LaunchInv, NothingIsLost
<1>4. UsedConnections <= PoolSize
  BY NoConnection DEF Init
<1>5. QED
  BY <1>1, <1>2, <1>3, <1>4 DEF IInv

LEMMA RerunInv == ASSUME IInv, Rerun PROVE IInv'
<1>1. /\ UNCHANGED command /\ crew \in Crews /\ starts' = starts + 1
      /\ phase' = [s \in crew |-> "waiting"] /\ pc' = [s \in crew |-> 1]
      /\ tx' = {} /\ locks' = {} /\ queue' = <<>> /\ pending' = [s \in crew |-> NoChange]
      /\ status' = [s \in crew |-> "none"]
  BY DEF Rerun, IInv, StateShape
<1>2. /\ served' \in [Groups(crew) -> {"before", "new", "part", "gone"}] /\ (recorded' = {} \/ recorded' = recorded)
      /\ \A g \in DOMAIN served' : g \in DOMAIN served /\ (served'[g] = "gone" => served[g] = "gone")
  BY DEF Rerun, IInv, StateShape
<1>3. StateShape'
  <2>1. queue' \in Seq(LockRecords) /\ OnceQueued'
    BY <1>1 DEF OnceQueued
  <2>2. \A s \in crew : pc'[s] \in 1..(Len(Steps[s]) + 1)
    BY <1>1, FirstStep
  <2>3. StateShape
    BY DEF IInv
  <2>4. recorded' \subseteq UNION {{s} \X (DOMAIN Chain[s].runs) : s \in crew} /\ starts' \in Nat
    BY <1>1, <1>2, <2>3 DEF StateShape
  <2>5. status' \in [crew -> {"none", "RUNNING", "SUCCESS", "FAILED"}] /\ phase' \in [crew -> Phases]
    BY <1>1 DEF Phases
  <2>6. QED
    BY <2>1, <2>2, <2>3, <2>4, <2>5, <1>1, <1>2, SameShape
<1>4. ASSUME NEW s \in crew PROVE SourceInv(s)'
  <2>1. phase'[s] = "waiting" /\ pc'[s] = 1 /\ pending'[s] = NoChange
    BY <1>1
  <2>2. Range(queue') = {}
    BY <1>1 DEF Range
  <2>3. HoldingInv(s)' /\ LockInv(s)' /\ RowsInv(s)'
    BY <1>1, <2>1, <2>2 DEF HoldingInv, LockInv, RowsInv, NoChange
  <2>4. TransactionInv(s)'
    BY <2>1 DEF TransactionInv, Running
  <2>5. QED
    BY <2>3, <2>4 DEF SourceInv
<1>5. LaunchInv' /\ NothingIsLost'
  BY <1>1, <1>2 DEF LaunchInv, NothingIsLost, command, IInv
<1>6. UsedConnections' <= PoolSize
  <2>1. {s \in crew' : InStatement(s)'} = {}
    BY <1>1 DEF InStatement, Range
  <2>2. PoolSize \in Nat
    BY IngestionAssumption DEF PoolSize, Larger
  <2>3. UsedConnections' = 0
    <3>1. Cardinality(tx') = 0 /\ Cardinality({s \in crew' : InStatement(s)'}) = 0
      BY <1>1, <2>1, FS_EmptySet
    <3>2. QED
      BY <3>1 DEF UsedConnections
  <2>4. QED
    BY <2>2, <2>3
<1>7. crew' = crew
  BY <1>1 DEF command
<1>8. QED
  BY <1>3, <1>4, <1>5, <1>6, <1>7 DEF IInv

LEMMA StepInv == ASSUME IInv, [Next]_vars PROVE IInv'
<1>1. CASE Progress \/ Trouble
  <2>1. PICK s \in crew : SourceStep(s)
    BY <1>1 DEF Progress, Trouble, SourceStep
  <2>2. StateShape /\ SourceInv(s) /\ LaunchInv /\ UsedConnections <= PoolSize /\ NothingIsLost
    BY DEF IInv
  <2>3. StateShape' /\ LaunchInv' /\ UsedConnections' <= PoolSize /\ NothingIsLost'
    BY <2>1, <2>2, ShapeStep, LaunchStep, PoolStep, RowsStep DEF SourceInv
  <2>4. Others(s) /\ SourceInv(s)'
    BY <2>1, <2>2, OthersStep, SourceInvStep
  <2>5. crew' = crew
    BY <2>4 DEF Others, command
  <2>6. \A r \in crew \ {s} : SourceInv(r)'
    BY <2>4, OthersStay DEF IInv
  <2>7. QED
    BY <2>3, <2>4, <2>5, <2>6 DEF IInv
<1>2. CASE Rerun
  BY <1>2, RerunInv
<1>3. CASE UNCHANGED vars
  <2>1. /\ UNCHANGED <<crew, contended, phase, pc, tx, locks, queue, pending, served, recorded, status, starts>>
    BY <1>3 DEF vars, command, sessions, database
  <2>2. StateShape'
    BY <2>1 DEF IInv, StateShape, OnceQueued, LockRecords
  <2>3. ASSUME NEW s \in crew PROVE SourceInv(s)'
    <3>1. SourceInv(s)
      BY DEF IInv
    <3>2. Current(s)' = Current(s)
      BY <2>1 DEF Current
    <3>3. \A op : NeededLocks(s, op)' = NeededLocks(s, op) /\ MissingLocks(s, op)' = MissingLocks(s, op)
      BY <2>1 DEF NeededLocks, MissingLocks, Holds, Session
    <3>4. Running(s)' = Running(s)
      BY <2>1 DEF Running
    <3>5. HoldingInv(s)'
      BY <2>1, <3>1 DEF SourceInv, HoldingInv, AreChanges
    <3>6. TransactionInv(s)'
      BY <2>1, <3>1, <3>4 DEF SourceInv, TransactionInv
    <3>7. LockInv(s)'
      BY <2>1, <3>1, <3>2, <3>3, <3>4 DEF SourceInv, LockInv
    <3>8. RowsInv(s)'
      BY <2>1, <3>1, <3>4 DEF SourceInv, RowsInv
    <3>9. QED
      BY <3>5, <3>6, <3>7, <3>8 DEF SourceInv
  <2>4. LaunchInv' /\ NothingIsLost' /\ UsedConnections' <= PoolSize
    BY <2>1 DEF IInv, LaunchInv, NothingIsLost, UsedConnections, InStatement
  <2>5. QED
    BY <2>1, <2>2, <2>3, <2>4 DEF IInv
<1>4. QED
  BY <1>1, <1>2, <1>3 DEF Next

\* The invariant holds of every crew, whatever fails, is killed or is run again.
THEOREM IngestionInductive == Spec => []IInv
BY InitInv, StepInv, PTL DEF Spec

\* Every variable keeps its shape, what does not run holds and waits for nothing,
\* and the connections in use are never more than the pool has.
THEOREM IngestionTypeCorrect == Spec => []TypeOK
<1>1. IInv => TypeOK
  <2> SUFFICES ASSUME IInv PROVE TypeOK
    OBVIOUS
  <2>1. \A l \in locks \union Range(queue) : l.step \in crew
    <3>1. locks \subseteq LockRecords /\ queue \in Seq(LockRecords)
      BY DEF IInv, StateShape
    <3>2. \A i \in DOMAIN queue : queue[i] \in LockRecords
      BY <3>1
    <3>3. QED
      BY <3>1, <3>2 DEF LockRecords, Range
  <2>2. QED
    BY <2>1 DEF IInv, StateShape, TypeOK, SourceInv, HoldingInv
<1>2. QED
  BY <1>1, IngestionInductive, PTL

\* As long as a transaction holds rows, no other source that writes them is under
\* way, twins apart: of two sources that write a same group, one waits for the
\* other to be done.
THEOREM WritersNeverMeet == Spec => []OneWriter
<1>1. IInv => OneWriter
  <2> SUFFICES ASSUME IInv, NEW a \in tx, NEW b \in crew \ {a}, ~Twins(a, b), phase[b] \in {"running", "closing"},
                      NEW g \in DOMAIN pending[a], Touches(b, g)
               PROVE  FALSE
    BY DEF OneWriter
  <2>1. crew \in Crews /\ DOMAIN served = Groups(crew) /\ a \in crew
    BY DEF IInv, StateShape
  <2>2. Touches(a, g) /\ g \in Groups(crew) /\ phase[a] \in {"running", "closing"}
    <3>1. HoldingInv(a) /\ RowsInv(a)
      BY <2>1 DEF IInv, SourceInv
    <3>2. QED
      BY <2>1, <3>1 DEF HoldingInv, RowsInv, AreChanges
  <2>3. a \in Prerequisites[b] \/ b \in Prerequisites[a]
    BY <2>1, <2>2, WritersAssumption
  <2>4. QED
    BY <2>1, <2>2, <2>3 DEF IInv, LaunchInv
<1>2. QED
  BY <1>1, IngestionInductive, PTL

\* Whatever fails, and wherever the process is killed, no rows are gone but
\* those of the groups that some connector erases first.
THEOREM RowsStay == Spec => []NothingIsLost
<1>1. IInv => NothingIsLost
  BY DEF IInv
<1>2. QED
  BY <1>1, IngestionInductive, PTL

-----------------------------------------------------------------------------
(* What was written is there                                               *)

\* The rows as the transaction of s sees them.
Effect(s, g) == IF g \in DOMAIN pending[s] THEN pending[s][g] ELSE served[g]
\* They are filled before s records or ends anything.
Due(s, g) ==
  \E m \in pc[s]..Len(Steps[s]) : Fills(s, m, g) /\ \A i \in pc[s]..m : Steps[s][i].do \notin Statements
\* Operation j removed them, and s has recorded or ended nothing since.
RemovedBy(s, j, g) == Removes(s, j, g) /\ \A i \in j..(pc[s] - 1) : Steps[s][i].do \notin Statements

\* The transaction of s was opened by an operation before, without a commit since.
OpenInv(s) == Running(s) /\ s \in tx => Open(s, pc[s])
\* A transaction removes what its operations remove.
RemovedInv(s) ==
  Running(s) => \A g \in DOMAIN pending[s] : pending[s][g] = "gone" => \E j \in 1..(pc[s] - 1) : RemovedBy(s, j, g)
\* What was written so far is there, or to be filled again.
WrittenInv(s) ==
  Running(s) => \A k \in 1..(pc[s] - 1) : \A g \in GroupsOf(s) : Fills(s, k, g) => Effect(s, g) \in Loaded(g) \/ Due(s, g)
\* What a watermark lets s skip is there; it is not recorded while s goes through it.
RecordedInv(s) ==
  \A q, m \in DOMAIN Steps[s] : Spans(s, q, m) =>
    /\ <<s, Steps[s][q].script>> \in recorded =>
          \A k \in q..m : \A g \in GroupsOf(s) : Fills(s, k, g) => served[g] \in Loaded(g)
    /\ Running(s) /\ q < pc[s] /\ pc[s] <= m => <<s, Steps[s][q].script>> \notin recorded
\* What was written before the end of a run that is a success is there.
EndedInv(s) ==
  status[s] = "SUCCESS" => \A e \in 1..(pc[s] - 1) : Steps[s][e].do = "end run" =>
      \A k \in 1..e : \A g \in GroupsOf(s) : Fills(s, k, g) => served[g] \in Loaded(g)
\* What a source that is done has written is there.
DoneInv(s) ==
  phase[s] = "done" => \A k \in DOMAIN Steps[s] : \A g \in GroupsOf(s) : Fills(s, k, g) => served[g] \in Loaded(g)

WholeInv(s) == OpenInv(s) /\ RemovedInv(s) /\ WrittenInv(s) /\ RecordedInv(s) /\ EndedInv(s) /\ DoneInv(s)

\* What a source fills is served.
LEMMA FilledIsServed ==
  ASSUME StateShape, NEW s \in crew, NEW k \in DOMAIN Steps[s], NEW g, Fills(s, k, g)
  PROVE  g \in GroupsOf(s) /\ g \in DOMAIN served
<1>1. g \in GroupsOf(s)
  BY DEF Fills, GroupsOf, OpsOf, Range
<1>2. QED
  BY <1>1 DEF StateShape, Groups

LEMMA GroupIsServed == ASSUME StateShape, NEW s \in crew, NEW g \in GroupsOf(s) PROVE g \in DOMAIN served
BY DEF StateShape, Groups

\* A write changes what it fills and what it removes.
LEMMA ChangesOf ==
  ASSUME StateShape, NEW s \in crew, NEW op \in Current(s), op.do \in Writes, NEW value, NEW g \in DOMAIN served
  PROVE  /\ g \in DOMAIN Changes(s, op, value) <=> Fills(s, pc[s], g) \/ Removes(s, pc[s], g)
         /\ g \in DOMAIN Changes(s, op, value) => Changes(s, op, value)[g] = IF Fills(s, pc[s], g) THEN value ELSE "gone"
<1>1. op = Steps[s][pc[s]]
  BY CurrentStep DEF StateShape
<1>2. Fills(s, pc[s], g) <=> g = GroupOf(s, op) /\ op.do # "erase"
  BY <1>1 DEF Fills
<1>3. op.do = "erase" /\ g = GroupOf(s, op) => Replaces(op, g)
  BY DEF Replaces, GroupOf, Replacing
<1>4. Removes(s, pc[s], g) <=> Replaces(op, g) /\ ~Fills(s, pc[s], g)
  BY <1>1 DEF Removes
<1>5. /\ g \in DOMAIN Changes(s, op, value) <=> g = GroupOf(s, op) \/ Replaces(op, g)
      /\ g \in DOMAIN Changes(s, op, value) => Changes(s, op, value)[g] = IF g = GroupOf(s, op) /\ op.do # "erase" THEN value ELSE "gone"
  BY DEF Changes
<1>6. QED
  BY <1>2, <1>3, <1>4, <1>5

\* What a write fills is loaded.
LEMMA FilledIsLoaded ==
  ASSUME StateShape, NEW s \in crew, NEW op \in Current(s), NEW value \in LoadedBy(s, op), NEW g, Fills(s, pc[s], g)
  PROVE  value \in Loaded(g) /\ value # "gone"
BY LoadedIsThere, CurrentStep DEF StateShape, Fills

\* What records, ends or skips writes nothing, and is in no transaction.
LEMMA StatementsAreApart ==
  ASSUME StateShape, NEW s \in crew, NEW op \in Current(s), SourceInv(s), OpenInv(s), op.do \in Statements
  PROVE  s \notin tx /\ pending[s] = NoChange /\ op.do \notin Writes
<1>1. Running(s) /\ s \in DOMAIN Chain /\ pc[s] \in DOMAIN Steps[s] /\ op = Steps[s][pc[s]]
  BY CurrentStep DEF StateShape
<1>2. s \notin tx
  BY <1>1, StatementsAssumption DEF OpenInv
<1>3. QED
  BY <1>2 DEF SourceInv, HoldingInv, Statements, Writes

\* At a watermark, the end of a run or a skip, all that was written is there.
LEMMA Settled ==
  ASSUME StateShape, NEW s \in crew, NEW op \in Current(s), SourceInv(s), OpenInv(s), WrittenInv(s), op.do \in Statements,
         NEW k \in 1..pc[s], NEW g \in GroupsOf(s), Fills(s, k, g)
  PROVE  served[g] \in Loaded(g)
<1>1. Running(s) /\ Len(Steps[s]) \in Nat /\ pc[s] \in 1..Len(Steps[s]) /\ op = Steps[s][pc[s]]
  BY CurrentStep DEF StateShape
<1>2. pending[s] = NoChange /\ op.do \notin Writes
  BY StatementsAreApart
<1>3. Effect(s, g) = served[g]
  BY <1>2 DEF Effect, NoChange
<1>4. ~Due(s, g)
  <2>1. \A m \in pc[s]..Len(Steps[s]) : pc[s] \in pc[s]..m
    BY <1>1
  <2>2. QED
    BY <2>1, <1>1 DEF Due
<1>5. k # pc[s]
  BY <1>1, <1>2 DEF Fills
<1>6. k \in 1..(pc[s] - 1)
  BY <1>1, <1>5
<1>7. QED
  BY <1>1, <1>3, <1>4, <1>6 DEF WrittenInv

-----------------------------------------------------------------------------
(* What a step of s does to the rows, the runs and the watermarks          *)

\* A row stays, is filled, or is removed by s.
Shift(s) ==
  \A g \in DOMAIN served :
    \/ served'[g] \in {served[g]} \union Loaded(g)
    \/ Running(s) /\ \E j \in DOMAIN Steps[s] : j <= pc[s] /\ RemovedBy(s, j, g)

LEMMA CommitShifts ==
  ASSUME StateShape, NEW s \in crew, NEW op \in Current(s), SourceInv(s), RemovedInv(s),
         served' = With(served, pending[s])
  PROVE  Shift(s)
<1>1. Running(s) /\ Len(Steps[s]) \in Nat /\ DOMAIN Steps[s] = 1..Len(Steps[s]) /\ pc[s] \in 1..Len(Steps[s])
  BY CurrentStep DEF StateShape
<1>2. AreChanges(pending[s])
  BY DEF SourceInv, HoldingInv, AreChanges, NoChange
<1>3. ASSUME NEW g \in DOMAIN served, ~(served'[g] \in {served[g]} \union Loaded(g))
      PROVE  \E j \in DOMAIN Steps[s] : j <= pc[s] /\ RemovedBy(s, j, g)
  <2>1. g \in DOMAIN pending[s] /\ pending[s][g] = "gone"
    BY <1>2, <1>3 DEF With, AreChanges
  <2>2. PICK j \in 1..(pc[s] - 1) : RemovedBy(s, j, g)
    BY <2>1, <1>1 DEF RemovedInv
  <2>3. j \in DOMAIN Steps[s] /\ j <= pc[s]
    BY <1>1
  <2>4. QED
    BY <2>2, <2>3
<1>4. QED
  BY <1>1, <1>3 DEF Shift

LEMMA WriteShifts ==
  ASSUME StateShape, NEW s \in crew, NEW op \in Current(s), op.do \in Writes,
         NEW value \in LoadedBy(s, op), served' = With(served, Changes(s, op, value))
  PROVE  Shift(s)
<1>1. Running(s) /\ pc[s] \in DOMAIN Steps[s] /\ Len(Steps[s]) \in Nat /\ pc[s] \in 1..Len(Steps[s]) /\ op = Steps[s][pc[s]]
  BY CurrentStep DEF StateShape
<1>2. pc[s]..(pc[s] - 1) = {} /\ pc[s] <= pc[s]
  BY <1>1
<1>3. ASSUME NEW g \in DOMAIN served, ~(served'[g] \in {served[g]} \union Loaded(g))
      PROVE  RemovedBy(s, pc[s], g)
  <2>1. g \in DOMAIN Changes(s, op, value) /\ Changes(s, op, value)[g] \notin Loaded(g)
    BY <1>3 DEF With
  <2>2. Removes(s, pc[s], g)
    BY <2>1, ChangesOf, FilledIsLoaded
  <2>3. QED
    BY <2>2, <1>2 DEF RemovedBy
<1>4. QED
  BY <1>1, <1>2, <1>3 DEF Shift

LEMMA StepShifts ==
  ASSUME StateShape, NEW s \in crew, SourceInv(s), RemovedInv(s), SourceStep(s)
  PROVE  Shift(s)
<1>1. ASSUME UNCHANGED served PROVE Shift(s)
  BY <1>1 DEF Shift
<1>2. ASSUME NEW op \in Current(s), WriteAtOnce(s, op)
      PROVE  Shift(s)
  BY <1>2, WriteShifts DEF WriteAtOnce, Goes
<1>3. ASSUME NEW op \in Current(s), CommitTransaction(s, op) \/ CommitUnanswered(s, op)
      PROVE  Shift(s)
  BY <1>3, CommitShifts DEF CommitTransaction, CommitUnanswered
<1>4. ASSUME NEW op \in Current(s), Operates(s, op), ~CommitTransaction(s, op), ~WriteAtOnce(s, op)
      PROVE  Shift(s)
  <2>1. UNCHANGED served
    BY <1>4 DEF Operates, Consult, OpenRun, CloseRun, Transact, DropConstraints, WriteInTransaction,
                RecordWatermark, Skip, database
  <2>2. QED
    BY <2>1, <1>1
<1>5. ASSUME NEW op \in Current(s), Waits(s, op) \/ TakesLock(s, op) \/ Aborted(s, op) \/ Refuse(s, op)
      PROVE  Shift(s)
  BY <1>1, <1>5 DEF Waits, TakesLock, Aborted, Refuse, Fails, database
<1>6. CASE Start(s) \/ Finish(s) \/ CloseFailed(s)
  BY <1>1, <1>6 DEF Start, Finish, CloseFailed, database
<1>7. QED
  BY <1>2, <1>3, <1>4, <1>5, <1>6 DEF SourceStep

\* The runs and the watermarks of the others are theirs.
LEMMA OthersRecords ==
  ASSUME StateShape, NEW s \in crew, SourceStep(s), NEW r \in crew \ {s}
  PROVE  status'[r] = status[r] /\ \A i : <<r, i>> \in recorded' <=> <<r, i>> \in recorded
<1>1. DOMAIN status = crew
  BY DEF StateShape
<1>2. ASSUME UNCHANGED <<recorded, status>> PROVE status'[r] = status[r] /\ \A i : <<r, i>> \in recorded' <=> <<r, i>> \in recorded
  BY <1>2
<1>3. CASE Start(s) \/ Finish(s)
  BY <1>2, <1>3 DEF Start, Finish, database
<1>4. CASE CloseFailed(s)
  BY <1>1, <1>4 DEF CloseFailed
<1>5. ASSUME NEW op \in Current(s), Waits(s, op) \/ TakesLock(s, op) \/ Aborted(s, op) \/ Refuse(s, op) \/ CommitUnanswered(s, op)
      PROVE  UNCHANGED <<recorded, status>>
  BY <1>5 DEF Waits, TakesLock, Aborted, Refuse, Fails, CommitUnanswered, database
<1>6. ASSUME NEW op \in Current(s), OpenRun(s, op) \/ CloseRun(s, op)
      PROVE  recorded' = recorded /\ status'[r] = status[r]
  BY <1>1, <1>6 DEF OpenRun, CloseRun
<1>7. ASSUME NEW op \in Current(s), RecordWatermark(s, op)
      PROVE  recorded' = recorded \union {<<s, op.script>>} /\ status'[r] = status[r]
  BY <1>7 DEF RecordWatermark
<1>8. ASSUME NEW op \in Current(s), Operates(s, op), ~OpenRun(s, op), ~CloseRun(s, op), ~RecordWatermark(s, op)
      PROVE  UNCHANGED <<recorded, status>>
  BY <1>8 DEF Operates, Consult, Transact, DropConstraints, WriteInTransaction, WriteAtOnce, CommitTransaction, Skip, database
<1>9. QED
  BY <1>2, <1>3, <1>4, <1>5, <1>6, <1>7, <1>8 DEF SourceStep

\* What s does to the rows of the others is to fill them.
LEMMA OthersStayWhole ==
  ASSUME StateShape, NEW s \in crew, SourceInv(s), RemovedInv(s), SourceStep(s),
         NEW r \in crew \ {s}, ~Twins(r, s), WholeInv(r)
  PROVE  WholeInv(r)'
<1>1. /\ phase'[r] = phase[r] /\ pc'[r] = pc[r] /\ pending'[r] = pending[r] /\ (r \in tx' <=> r \in tx)
      /\ DOMAIN served' = DOMAIN served /\ (Running(r)' <=> Running(r))
  BY OthersStep DEF Others, Running
<1>2. status'[r] = status[r] /\ \A i : <<r, i>> \in recorded' <=> <<r, i>> \in recorded
  BY OthersRecords
<1>3. ASSUME NEW k \in DOMAIN Steps[r], NEW g \in GroupsOf(r), Fills(r, k, g), served[g] \in Loaded(g)
      PROVE  served'[g] \in Loaded(g)
  <2>1. g \in DOMAIN served
    BY GroupIsServed
  <2>2. \A j \in DOMAIN Steps[s] : ~RemovedBy(s, j, g)
    BY <1>3, OwnRowsAssumption DEF RemovedBy, StateShape
  <2>3. QED
    BY <2>1, <2>2, <1>3, StepShifts DEF Shift
<1>4. /\ Len(Steps[r]) \in Nat /\ DOMAIN Steps[r] = 1..Len(Steps[r]) /\ pc[r] \in 1..(Len(Steps[r]) + 1)
  BY IngestionAssumption, StepsAssumption DEF StateShape
<1>5. 1..(pc[r] - 1) \subseteq DOMAIN Steps[r] /\ \A q, m \in DOMAIN Steps[r] : q..m \subseteq DOMAIN Steps[r]
  BY <1>4
<1>6. \A e \in 1..(pc[r] - 1) : 1..e \subseteq DOMAIN Steps[r]
  BY <1>4
<1>7. OpenInv(r)'
  BY <1>1 DEF WholeInv, OpenInv
<1>8. RemovedInv(r)'
  BY <1>1 DEF WholeInv, RemovedInv, RemovedBy
<1>9. WrittenInv(r)'
  <2>1. ASSUME NEW k \in DOMAIN Steps[r], NEW g \in GroupsOf(r), Fills(r, k, g), Effect(r, g) \in Loaded(g)
        PROVE  Effect(r, g)' \in Loaded(g)
    BY <2>1, <1>1, <1>3 DEF Effect
  <2>2. \A g : Due(r, g)' <=> Due(r, g)
    BY <1>1 DEF Due
  <2>3. QED
    BY <2>1, <2>2, <1>1, <1>5 DEF WholeInv, WrittenInv
<1>10. RecordedInv(r)'
  <2> SUFFICES ASSUME NEW q \in DOMAIN Steps[r], NEW m \in DOMAIN Steps[r], Spans(r, q, m)
               PROVE  /\ <<r, Steps[r][q].script>> \in recorded' =>
                           \A k \in q..m : \A g \in GroupsOf(r) : Fills(r, k, g) => served'[g] \in Loaded(g)
                      /\ Running(r)' /\ q < pc'[r] /\ pc'[r] <= m => <<r, Steps[r][q].script>> \notin recorded'
    BY DEF RecordedInv
  <2>1. /\ <<r, Steps[r][q].script>> \in recorded =>
             \A k \in q..m : \A g \in GroupsOf(r) : Fills(r, k, g) => served[g] \in Loaded(g)
        /\ Running(r) /\ q < pc[r] /\ pc[r] <= m => <<r, Steps[r][q].script>> \notin recorded
    BY DEF WholeInv, RecordedInv
  <2>2. QED
    BY <2>1, <1>1, <1>2, <1>3, <1>5
<1>11. EndedInv(r)'
  BY <1>1, <1>2, <1>3, <1>6 DEF WholeInv, EndedInv
<1>12. DoneInv(r)'
  BY <1>1, <1>3 DEF WholeInv, DoneInv
<1>13. QED
  BY <1>7, <1>8, <1>9, <1>10, <1>11, <1>12 DEF WholeInv

-----------------------------------------------------------------------------
(* What a step of s does to what s has written                             *)

\* The bounds within which the operations of s are counted.
LEMMA Bounds ==
  ASSUME StateShape, NEW s \in crew
  PROVE  /\ s \in DOMAIN Chain /\ Len(Steps[s]) \in Nat /\ DOMAIN Steps[s] = 1..Len(Steps[s])
         /\ pc[s] \in 1..(Len(Steps[s]) + 1) /\ pc[s] - 1 \in Nat /\ (pc[s] + 1) - 1 = pc[s]
<1>1. /\ s \in DOMAIN Chain /\ Len(Steps[s]) \in Nat /\ DOMAIN Steps[s] = 1..Len(Steps[s])
      /\ pc[s] \in 1..(Len(Steps[s]) + 1)
  BY IngestionAssumption, StepsAssumption DEF StateShape
<1>2. QED
  BY <1>1

LEMMA OpenGoesOn ==
  ASSUME StateShape, NEW s \in crew, NEW op \in Current(s), OpenInv(s), pc'[s] = pc[s] + 1,
         op.do # "commit", s \in tx' <=> (s \in tx \/ op.do = "begin")
  PROVE  OpenInv(s)'
<1> DEFINE k == pc[s]
<1>1. Running(s) /\ op = Steps[s][k] /\ k \in Nat /\ (k + 1) - 1 = k /\ k \in 1..k
  BY CurrentStep, Bounds DEF StateShape
<1>2. ASSUME s \in tx'
      PROVE  \E j \in 1..k : Steps[s][j].do = "begin" /\ \A i \in (j + 1)..k : Steps[s][i].do # "commit"
  <2>1. CASE op.do = "begin"
    <3>1. (k + 1)..k = {}
      BY <1>1
    <3>2. QED
      BY <2>1, <3>1, <1>1
  <2>2. CASE op.do # "begin"
    <3>1. PICK j \in 1..(k - 1) : /\ Steps[s][j].do = "begin"
                                   /\ \A i \in (j + 1)..(k - 1) : Steps[s][i].do # "commit"
      BY <2>2, <1>1, <1>2 DEF OpenInv, Open
    <3>2. j \in 1..k /\ \A i \in (j + 1)..k : i = k \/ i \in (j + 1)..(k - 1)
      BY <1>1
    <3>3. QED
      BY <3>1, <3>2, <1>1
  <2>3. QED
    BY <2>1, <2>2
<1>3. QED
  BY <1>1, <1>2 DEF OpenInv, Open

\* What was removed before the operation under way still is, unless this one
\* is a watermark, an end or a skip: these are in no transaction.
LEMMA StillRemoved ==
  ASSUME StateShape, NEW s \in crew, NEW op \in Current(s), SourceInv(s), OpenInv(s), RemovedInv(s), s \in tx,
         NEW g \in DOMAIN pending[s], pending[s][g] = "gone"
  PROVE  \E j \in 1..pc[s] : Removes(s, j, g) /\ \A i \in j..pc[s] : Steps[s][i].do \notin Statements
<1> DEFINE k == pc[s]
<1>1. Running(s) /\ op = Steps[s][k] /\ k \in Nat
  BY CurrentStep, Bounds DEF StateShape
<1>2. op.do \notin Statements
  BY StatementsAreApart
<1>3. PICK j \in 1..(k - 1) : Removes(s, j, g) /\ \A i \in j..(k - 1) : Steps[s][i].do \notin Statements
  BY <1>1 DEF RemovedInv, RemovedBy
<1>4. j \in 1..k /\ \A i \in j..k : i = k \/ i \in j..(k - 1)
  BY <1>1
<1>5. QED
  BY <1>1, <1>2, <1>3, <1>4

LEMMA RemovedGoesOn ==
  ASSUME StateShape, NEW s \in crew, NEW op \in Current(s), SourceInv(s), OpenInv(s), RemovedInv(s),
         pc'[s] = pc[s] + 1, pending'[s] = pending[s]
  PROVE  RemovedInv(s)'
<1>1. (pc[s] + 1) - 1 = pc[s]
  BY Bounds
<1>2. ASSUME NEW g \in DOMAIN pending[s] PROVE s \in tx
  BY <1>2 DEF SourceInv, HoldingInv, NoChange
<1>3. ASSUME NEW g \in DOMAIN pending[s], pending[s][g] = "gone"
      PROVE  \E j \in 1..pc[s] : Removes(s, j, g) /\ \A i \in j..pc[s] : Steps[s][i].do \notin Statements
  BY <1>2, <1>3, StillRemoved
<1>4. QED
  BY <1>1, <1>3 DEF RemovedInv, RemovedBy

LEMMA RemovedInTransaction ==
  ASSUME StateShape, NEW s \in crew, NEW op \in Current(s), SourceInv(s), OpenInv(s), RemovedInv(s),
         WriteInTransaction(s, op)
  PROVE  RemovedInv(s)'
<1> DEFINE k == pc[s]
<1>0. PICK value \in LoadedBy(s, op) : pending' = [pending EXCEPT ![s] = Plus(@, Changes(s, op, value))]
  BY DEF WriteInTransaction
<1>1. op.do \in Writes /\ s \in tx /\ pending'[s] = Plus(pending[s], Changes(s, op, value)) /\ pc'[s] = k + 1
  BY <1>0 DEF WriteInTransaction, Goes, Forward, StateShape
<1>2. k \in Nat /\ (k + 1) - 1 = k /\ k \in 1..k /\ \A i \in k..k : i = k
  BY CurrentStep, Bounds DEF StateShape
<1>3. op = Steps[s][k] /\ AreChanges(pending[s])
  BY <1>1, CurrentStep DEF StateShape, SourceInv, HoldingInv
<1>4. ASSUME NEW g \in DOMAIN pending'[s], pending'[s][g] = "gone"
      PROVE  \E j \in 1..k : Removes(s, j, g) /\ \A i \in j..k : Steps[s][i].do \notin Statements
  <2>1. /\ g \in DOMAIN Changes(s, op, value) => Changes(s, op, value)[g] = "gone"
        /\ g \notin DOMAIN Changes(s, op, value) => g \in DOMAIN pending[s] /\ pending[s][g] = "gone"
    BY <1>1, <1>4 DEF Plus
  <2>2. CASE g \in DOMAIN Changes(s, op, value)
    <3>1. g \in DOMAIN served
      BY <2>2 DEF Changes
    <3>2. Removes(s, k, g)
      BY <2>1, <2>2, <3>1, <1>1, ChangesOf, FilledIsLoaded
    <3>3. op.do \notin Statements
      BY <1>1 DEF Writes, Statements
    <3>4. QED
      BY <3>2, <3>3, <1>2, <1>3
  <2>3. CASE g \notin DOMAIN Changes(s, op, value)
    BY <2>1, <2>3, <1>1, StillRemoved
  <2>4. QED
    BY <2>2, <2>3
<1>5. QED
  BY <1>1, <1>2, <1>4 DEF RemovedInv, RemovedBy

\* What was written is there after the operation under way, or to be filled again.
LEMMA WrittenGoesOn ==
  ASSUME StateShape, NEW s \in crew, NEW op \in Current(s), WrittenInv(s), pc'[s] = pc[s] + 1,
         \A g \in GroupsOf(s) :
            /\ Fills(s, pc[s], g) => Effect(s, g)' \in Loaded(g)
            /\ ~Fills(s, pc[s], g) /\ ~Removes(s, pc[s], g) => Effect(s, g)' = Effect(s, g)
  PROVE  WrittenInv(s)'
<1> DEFINE k == pc[s]
           n == Len(Steps[s])
<1>1. /\ Running(s) /\ s \in DOMAIN Chain /\ n \in Nat /\ DOMAIN Steps[s] = 1..n /\ k \in 1..n
      /\ k \in Nat /\ (k + 1) - 1 = k
  BY CurrentStep, Bounds DEF StateShape
<1>2. ASSUME NEW j \in 1..k, NEW g \in GroupsOf(s), Fills(s, j, g)
      PROVE  \/ Effect(s, g)' \in Loaded(g)
             \/ \E m \in (k + 1)..n : Fills(s, m, g) /\ \A i \in (k + 1)..m : Steps[s][i].do \notin Statements
  <2>1. CASE Fills(s, k, g)
    BY <2>1
  <2>2. CASE Removes(s, k, g)
    <3>1. j # k
      BY <2>2, <1>2 DEF Removes
    <3>2. j < k /\ j \in DOMAIN Steps[s] /\ k \in DOMAIN Steps[s]
      BY <3>1, <1>1
    <3>3. \E m \in (k + 1)..n : Fills(s, m, g) /\ \A i \in k..m : Steps[s][i].do \notin Statements
      BY <2>2, <3>2, <1>1, <1>2, RefillAssumption
    <3>4. \A m \in (k + 1)..n : (k + 1)..m \subseteq k..m
      BY <1>1
    <3>5. QED
      BY <3>3, <3>4
  <2>3. CASE ~Fills(s, k, g) /\ ~Removes(s, k, g)
    <3>1. j # k
      BY <2>3, <1>2
    <3>2. j \in 1..(k - 1)
      BY <3>1, <1>1
    <3>3. CASE Effect(s, g) \in Loaded(g)
      BY <2>3, <3>3
    <3>4. CASE Due(s, g)
      <4>1. PICK m \in k..n : Fills(s, m, g) /\ \A i \in k..m : Steps[s][i].do \notin Statements
        BY <3>4 DEF Due
      <4>2. m # k
        BY <2>3, <4>1
      <4>3. m \in (k + 1)..n /\ (k + 1)..m \subseteq k..m
        BY <4>2, <1>1
      <4>4. QED
        BY <4>1, <4>3
    <3>5. QED
      BY <3>2, <3>3, <3>4, <1>1, <1>2 DEF WrittenInv
  <2>4. QED
    BY <2>1, <2>2, <2>3
<1>3. QED
  BY <1>1, <1>2 DEF WrittenInv, Due

\* What was recorded, and what was written before the end of a run, is not
\* removed by what s writes later.
LEMMA RecordedStays ==
  ASSUME StateShape, NEW s \in crew, RecordedInv(s), Shift(s),
         NEW q \in DOMAIN Steps[s], NEW m \in DOMAIN Steps[s], Spans(s, q, m), <<s, Steps[s][q].script>> \in recorded,
         NEW k \in q..m, NEW g \in GroupsOf(s), Fills(s, k, g)
  PROVE  served'[g] \in Loaded(g)
<1>1. /\ s \in DOMAIN Chain /\ Len(Steps[s]) \in Nat /\ DOMAIN Steps[s] = 1..Len(Steps[s])
      /\ pc[s] \in 1..(Len(Steps[s]) + 1)
  BY Bounds
<1>2. served[g] \in Loaded(g) /\ g \in DOMAIN served
  BY GroupIsServed DEF RecordedInv
<1>3. ASSUME NEW j \in DOMAIN Steps[s], Running(s), j <= pc[s], RemovedBy(s, j, g)
      PROVE  FALSE
  <2>1. k \in DOMAIN Steps[s] /\ j \in Nat /\ q \in Nat /\ m \in Nat /\ pc[s] \in Nat
    BY <1>1
  <2>2. j \in q..m
    BY <2>1, <1>1, <1>3, RefillAssumption DEF RemovedBy
  <2>3. Steps[s][q].do = "skip if recorded" /\ Steps[s][m].do = "record"
    BY DEF Spans
  <2>4. Steps[s][j].do \in {"sync", "erase"}
    BY <1>3 DEF RemovedBy, Removes, Replaces, Replacing
  <2>5. j # q
    BY <2>3, <2>4
  <2>6. q < pc[s]
    BY <2>1, <2>2, <2>5, <1>3
  <2>7. m \notin j..(pc[s] - 1)
    BY <2>3, <1>3 DEF RemovedBy, Statements
  <2>8. pc[s] <= m
    BY <2>1, <2>2, <2>7
  <2>9. QED
    BY <2>6, <2>8, <1>3 DEF RecordedInv
<1>4. QED
  BY <1>2, <1>3 DEF Shift

LEMMA UpToTheEnd ==
  ASSUME NEW n \in Nat, NEW p \in 1..(n + 1), NEW e \in 1..(p - 1), NEW k \in 1..e
  PROVE  /\ k \in 1..n /\ e \in 1..n /\ k \in 1..(p - 1)
         /\ \A j \in 1..n : e \notin j..(p - 1) => k < j /\ e \in k..j
OBVIOUS

LEMMA EndedStays ==
  ASSUME StateShape, NEW s \in crew, EndedInv(s), Shift(s), status[s] = "SUCCESS",
         NEW e \in 1..(pc[s] - 1), Steps[s][e].do = "end run",
         NEW k \in 1..e, NEW g \in GroupsOf(s), Fills(s, k, g)
  PROVE  served'[g] \in Loaded(g)
<1>1. /\ s \in DOMAIN Chain /\ Len(Steps[s]) \in Nat /\ DOMAIN Steps[s] = 1..Len(Steps[s])
      /\ pc[s] \in 1..(Len(Steps[s]) + 1)
  BY Bounds
<1>2. served[g] \in Loaded(g) /\ g \in DOMAIN served
  BY GroupIsServed DEF EndedInv
<1>3. ASSUME NEW j \in DOMAIN Steps[s], j <= pc[s], RemovedBy(s, j, g)
      PROVE  FALSE
  <2>1. k \in DOMAIN Steps[s]
    BY <1>1, UpToTheEnd
  <2>2. e \notin j..(pc[s] - 1)
    BY <1>3 DEF RemovedBy, Statements
  <2>3. k < j /\ e \in k..j
    BY <2>2, <1>1, UpToTheEnd
  <2>4. QED
    BY <2>1, <2>3, <1>1, <1>3, RefillAssumption DEF RemovedBy
<1>4. QED
  BY <1>2, <1>3 DEF Shift

\* s fails or closes its run.
LEMMA StopsWhole ==
  ASSUME StateShape, NEW s \in crew, WholeInv(s), Shift(s), phase'[s] \in {"closing", "failed"}, pc'[s] = pc[s],
         recorded' = recorded, status'[s] \in {status[s], "FAILED"}
  PROVE  WholeInv(s)'
<1>1. ~Running(s)' /\ phase'[s] # "done"
  BY DEF Running
<1>2. RecordedInv(s)'
  <2>1. RecordedInv(s)
    BY DEF WholeInv
  <2>2. ASSUME NEW q \in DOMAIN Steps[s], NEW m \in DOMAIN Steps[s], Spans(s, q, m), <<s, Steps[s][q].script>> \in recorded,
               NEW k \in q..m, NEW g \in GroupsOf(s), Fills(s, k, g)
        PROVE  served'[g] \in Loaded(g)
    BY <2>1, <2>2, RecordedStays
  <2>3. QED
    BY <2>2, <1>1 DEF RecordedInv
<1>3. EndedInv(s)'
  <2>1. EndedInv(s)
    BY DEF WholeInv
  <2>2. ASSUME status[s] = "SUCCESS", NEW e \in 1..(pc[s] - 1), Steps[s][e].do = "end run",
               NEW k \in 1..e, NEW g \in GroupsOf(s), Fills(s, k, g)
        PROVE  served'[g] \in Loaded(g)
    BY <2>1, <2>2, EndedStays
  <2>3. QED
    BY <2>2 DEF EndedInv
<1>4. QED
  BY <1>1, <1>2, <1>3 DEF WholeInv, OpenInv, RemovedInv, WrittenInv, DoneInv

\* The operation under way goes on, and is no watermark, end or skip.
LEMMA PromisesGoOn ==
  ASSUME StateShape, NEW s \in crew, NEW op \in Current(s), RecordedInv(s), EndedInv(s), Shift(s),
         phase' = phase, pc'[s] = pc[s] + 1, op.do \notin Statements,
         recorded' = recorded, status'[s] \in {status[s], "RUNNING"}
  PROVE  RecordedInv(s)' /\ EndedInv(s)' /\ DoneInv(s)'
<1> DEFINE k == pc[s]
<1>1. /\ Running(s) /\ op = Steps[s][k] /\ Len(Steps[s]) \in Nat /\ DOMAIN Steps[s] = 1..Len(Steps[s])
      /\ k \in 1..Len(Steps[s]) /\ (k + 1) - 1 = k /\ phase'[s] = "running"
  BY CurrentStep, Bounds DEF StateShape, Running
<1>2. RecordedInv(s)'
  <2>1. ASSUME NEW q \in DOMAIN Steps[s], NEW m \in DOMAIN Steps[s], Spans(s, q, m), <<s, Steps[s][q].script>> \in recorded,
               NEW j \in q..m, NEW g \in GroupsOf(s), Fills(s, j, g)
        PROVE  served'[g] \in Loaded(g)
    BY <2>1, RecordedStays
  <2>2. ASSUME NEW q \in DOMAIN Steps[s], NEW m \in DOMAIN Steps[s], Spans(s, q, m), q < k + 1, k + 1 <= m
        PROVE  <<s, Steps[s][q].script>> \notin recorded
    <3>1. q # k
      BY <2>2, <1>1 DEF Spans, Statements
    <3>2. q < k /\ k <= m
      BY <3>1, <2>2, <1>1, Around
    <3>3. QED
      BY <3>2, <2>2, <1>1 DEF RecordedInv
  <2>3. QED
    BY <2>1, <2>2 DEF RecordedInv
<1>3. EndedInv(s)'
  <2>1. ASSUME status[s] = "SUCCESS", NEW e \in 1..k, Steps[s][e].do = "end run",
               NEW j \in 1..e, NEW g \in GroupsOf(s), Fills(s, j, g)
        PROVE  served'[g] \in Loaded(g)
    <3>1. e # k
      BY <2>1, <1>1 DEF Statements
    <3>2. e \in 1..(k - 1)
      BY <3>1, <1>1
    <3>3. QED
      BY <3>2, <2>1, EndedStays
  <2>2. QED
    BY <2>1, <1>1 DEF EndedInv
<1>4. QED
  BY <1>1, <1>2, <1>3 DEF DoneInv

\* A run ends.
LEMMA EndsWhole ==
  ASSUME StateShape, NEW s \in crew, NEW op \in Current(s), SourceInv(s), WholeInv(s), op.do = "end run",
         phase' = phase, pc'[s] = pc[s] + 1, UNCHANGED <<served, recorded>>
  PROVE  RecordedInv(s)' /\ EndedInv(s)' /\ DoneInv(s)'
<1> DEFINE k == pc[s]
<1>1. /\ Running(s) /\ op = Steps[s][k] /\ Len(Steps[s]) \in Nat /\ DOMAIN Steps[s] = 1..Len(Steps[s])
      /\ k \in 1..Len(Steps[s]) /\ (k + 1) - 1 = k /\ phase'[s] = "running"
  BY CurrentStep, Bounds DEF StateShape, Running
<1>2. OpenInv(s) /\ WrittenInv(s) /\ RecordedInv(s) /\ op.do \in Statements
  BY DEF WholeInv, Statements
<1>3. EndedInv(s)'
  <2>1. ASSUME NEW e \in 1..k, NEW j \in 1..e, NEW g \in GroupsOf(s), Fills(s, j, g)
        PROVE  served[g] \in Loaded(g)
    <3>1. j \in 1..k
      BY <1>1, Around
    <3>2. QED
      BY <3>1, <2>1, <1>2, Settled
  <2>2. QED
    BY <2>1, <1>1 DEF EndedInv
<1>4. RecordedInv(s)'
  <2>1. ASSUME NEW q \in DOMAIN Steps[s], NEW m \in DOMAIN Steps[s], Spans(s, q, m), q < k + 1, k + 1 <= m
        PROVE  <<s, Steps[s][q].script>> \notin recorded
    <3>1. q # k
      BY <2>1, <1>1 DEF Spans
    <3>2. q < k /\ k <= m
      BY <3>1, <2>1, <1>1, Around
    <3>3. QED
      BY <3>2, <2>1, <1>1, <1>2 DEF RecordedInv
  <2>2. QED
    BY <2>1, <1>2 DEF RecordedInv
<1>5. QED
  BY <1>1, <1>3, <1>4 DEF DoneInv

\* A watermark is recorded: what it lets s skip is there.
LEMMA RecordsWhole ==
  ASSUME StateShape, NEW s \in crew, NEW op \in Current(s), SourceInv(s), WholeInv(s), RecordWatermark(s, op)
  PROVE  RecordedInv(s)' /\ EndedInv(s)' /\ DoneInv(s)'
<1> DEFINE k == pc[s]
<1>1. /\ Running(s) /\ op = Steps[s][k] /\ s \in DOMAIN Chain /\ Len(Steps[s]) \in Nat /\ DOMAIN Steps[s] = 1..Len(Steps[s])
      /\ k \in 1..Len(Steps[s]) /\ (k + 1) - 1 = k
  BY CurrentStep, Bounds DEF StateShape
<1>2. /\ op.do = "record" /\ phase' = phase /\ pc'[s] = k + 1 /\ served' = served /\ status' = status
      /\ recorded' = recorded \union {<<s, op.script>>} /\ phase'[s] = "running"
  BY <1>1 DEF RecordWatermark, Goes, Forward, StateShape, Running
<1>3. OpenInv(s) /\ WrittenInv(s) /\ RecordedInv(s) /\ EndedInv(s) /\ op.do \in Statements
  BY <1>2 DEF WholeInv, Statements
<1>4. EndedInv(s)'
  <2>1. ASSUME NEW e \in 1..k, Steps[s][e].do = "end run"
        PROVE  e \in 1..(k - 1)
    <3>1. e # k
      BY <2>1, <1>1, <1>2
    <3>2. QED
      BY <3>1, <1>1
  <2>2. QED
    BY <2>1, <1>1, <1>2, <1>3 DEF EndedInv
<1>5. ASSUME NEW q \in DOMAIN Steps[s], NEW m \in DOMAIN Steps[s], Spans(s, q, m)
      PROVE  /\ Steps[s][m].do = "record" /\ Steps[s][m].script = Steps[s][q].script
             /\ m # k => Steps[s][q].script # op.script
  <2>1. Steps[s][m].do = "record" /\ Steps[s][m].script = Steps[s][q].script
    BY <1>1, <1>5, StatementsAssumption DEF Spans
  <2>2. k \in DOMAIN Steps[s]
    BY <1>1
  <2>3. m # k => Steps[s][m].script # op.script
    BY <2>1, <2>2, <1>1, <1>2, StatementsAssumption
  <2>4. QED
    BY <2>1, <2>3
<1>6. ASSUME NEW q \in DOMAIN Steps[s], NEW m \in DOMAIN Steps[s], Spans(s, q, m), <<s, Steps[s][q].script>> \in recorded',
             NEW j \in q..m, NEW g \in GroupsOf(s), Fills(s, j, g)
      PROVE  served[g] \in Loaded(g)
  <2>1. CASE m = k
    <3>1. j \in 1..k
      BY <2>1, <1>1
    <3>2. QED
      BY <3>1, <1>3, <1>6, Settled
  <2>2. CASE m # k
    <3>1. <<s, Steps[s][q].script>> \in recorded
      BY <2>2, <1>2, <1>5, <1>6
    <3>2. QED
      BY <3>1, <1>3, <1>6 DEF RecordedInv
  <2>3. QED
    BY <2>1, <2>2
<1>7. ASSUME NEW q \in DOMAIN Steps[s], NEW m \in DOMAIN Steps[s], Spans(s, q, m), q < k + 1, k + 1 <= m
      PROVE  <<s, Steps[s][q].script>> \notin recorded'
  <2>1. q # k
    BY <1>1, <1>2, <1>7 DEF Spans
  <2>2. q < k /\ k <= m /\ m # k
    BY <2>1, <1>1, <1>7, Around
  <2>3. <<s, Steps[s][q].script>> \notin recorded
    BY <2>2, <1>1, <1>3, <1>7 DEF RecordedInv
  <2>4. QED
    BY <2>2, <2>3, <1>2, <1>5, <1>7
<1>8. RecordedInv(s)'
  BY <1>2, <1>6, <1>7 DEF RecordedInv
<1>9. QED
  BY <1>2, <1>4, <1>8 DEF DoneInv

\* What is skipped is there.
LEMMA SkipsWhole ==
  ASSUME StateShape, NEW s \in crew, NEW op \in Current(s), SourceInv(s), WholeInv(s), Skip(s, op)
  PROVE  WholeInv(s)'
<1> DEFINE k == pc[s]
           n == Len(Steps[s])
<1>1. /\ Running(s) /\ op = Steps[s][k] /\ s \in DOMAIN Chain /\ n \in Nat /\ DOMAIN Steps[s] = 1..n
      /\ k \in 1..n /\ k \in DOMAIN Steps[s] /\ (k + 1) - 1 = k
  BY CurrentStep, Bounds DEF StateShape
<1>2. /\ op.do = "skip if recorded" /\ phase' = phase /\ served' = served /\ status' = status /\ recorded' = recorded
      /\ tx' = tx /\ pending' = pending /\ phase'[s] = "running"
  BY <1>1 DEF Skip, Goes, Running, sessions, database
<1>3. OpenInv(s) /\ RemovedInv(s) /\ WrittenInv(s) /\ RecordedInv(s) /\ EndedInv(s) /\ op.do \in Statements
  BY <1>2 DEF WholeInv, Statements
<1>4. s \notin tx /\ pending[s] = NoChange /\ op.do \notin Writes
  BY <1>3, StatementsAreApart
<1>5. OpenInv(s)' /\ RemovedInv(s)' /\ DoneInv(s)'
  BY <1>2, <1>4 DEF OpenInv, RemovedInv, DoneInv, NoChange
<1>6. \A g : Effect(s, g)' = served[g]
  BY <1>2, <1>4 DEF Effect, NoChange
<1>7. PICK m \in DOMAIN Steps[s] :
        /\ Min({i \in DOMAIN Steps[s] : i > k /\ Steps[s][i].do = "record"}) = m
        /\ m > k /\ Steps[s][m].do = "record" /\ Spans(s, k, m)
  BY <1>1, <1>2, SkipStays
<1>8. CASE <<s, op.script>> \in recorded
  <2>1. pc'[s] = m + 1
    BY <1>7, <1>8 DEF Skip, StateShape
  <2>2. (m + 1) - 1 = m /\ m \in 1..n
    BY <1>1, <1>7, AfterUpTo
  <2>3. ASSUME NEW j \in 1..m, NEW g \in GroupsOf(s), Fills(s, j, g)
        PROVE  served[g] \in Loaded(g)
    <3>1. CASE j \in 1..k
      BY <3>1, <2>3, <1>3, Settled
    <3>2. CASE j \in k..m
      BY <3>2, <2>3, <1>1, <1>3, <1>7, <1>8 DEF RecordedInv
    <3>3. j \in 1..k \/ j \in k..m
      BY <1>1, <2>2
    <3>4. QED
      BY <3>1, <3>2, <3>3
  <2>4. WrittenInv(s)'
    BY <2>1, <2>2, <2>3, <1>6 DEF WrittenInv
  <2>5. EndedInv(s)'
    <3>1. \A e \in 1..m : 1..e \subseteq 1..m
      BY <2>2
    <3>2. QED
      BY <3>1, <2>1, <2>2, <2>3, <1>2 DEF EndedInv
  <2>6. RecordedInv(s)'
    <3>1. ASSUME NEW q \in DOMAIN Steps[s], NEW l \in DOMAIN Steps[s], Spans(s, q, l), q < m + 1, m + 1 <= l
          PROVE  FALSE
      <4>1. q # m
        BY <3>1, <1>7 DEF Spans
      <4>2. m \in (q + 1)..(l - 1)
        BY <4>1, <3>1, <1>1, <2>2
      <4>3. QED
        BY <4>2, <3>1, <1>7 DEF Spans
    <3>2. QED
      BY <3>1, <2>1, <1>2, <1>3 DEF RecordedInv
  <2>7. QED
    BY <2>4, <2>5, <2>6, <1>5 DEF WholeInv
<1>9. CASE <<s, op.script>> \notin recorded
  <2>1. pc'[s] = k + 1
    BY <1>9 DEF Skip, StateShape
  <2>2. WrittenInv(s)'
    <3>1. ASSUME NEW j \in 1..k, NEW g \in GroupsOf(s), Fills(s, j, g)
          PROVE  served[g] \in Loaded(g)
      BY <3>1, <1>3, Settled
    <3>2. QED
      BY <3>1, <2>1, <1>1, <1>6 DEF WrittenInv
  <2>3. EndedInv(s)'
    <3>1. ASSUME NEW e \in 1..k, Steps[s][e].do = "end run"
          PROVE  e \in 1..(k - 1)
      <4>1. e # k
        BY <3>1, <1>1, <1>2
      <4>2. QED
        BY <4>1, <1>1
    <3>2. QED
      BY <3>1, <2>1, <1>1, <1>2, <1>3 DEF EndedInv
  <2>4. RecordedInv(s)'
    <3>1. ASSUME NEW q \in DOMAIN Steps[s], NEW l \in DOMAIN Steps[s], Spans(s, q, l), q < k + 1, k + 1 <= l
          PROVE  <<s, Steps[s][q].script>> \notin recorded
      <4>1. CASE q = k
        BY <4>1, <1>1, <1>9
      <4>2. CASE q # k
        <5>1. q < k /\ k <= l
          BY <4>2, <3>1, <1>1, Around
        <5>2. QED
          BY <5>1, <3>1, <1>1, <1>3 DEF RecordedInv
      <4>3. QED
        BY <4>1, <4>2
    <3>2. QED
      BY <3>1, <2>1, <1>2, <1>3 DEF RecordedInv
  <2>5. QED
    BY <2>2, <2>3, <2>4, <1>5 DEF WholeInv
<1>10. QED
  BY <1>8, <1>9

\* The operation under way goes on without writing: what was written stays.
LEMMA WrittenStays ==
  ASSUME StateShape, NEW s \in crew, NEW op \in Current(s), WrittenInv(s), pc'[s] = pc[s] + 1, op.do \notin Writes,
         \A g \in GroupsOf(s) : Effect(s, g)' = Effect(s, g)
  PROVE  WrittenInv(s)'
<1>1. op = Steps[s][pc[s]]
  BY CurrentStep DEF StateShape
<1>2. \A g : ~Fills(s, pc[s], g)
  BY <1>1 DEF Fills
<1>3. QED
  BY <1>2, WrittenGoesOn

\* A write changes what the source sees of the rows that it fills and removes.
LEMMA WrittenNow ==
  ASSUME StateShape, NEW s \in crew, NEW op \in Current(s), WrittenInv(s), pc'[s] = pc[s] + 1, op.do \in Writes,
         NEW value \in LoadedBy(s, op),
         \A g \in DOMAIN served :
            Effect(s, g)' = IF g \in DOMAIN Changes(s, op, value) THEN Changes(s, op, value)[g] ELSE Effect(s, g)
  PROVE  WrittenInv(s)'
<1>1. ASSUME NEW g \in GroupsOf(s)
      PROVE  /\ Fills(s, pc[s], g) => Effect(s, g)' \in Loaded(g)
             /\ ~Fills(s, pc[s], g) /\ ~Removes(s, pc[s], g) => Effect(s, g)' = Effect(s, g)
  <2>1. g \in DOMAIN served
    BY GroupIsServed
  <2>2. QED
    BY <2>1, ChangesOf, FilledIsLoaded
<1>2. QED
  BY <1>1, WrittenGoesOn

\* What s has open and removed depends on its own steps only.
OwnInv(s) == OpenInv(s) /\ RemovedInv(s)

LEMMA OwnOperates ==
  ASSUME StateShape, NEW s \in crew, NEW op \in Current(s), SourceInv(s), OwnInv(s), Operates(s, op)
  PROVE  OwnInv(s)'
<1>1. DOMAIN pc = crew /\ DOMAIN pending = crew /\ OpenInv(s) /\ RemovedInv(s) /\ HoldingInv(s)
  BY DEF StateShape, OwnInv, SourceInv
<1>2. Forward(s) => pc'[s] = pc[s] + 1
  BY <1>1 DEF Forward
<1>3. CASE Consult(s, op) \/ OpenRun(s, op) \/ CloseRun(s, op) \/ Transact(s, op) \/ DropConstraints(s, op)
           \/ RecordWatermark(s, op)
  <2>1. /\ op.do # "commit" /\ Forward(s) /\ pending' = pending
        /\ s \in tx' <=> (s \in tx \/ op.do = "begin")
    BY <1>3 DEF Consult, OpenRun, CloseRun, Transact, DropConstraints, RecordWatermark, Goes, sessions
  <2>2. QED
    BY <2>1, <1>1, <1>2, OpenGoesOn, RemovedGoesOn DEF OwnInv
<1>4. CASE WriteInTransaction(s, op)
  <2>1. op.do \in Writes /\ s \in tx /\ Forward(s) /\ tx' = tx
    BY <1>4 DEF WriteInTransaction, Goes
  <2>2. op.do # "commit"
    BY <2>1 DEF Writes
  <2>3. QED
    BY <2>1, <2>2, <1>1, <1>2, <1>4, OpenGoesOn, RemovedInTransaction DEF OwnInv
<1>5. CASE WriteAtOnce(s, op)
  <2>1. s \notin tx /\ UNCHANGED <<tx, pending>> /\ pending[s] = NoChange
    BY <1>1, <1>5 DEF WriteAtOnce, HoldingInv
  <2>2. QED
    BY <2>1 DEF OwnInv, OpenInv, RemovedInv, NoChange
<1>6. CASE CommitTransaction(s, op)
  <2>1. s \notin tx' /\ pending'[s] = NoChange
    BY <1>6, RollbackStep DEF CommitTransaction
  <2>2. QED
    BY <2>1 DEF OwnInv, OpenInv, RemovedInv, NoChange
<1>7. CASE Skip(s, op)
  <2>1. op.do \in Statements /\ UNCHANGED <<tx, pending>>
    BY <1>7 DEF Skip, Goes, sessions, Statements
  <2>2. s \notin tx /\ pending[s] = NoChange
    BY <2>1, <1>1, StatementsAreApart
  <2>3. QED
    BY <2>1, <2>2 DEF OwnInv, OpenInv, RemovedInv, NoChange
<1>8. QED
  BY <1>3, <1>4, <1>5, <1>6, <1>7 DEF Operates

LEMMA OwnStep ==
  ASSUME StateShape, NEW s \in crew, SourceInv(s), OwnInv(s), SourceStep(s)
  PROVE  OwnInv(s)'
<1>1. /\ phase \in [crew -> Phases] /\ HoldingInv(s)
  BY DEF StateShape, SourceInv
<1>2. ASSUME phase'[s] # "running" PROVE OwnInv(s)'
  BY <1>2 DEF OwnInv, OpenInv, RemovedInv, Running
<1>3. CASE Start(s)
  <2>1. s \notin tx' /\ pending'[s] = NoChange
    BY <1>1, <1>3 DEF Start, sessions, HoldingInv
  <2>2. QED
    BY <2>1 DEF OwnInv, OpenInv, RemovedInv, NoChange
<1>4. CASE Finish(s) \/ CloseFailed(s)
  BY <1>1, <1>2, <1>4 DEF Finish, CloseFailed
<1>5. ASSUME NEW op \in Current(s), Waits(s, op) \/ TakesLock(s, op)
      PROVE  OwnInv(s)'
  <2>1. UNCHANGED <<phase, pc, tx, pending>>
    BY <1>5 DEF Waits, TakesLock
  <2>2. QED
    BY <2>1 DEF OwnInv, OpenInv, RemovedInv, RemovedBy, Running
<1>6. ASSUME NEW op \in Current(s), Aborted(s, op) \/ Refuse(s, op) \/ CommitUnanswered(s, op)
      PROVE  OwnInv(s)'
  <2>1. AfterError(s, op)[s] # "running"
    BY <1>1 DEF AfterError
  <2>2. QED
    BY <2>1, <1>1, <1>2, <1>6 DEF Aborted, Refuse, Fails, CommitUnanswered
<1>7. QED
  BY <1>3, <1>4, <1>5, <1>6, OwnOperates DEF SourceStep

\* The operations.
LEMMA OperatesWhole ==
  ASSUME StateShape, NEW s \in crew, NEW op \in Current(s), SourceInv(s), WholeInv(s), Operates(s, op), Shift(s)
  PROVE  WholeInv(s)'
<1>0. OpenInv(s)' /\ RemovedInv(s)'
  BY OwnOperates DEF WholeInv, OwnInv
<1>1. /\ DOMAIN pc = crew /\ DOMAIN status = crew /\ DOMAIN pending = crew
      /\ OpenInv(s) /\ RemovedInv(s) /\ WrittenInv(s) /\ RecordedInv(s) /\ EndedInv(s) /\ DoneInv(s)
      /\ HoldingInv(s) /\ served \in [Groups(crew) -> {"before", "new", "part", "gone"}]
  BY DEF StateShape, WholeInv, SourceInv
<1>2. Forward(s) => pc'[s] = pc[s] + 1
  BY <1>1 DEF Forward
<1>3. ASSUME UNCHANGED <<pending, served>> PROVE \A g \in GroupsOf(s) : Effect(s, g)' = Effect(s, g)
  BY <1>3 DEF Effect
<1>4. ASSUME Forward(s), phase' = phase, op.do \notin Statements \union Writes \union {"commit"},
             s \in tx' <=> (s \in tx \/ op.do = "begin"), UNCHANGED <<pending, served, recorded>>,
             status'[s] \in {status[s], "RUNNING"}
      PROVE  WholeInv(s)'
  <2>2. WrittenInv(s)'
    BY <1>1, <1>2, <1>3, <1>4, WrittenStays
  <2>3. RecordedInv(s)' /\ EndedInv(s)' /\ DoneInv(s)'
    BY <1>1, <1>2, <1>4, PromisesGoOn
  <2>4. QED
    BY <2>2, <2>3, <1>0 DEF WholeInv
<1>5. CASE Consult(s, op) \/ OpenRun(s, op) \/ Transact(s, op) \/ DropConstraints(s, op)
  <2>1. /\ op.do \in {"ensure source", "fetch", "read", "start run", "begin", "unlink"} /\ Forward(s) /\ phase' = phase
        /\ UNCHANGED <<pending, served, recorded>>
    BY <1>5 DEF Consult, OpenRun, Transact, DropConstraints, Goes, sessions, database
  <2>2. status'[s] \in {status[s], "RUNNING"}
    BY <1>1, <1>5 DEF Consult, OpenRun, Transact, DropConstraints, database
  <2>3. s \in tx' <=> (s \in tx \/ op.do = "begin")
    BY <1>5 DEF Consult, OpenRun, Transact, DropConstraints, Goes, sessions
  <2>4. op.do \notin Statements \union Writes \union {"commit"}
    BY <2>1 DEF Statements, Writes
  <2>5. QED
    BY <2>1, <2>2, <2>3, <2>4, <1>4
<1>6. CASE CloseRun(s, op)
  <2>1. /\ op.do \in {"end run", "refused end run"} /\ Forward(s) /\ phase' = phase /\ UNCHANGED <<tx, pending, served, recorded>>
        /\ op.do = "refused end run" => UNCHANGED status
    BY <1>6 DEF CloseRun, Goes, sessions
  <2>2. CASE op.do = "refused end run"
    <3>1. op.do \notin Statements \union Writes \union {"commit"} /\ op.do # "begin"
      BY <2>2 DEF Statements, Writes
    <3>2. QED
      BY <3>1, <2>1, <2>2, <1>4
  <2>3. CASE op.do = "end run"
    <3>1. op.do \notin Writes \union {"commit", "begin"}
      BY <2>3 DEF Writes
    <3>3. WrittenInv(s)'
      BY <3>1, <2>1, <1>1, <1>2, <1>3, WrittenStays
    <3>4. RecordedInv(s)' /\ EndedInv(s)' /\ DoneInv(s)'
      BY <2>1, <2>3, <1>2, EndsWhole
    <3>5. QED
      BY <3>3, <3>4, <1>0 DEF WholeInv
  <2>4. QED
    BY <2>1, <2>2, <2>3
<1>7. CASE RecordWatermark(s, op)
  <2>1. op.do = "record" /\ Forward(s) /\ phase' = phase /\ UNCHANGED <<tx, pending, served>>
    BY <1>7 DEF RecordWatermark, Goes, sessions
  <2>2. op.do \notin Writes \union {"commit", "begin"}
    BY <2>1 DEF Writes
  <2>4. WrittenInv(s)'
    BY <2>1, <2>2, <1>1, <1>2, <1>3, WrittenStays
  <2>5. QED
    BY <2>4, <1>0, <1>7, RecordsWhole DEF WholeInv
<1>8. CASE WriteInTransaction(s, op)
  <2>0. PICK value \in LoadedBy(s, op) : pending' = [pending EXCEPT ![s] = Plus(@, Changes(s, op, value))]
    BY <1>8 DEF WriteInTransaction
  <2>1. /\ op.do \in Writes /\ s \in tx /\ Forward(s) /\ phase' = phase /\ UNCHANGED <<tx, served, recorded, status>>
        /\ pending'[s] = Plus(pending[s], Changes(s, op, value))
    BY <1>1, <1>8, <2>0 DEF WriteInTransaction, Goes, database
  <2>2. op.do \notin Statements /\ op.do # "commit"
    BY <2>1 DEF Writes, Statements
  <2>4. ASSUME NEW g \in DOMAIN served
        PROVE  Effect(s, g)' = IF g \in DOMAIN Changes(s, op, value) THEN Changes(s, op, value)[g] ELSE Effect(s, g)
    BY <2>1 DEF Effect, Plus
  <2>5. WrittenInv(s)'
    BY <2>1, <2>4, <1>1, <1>2, WrittenNow
  <2>6. RecordedInv(s)' /\ EndedInv(s)' /\ DoneInv(s)'
    BY <2>1, <2>2, <1>1, <1>2, PromisesGoOn
  <2>7. QED
    BY <2>5, <2>6, <1>0 DEF WholeInv
<1>9. CASE WriteAtOnce(s, op)
  <2>0. PICK value \in LoadedBy(s, op) : served' = With(served, Changes(s, op, value))
    BY <1>9 DEF WriteAtOnce
  <2>1. /\ op.do \in Writes /\ s \notin tx /\ Forward(s) /\ phase' = phase /\ UNCHANGED <<tx, pending, recorded, status>>
        /\ served' = With(served, Changes(s, op, value)) /\ pending[s] = NoChange
    BY <1>1, <1>9, <2>0 DEF WriteAtOnce, Goes, HoldingInv
  <2>2. op.do \notin Statements
    BY <2>1 DEF Writes, Statements
  <2>4. ASSUME NEW g \in DOMAIN served
        PROVE  Effect(s, g)' = IF g \in DOMAIN Changes(s, op, value) THEN Changes(s, op, value)[g] ELSE Effect(s, g)
    BY <2>1 DEF Effect, With, NoChange
  <2>5. WrittenInv(s)'
    BY <2>1, <2>4, <1>1, <1>2, WrittenNow
  <2>6. RecordedInv(s)' /\ EndedInv(s)' /\ DoneInv(s)'
    BY <2>1, <2>2, <1>1, <1>2, PromisesGoOn
  <2>7. QED
    BY <2>5, <2>6, <1>0 DEF WholeInv
<1>10. CASE CommitTransaction(s, op)
  <2>1. /\ op.do = "commit" /\ Forward(s) /\ phase' = phase /\ UNCHANGED <<recorded, status>> /\ Rollback(s)
        /\ served' = With(served, pending[s])
    BY <1>10 DEF CommitTransaction, Goes
  <2>2. s \notin tx' /\ pending'[s] = NoChange /\ op.do \notin Statements \union Writes
    BY <2>1, RollbackStep DEF Statements, Writes
  <2>4. ASSUME NEW g \in GroupsOf(s) PROVE Effect(s, g)' = Effect(s, g)
    <3>1. g \in DOMAIN served
      BY GroupIsServed
    <3>2. QED
      BY <3>1, <2>1, <2>2 DEF Effect, With, NoChange
  <2>5. WrittenInv(s)'
    BY <2>1, <2>2, <2>4, <1>1, <1>2, WrittenStays
  <2>6. RecordedInv(s)' /\ EndedInv(s)' /\ DoneInv(s)'
    BY <2>1, <2>2, <1>1, <1>2, PromisesGoOn
  <2>7. QED
    BY <2>5, <2>6, <1>0 DEF WholeInv
<1>11. CASE Skip(s, op)
  BY <1>11, SkipsWhole
<1>12. QED
  BY <1>5, <1>6, <1>7, <1>8, <1>9, <1>10, <1>11 DEF Operates

LEMMA WholeStep ==
  ASSUME StateShape, NEW s \in crew, SourceInv(s), WholeInv(s), SourceStep(s)
  PROVE  WholeInv(s)'
<1>1. /\ phase \in [crew -> Phases] /\ s \in DOMAIN Chain /\ Len(Steps[s]) \in Nat /\ DOMAIN Steps[s] = 1..Len(Steps[s])
      /\ pc[s] \in 1..(Len(Steps[s]) + 1) /\ DOMAIN status = crew
      /\ HoldingInv(s) /\ TransactionInv(s)
  BY Bounds DEF StateShape, SourceInv
<1>2. Shift(s)
  BY StepShifts DEF WholeInv
<1>3. CASE Start(s)
  <2>1. /\ phase[s] = "waiting" /\ phase'[s] = "running" /\ UNCHANGED <<pc, tx, pending, served, recorded, status>>
    BY <1>1, <1>3 DEF Start, sessions, database
  <2>2. s \notin tx' /\ pending'[s] = NoChange /\ pc'[s] = 1
    BY <2>1, <1>1 DEF HoldingInv, TransactionInv
  <2>3. 1..(pc'[s] - 1) = {} /\ \A q \in DOMAIN Steps[s] : ~(q < pc'[s])
    BY <2>2, <1>1
  <2>4. RecordedInv(s)'
    BY <2>1, <2>3 DEF WholeInv, RecordedInv
  <2>5. OpenInv(s)' /\ RemovedInv(s)' /\ WrittenInv(s)' /\ EndedInv(s)' /\ DoneInv(s)'
    BY <2>1, <2>2, <2>3 DEF OpenInv, RemovedInv, WrittenInv, EndedInv, DoneInv, NoChange
  <2>6. QED
    BY <2>4, <2>5 DEF WholeInv
<1>4. CASE Finish(s)
  <2>1. /\ phase[s] = "running" /\ Current(s) = {} /\ phase'[s] = "done" /\ UNCHANGED <<pc, tx, pending, served, recorded, status>>
    BY <1>1, <1>4 DEF Finish, sessions, database
  <2>2. ~(pc[s] <= Len(Steps[s]))
    BY <2>1 DEF Current
  <2>3. pc[s]..Len(Steps[s]) = {} /\ 1..(pc[s] - 1) = DOMAIN Steps[s]
    BY <2>2, <1>1
  <2>4. s \notin tx
    BY <2>1, <2>3, <1>1 DEF TransactionInv, Running
  <2>5. \A g : Effect(s, g) = served[g] /\ ~Due(s, g)
    BY <2>3, <2>4, <1>1 DEF HoldingInv, Effect, Due, NoChange
  <2>6. DoneInv(s)'
    BY <2>1, <2>3, <2>5 DEF WholeInv, WrittenInv, DoneInv, Running
  <2>7. ~Running(s)'
    BY <2>1 DEF Running
  <2>8. RecordedInv(s)' /\ EndedInv(s)'
    BY <2>1, <2>7 DEF WholeInv, RecordedInv, EndedInv
  <2>9. QED
    BY <2>6, <2>7, <2>8 DEF WholeInv, OpenInv, RemovedInv, WrittenInv
<1>5. CASE CloseFailed(s)
  <2>1. phase'[s] = "failed" /\ UNCHANGED <<pc, recorded>> /\ status'[s] \in {status[s], "FAILED"}
    BY <1>1, <1>5 DEF CloseFailed
  <2>2. QED
    BY <2>1, <1>2, StopsWhole
<1>6. ASSUME NEW op \in Current(s), Waits(s, op) \/ TakesLock(s, op)
      PROVE  WholeInv(s)'
  <2>1. UNCHANGED <<phase, pc, tx, pending, served, recorded, status>>
    BY <1>6 DEF Waits, TakesLock, database
  <2>2. Running(s)' <=> Running(s)
    BY <2>1 DEF Running
  <2>3. \A g : (Effect(s, g)' = Effect(s, g)) /\ (Due(s, g)' <=> Due(s, g))
    BY <2>1 DEF Effect, Due
  <2>4. QED
    BY <2>1, <2>2, <2>3 DEF WholeInv, OpenInv, RemovedInv, RemovedBy, WrittenInv, RecordedInv, EndedInv, DoneInv
<1>7. ASSUME NEW op \in Current(s), Aborted(s, op) \/ Refuse(s, op) \/ CommitUnanswered(s, op)
      PROVE  WholeInv(s)'
  <2>1. UNCHANGED <<pc, recorded, status>>
    BY <1>7 DEF Aborted, Refuse, Fails, CommitUnanswered, database
  <2>2. phase'[s] \in {"closing", "failed"}
    <3>1. AfterError(s, op)[s] \in {"closing", "failed"}
      BY <1>1 DEF AfterError
    <3>2. QED
      BY <3>1, <1>1, <1>7 DEF Aborted, Refuse, Fails, CommitUnanswered
  <2>3. QED
    BY <2>1, <2>2, <1>2, StopsWhole
<1>8. QED
  BY <1>2, <1>3, <1>4, <1>5, <1>6, <1>7, OperatesWhole DEF SourceStep

LEMMA InitWhole == Init => \A s \in crew : WholeInv(s)
<1> SUFFICES ASSUME Init, NEW s \in crew PROVE WholeInv(s)
  OBVIOUS
<1>1. phase[s] = "waiting" /\ recorded = {} /\ status[s] = "none"
  BY DEF Init
<1>2. QED
  BY <1>1 DEF WholeInv, OpenInv, RemovedInv, WrittenInv, RecordedInv, EndedInv, DoneInv, Running

LEMMA RerunWhole ==
  ASSUME IInv, Rerun, NEW s \in crew, WholeInv(s)
  PROVE  WholeInv(s)'
<1>1. phase'[s] = "waiting" /\ status'[s] = "none" /\ (recorded' = {} \/ UNCHANGED <<recorded, served>>)
  <2>1. phase'[s] = "waiting" /\ status'[s] = "none"
    BY DEF Rerun
  <2>2. PICK newDocuments \in BOOLEAN :
          /\ recorded' = IF newDocuments THEN {} ELSE recorded
          /\ served' = [g \in DOMAIN served |->
                          IF newDocuments /\ served[g] \in {"new", "part"} THEN "before" ELSE served[g]]
    BY DEF Rerun
  <2>3. CASE newDocuments
    BY <2>1, <2>2, <2>3
  <2>4. CASE ~newDocuments
    <3>1. served' = [g \in DOMAIN served |-> served[g]]
      BY <2>2, <2>4
    <3>2. served' = served
      BY <3>1 DEF IInv, StateShape
    <3>3. QED
      BY <2>1, <2>2, <2>4, <3>2
  <2>5. QED
    BY <2>3, <2>4
<1>2. RecordedInv(s)'
  <2>1. ~Running(s)'
    BY <1>1 DEF Running
  <2>2. CASE recorded' = {}
    BY <2>1, <2>2 DEF RecordedInv
  <2>3. CASE UNCHANGED <<recorded, served>>
    BY <2>1, <2>3 DEF WholeInv, RecordedInv
  <2>4. QED
    BY <1>1, <2>2, <2>3
<1>3. QED
  BY <1>1, <1>2 DEF WholeInv, OpenInv, RemovedInv, WrittenInv, EndedInv, DoneInv, Running

Whole == \A s \in crew : OwnInv(s) /\ (Apart(s) => WholeInv(s))

LEMMA StepWhole == ASSUME IInv, Whole, [Next]_vars PROVE Whole'
<1>0. ASSUME crew' = crew, NEW s \in crew
      PROVE  Apart(s)' <=> Apart(s)
  BY <1>0 DEF Apart
<1>1. CASE Progress \/ Trouble
  <2>1. PICK s \in crew : SourceStep(s)
    BY <1>1 DEF Progress, Trouble, SourceStep
  <2>2. StateShape /\ SourceInv(s) /\ OwnInv(s)
    BY DEF IInv, Whole
  <2>3. OwnInv(s)' /\ crew' = crew
    BY <2>1, <2>2, OwnStep, OthersStep DEF Others, command
  <2>4. Apart(s) => WholeInv(s)'
    BY <2>1, <2>2, WholeStep DEF Whole
  <2>5. ASSUME NEW r \in crew \ {s}
        PROVE  OwnInv(r)' /\ (Apart(r) => WholeInv(r)')
    <3>1. /\ phase'[r] = phase[r] /\ pc'[r] = pc[r] /\ pending'[r] = pending[r]
          /\ (r \in tx' <=> r \in tx) /\ (Running(r)' <=> Running(r))
      BY <2>1, <2>2, OthersStep DEF Others, Running
    <3>2. OwnInv(r)'
      BY <3>1 DEF Whole, OwnInv, OpenInv, RemovedInv, RemovedBy
    <3>3. ASSUME Apart(r) PROVE WholeInv(r)'
      <4>1. ~Twins(r, s) /\ WholeInv(r)
        BY <3>3 DEF Apart, Whole
      <4>2. QED
        BY <4>1, <2>1, <2>2, OthersStayWhole DEF OwnInv
    <3>4. QED
      BY <3>2, <3>3
  <2>6. QED
    BY <2>3, <2>4, <2>5, <1>0 DEF Whole
<1>2. CASE Rerun
  <2>1. crew' = crew
    BY <1>2 DEF Rerun, command
  <2>2. ASSUME NEW s \in crew PROVE OwnInv(s)'
    BY <1>2 DEF Rerun, OwnInv, OpenInv, RemovedInv, Running
  <2>3. ASSUME NEW s \in crew, Apart(s) PROVE WholeInv(s)'
    BY <2>3, <1>2, RerunWhole DEF Whole
  <2>4. QED
    BY <2>1, <2>2, <2>3, <1>0 DEF Whole
<1>3. CASE UNCHANGED vars
  <2>1. UNCHANGED <<crew, phase, pc, tx, pending, served, recorded, status>>
    BY <1>3 DEF vars, command, sessions, database
  <2>2. \A s \in crew : Running(s)' <=> Running(s)
    BY <2>1 DEF Running
  <2>3. ASSUME NEW s \in crew PROVE OwnInv(s)'
    BY <2>1, <2>2 DEF Whole, OwnInv, OpenInv, RemovedInv, RemovedBy
  <2>4. ASSUME NEW s \in crew, Apart(s) PROVE WholeInv(s)'
    <3>1. WholeInv(s) /\ (Running(s)' <=> Running(s))
      BY <2>2, <2>4 DEF Whole
    <3>2. \A g : (Effect(s, g)' = Effect(s, g)) /\ (Due(s, g)' <=> Due(s, g))
      BY <2>1 DEF Effect, Due
    <3>3. QED
      BY <2>1, <3>1, <3>2 DEF WholeInv, OpenInv, RemovedInv, RemovedBy, WrittenInv, RecordedInv, EndedInv, DoneInv
  <2>5. QED
    BY <2>1, <2>3, <2>4, <1>0 DEF Whole
<1>4. QED
  BY <1>1, <1>2, <1>3 DEF Next

\* What was written is there, or to be filled again, and what a watermark or the
\* end of a run says is there is there.
THEOREM WholeInductive == Spec => [](IInv /\ Whole)
<1>1. Init => IInv /\ Whole
  BY InitInv, InitWhole DEF Whole, WholeInv, OwnInv
<1>2. IInv /\ Whole /\ [Next]_vars => (IInv /\ Whole)'
  BY StepInv, StepWhole
<1>3. QED
  BY <1>1, <1>2, PTL DEF Spec

\* The greatest of a bounded set of numbers is one of them.
LEMMA GreatestIsIn ==
  ASSUME NEW N \in Nat, NEW S \in SUBSET (0..N), S # {}
  PROVE  Max(S) \in S
<1> DEFINE T == {N - x : x \in S}
<1>1. T \in SUBSET Nat /\ T # {}
  <2>1. \A x \in S : N - x \in Nat
    OBVIOUS
  <2>2. QED
    BY <2>1
<1> HIDE DEF T
<1>2. Min(T) \in T /\ \A n \in T : Min(T) <= n
  BY <1>1, LeastIsIn
<1>3. PICK x \in S : \A y \in S : N - x <= N - y
  BY <1>2 DEF T
<1>4. \A y \in S : x \in Int /\ y \in Int
  OBVIOUS
<1>5. \A y \in S : x >= y
  BY <1>3, <1>4
<1>6. QED
  BY <1>5 DEF Max

\* What a source that is done, or whose run is a success, has written up to there
\* is served as the documents of the day say, wherever the processes before were
\* killed between a transaction, its watermark and the end of the run: all of them, or,
\* for the groups of CutShort, what the loader read of them.  Of sources beside one of
\* their twins nothing is said.
THEOREM SuccessSaysTheTruth == Spec => []SuccessIsWhole
<1>1. IInv /\ Whole => SuccessIsWhole
  <2> SUFFICES ASSUME IInv, Whole, NEW s \in crew, Apart(s), NEW k \in 1..Vouched(s), Steps[s][k].do \in Writes \ {"erase"}
               PROVE  served[GroupOf(s, Steps[s][k])] \in Loaded(GroupOf(s, Steps[s][k]))
    BY DEF SuccessIsWhole
  <2> DEFINE n == Len(Steps[s])
             g == GroupOf(s, Steps[s][k])
             ends == {e \in 1..(pc[s] - 1) : Steps[s][e].do = "end run"}
  <2>1. StateShape /\ EndedInv(s) /\ DoneInv(s)
    BY DEF IInv, Whole, WholeInv
  <2>2. n \in Nat /\ DOMAIN Steps[s] = 1..n /\ pc[s] \in 1..(n + 1)
    BY <2>1, Bounds
  <2>3. Fills(s, k, g)
    BY DEF Fills
  <2>4. CASE phase[s] = "done"
    <3>1. k \in DOMAIN Steps[s]
      <4>1. Vouched(s) = n
        BY <2>4 DEF Vouched
      <4>2. QED
        BY <4>1, <2>2
    <3>2. g \in GroupsOf(s)
      BY <3>1, <2>1, <2>3, FilledIsServed
    <3>3. QED
      BY <3>1, <3>2, <2>1, <2>3, <2>4 DEF DoneInv
  <2>5. CASE phase[s] # "done" /\ status[s] = "SUCCESS"
    <3>1. Vouched(s) = Max({0} \union ends)
      BY <2>5 DEF Vouched, LastEnd
    <3>2. ends \in SUBSET (1..n) /\ {0} \union ends \in SUBSET (0..n) /\ {0} \union ends # {}
      <4>1. 1..(pc[s] - 1) \subseteq 1..n /\ 1..n \subseteq 0..n /\ 0 \in 0..n
        BY <2>2
      <4>2. ends \subseteq 1..n
        BY <4>1
      <4> HIDE DEF ends
      <4>3. QED
        BY <4>1, <4>2
    <3> DEFINE e == Max({0} \union ends)
    <3>3. e \in {0} \union ends
      BY <3>2, <2>2, GreatestIsIn
    <3> HIDE DEF e
    <3>4. k \in 1..e
      BY <3>1 DEF e
    <3>5. e # 0
      BY <3>4
    <3>6. e \in 1..(pc[s] - 1) /\ Steps[s][e].do = "end run" /\ e \in 1..n
      BY <3>2, <3>3, <3>5
    <3>7. k \in DOMAIN Steps[s]
      BY <3>4, <3>6, <2>2, UpToTheEnd
    <3>8. g \in GroupsOf(s)
      BY <3>7, <2>1, <2>3, FilledIsServed
    <3>9. QED
      BY <3>4, <3>6, <3>8, <2>1, <2>3, <2>5 DEF EndedInv
  <2>6. CASE phase[s] # "done" /\ status[s] # "SUCCESS"
    BY <2>6 DEF Vouched
  <2>7. QED
    BY <2>4, <2>5, <2>6
<1>2. QED
  BY <1>1, WholeInductive, PTL

\* A statement that a source sends on another connection while its transaction
\* is open never waits for a lock, so no wait goes round through a client.
THEOREM NoCycleIsHidden == Spec => []NoHiddenCycle
<1>1. IInv /\ Whole => NoHiddenCycle
  <2> SUFFICES ASSUME IInv, Whole, NEW x \in Waiting, x[2] = "statement", x[1] \in tx
               PROVE  WaitsFor(x) = {}
    BY DEF NoHiddenCycle
  <2>0. x[1] \in crew /\ x = <<x[1], "statement">>
    <3>1. PICK l \in Range(queue) : x \in {<<l.step, l.session>>, <<l.step, "transaction">>}
      BY DEF Waiting
    <3>2. tx \subseteq crew
      BY DEF IInv, StateShape
    <3>3. QED
      BY <3>1, <3>2
  <2>1. ASSUME NEW r \in Range(queue), <<r.step, r.session>> = x
        PROVE  FALSE
    <3> DEFINE s == x[1]
    <3>1. s \in crew /\ r.step = s /\ r.session = "statement" /\ s \in tx
      BY <2>0, <2>1
    <3>2. LockInv(s) /\ OpenInv(s) /\ StateShape
      BY <3>1 DEF IInv, SourceInv, Whole, OwnInv
    <3> HIDE DEF s
    <3>3. PICK op \in Current(s) : r \in NeededLocks(s, op)
      BY <3>1, <3>2 DEF LockInv, MissingLocks
    <3>4. op.do \notin Writes \union {"unlink", "commit"}
      BY <3>1, <3>3, NeededShape DEF Session
    <3>5. /\ Running(s) /\ pc[s] \in DOMAIN Steps[s] /\ op = Steps[s][pc[s]]
      BY <3>1, <3>2, CurrentStep DEF StateShape
    <3>6. Open(s, pc[s])
      BY <3>1, <3>2, <3>5 DEF OpenInv
    <3>7. Shared(op) \intersect contended = {}
      BY <3>1, <3>2, <3>4, <3>5, <3>6, OtherConnectionAssumption DEF StateShape
    <3>8. Exclusive(op) = {}
      BY <3>4 DEF Exclusive
    <3>9. NeededLocks(s, op) = {}
      BY <3>7, <3>8 DEF NeededLocks
    <3>10. QED
      BY <3>3, <3>9
  <2>2. {l \in {r \in Range(queue) : r.session = "statement" /\ x = <<r.step, "transaction">>} : TRUE} = {}
    OBVIOUS
  <2>3. QED
    BY <2>1 DEF WaitsFor
<1>2. QED
  BY <1>1, WholeInductive, PTL
=============================================================================

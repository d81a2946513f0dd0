---------------------------- MODULE JorfCopyProofs ----------------------------
(***************************************************************************)
(* Proofs about JorfCopy, for every archive, every number of workers, every *)
(* capacity of the channels and size of the pool: what is merged is the      *)
(* archive, and a block never goes without its act.                         *)
(***************************************************************************)
EXTENDS JorfCopy, FiniteSetTheorems, TLAPS

-----------------------------------------------------------------------------
(* Sequences                                                               *)

In(x, s) == \E k \in 1..Len(s) : s[k] = x

LEMMA InAppend ==
  ASSUME NEW S, NEW s \in Seq(S), NEW e \in S, NEW x
  PROVE  In(x, Append(s, e)) <=> In(x, s) \/ x = e
<1>1. /\ Len(Append(s, e)) = Len(s) + 1 /\ Len(s) \in Nat
      /\ \A k \in 1..Len(s) : Append(s, e)[k] = s[k]
      /\ Append(s, e)[Len(s) + 1] = e
  OBVIOUS
<1>2. QED
  BY <1>1 DEF In

LEMMA InTail ==
  ASSUME NEW S, NEW s \in Seq(S), s # <<>>, NEW x
  PROVE  /\ In(x, s) <=> x = Head(s) \/ In(x, Tail(s))
         /\ Head(s) \in S /\ Tail(s) \in Seq(S) /\ Len(Tail(s)) < Len(s)
<1>1. /\ Len(s) \in Nat \ {0} /\ Len(Tail(s)) = Len(s) - 1 /\ Head(s) = s[1]
      /\ Tail(s) \in Seq(S) /\ Head(s) \in S
      /\ \A k \in 1..Len(s) - 1 : Tail(s)[k] = s[k + 1]
  OBVIOUS
<1>2. ASSUME In(x, s) PROVE x = Head(s) \/ In(x, Tail(s))
  <2>1. PICK k \in 1..Len(s) : s[k] = x
    BY <1>2 DEF In
  <2>2. CASE k = 1
    BY <1>1, <2>1, <2>2
  <2>3. CASE k # 1
    <3>1. k - 1 \in 1..Len(s) - 1 /\ Tail(s)[k - 1] = x
      BY <1>1, <2>1, <2>3
    <3>2. QED
      BY <1>1, <3>1 DEF In
  <2>4. QED
    BY <2>2, <2>3
<1>3. ASSUME In(x, Tail(s)) PROVE In(x, s)
  <2>1. PICK k \in 1..Len(s) - 1 : Tail(s)[k] = x
    BY <1>1, <1>3 DEF In
  <2>2. k + 1 \in 1..Len(s) /\ s[k + 1] = x
    BY <1>1, <2>1
  <2>3. QED
    BY <2>2 DEF In
<1>4. x = Head(s) => In(x, s)
  BY <1>1 DEF In
<1>5. QED
  BY <1>1, <1>2, <1>3, <1>4

LEMMA InElements ==
  ASSUME NEW S, NEW s \in Seq(S), NEW x, In(x, s)
  PROVE  x \in S /\ s # <<>>
  BY DEF In

-----------------------------------------------------------------------------
(* The archive                                                             *)

Rows == UNION {RowsOf(t) : t \in Tables}

LEMMA ArchiveFacts ==
  /\ Len(Archive) \in Nat /\ Whole \in Nat
  /\ \A i \in 1..Len(Archive) : Archive[i] \in ArchiveFiles
  /\ \A t \in Tables : \A r \in RowsOf(t) : \E i \in 1..Len(Archive) : In(<<t, r>>, Lines(Archive[i]))
  /\ \A l \in ArchiveLines : l[1] \in Tables /\ l[2] \in RowsOf(l[1]) /\ l = <<l[1], l[2]>>
<1>1. Len(Archive) \in Nat /\ DOMAIN Archive = 1..Len(Archive)
  BY ArchiveAssumption
<1>2. \A i \in 1..Len(Archive) : Archive[i] \in ArchiveFiles
  BY <1>1 DEF ArchiveFiles
<1>3. ASSUME NEW t \in Tables, NEW r \in RowsOf(t)
      PROVE  \E i \in 1..Len(Archive) : In(<<t, r>>, Lines(Archive[i]))
  <2>1. PICK l \in ArchiveLines : l[1] = t /\ l[2] = r
    BY <1>3 DEF RowsOf
  <2>2. l = <<t, r>>
    BY <2>1, ArchiveAssumption
  <2>3. PICK f \in ArchiveFiles : \E k \in DOMAIN Lines(f) : l = Lines(f)[k]
    BY DEF ArchiveLines
  <2>4. DOMAIN Lines(f) = 1..Len(Lines(f))
    BY ArchiveAssumption
  <2>5. PICK i \in DOMAIN Archive : f = Archive[i]
    BY DEF ArchiveFiles
  <2>6. In(<<t, r>>, Lines(f))
    BY <2>2, <2>3, <2>4 DEF In
  <2>7. QED
    BY <1>1, <2>5, <2>6
<1>4. \A l \in ArchiveLines : l[1] \in Tables /\ l[2] \in RowsOf(l[1]) /\ l = <<l[1], l[2]>>
  BY ArchiveAssumption DEF RowsOf
<1>5. QED
  BY <1>1, <1>2, <1>3, <1>4 DEF Whole

-----------------------------------------------------------------------------
(* Types                                                                   *)

\* The types that TypeOK leaves out: what the channels and the workers hold.
DataTypes ==
    /\ tasks \in Seq(ArchiveFiles)
    /\ work \in [Workers -> Seq(ArchiveLines)]
    /\ rows \in [Tables -> Seq(Rows)] /\ \A t \in Tables : rows[t] \in Seq(RowsOf(t))
    /\ stream \in [Tables -> {"off", "acquiring", "copying", "failed", "released", "ended"}]
    /\ copied \in [Tables -> SUBSET Rows] /\ \A t \in Tables : copied[t] \subseteq RowsOf(t)
    /\ staging = [t \in Tables |-> staging[t]]
    /\ \A t \in Tables : staging[t] \in [RowsOf(t) -> Nat]
    /\ core = [t \in Tables |-> core[t]]
    /\ \A t \in Tables : core[t] \subseteq RowsOf(t) \union Before[t]

Bounded ==
    /\ phase \in {"idle", "truncate", "copy", "merge", "end", "fail"}
    /\ next \in 1..Whole /\ cut \in Cuts
    /\ reader \in {"off", "reading", "stopped", "closed tasks", "closed rows"}
    /\ Len(tasks) <= TaskBuffer
    /\ \A t \in Tables : Len(rows[t]) <= RowBuffer
    /\ wrong \subseteq Tables /\ busy \subseteq Neighbours
    /\ merged \in 0..(Len(MergeOrder) + 2)
    /\ phase = "merge" => merged <= Len(MergeOrder) + 1
    /\ status \in {"none", "RUNNING", "SUCCESS", "FAILED"}
    /\ faults \in 0..MaxFaults /\ readings \in 0..MaxReadings

Types == DataTypes /\ Bounded

LEMMA MergeOrderFacts ==
  /\ Len(MergeOrder) = 4
  /\ \A k \in 1..4 : MergeOrder[k] \in Tables
  /\ MergeOrder[2] = "texte" /\ MergeOrder[4] = "bloc"
  /\ MergeOrder[1] = "sommaire" /\ MergeOrder[3] = "lien"
  BY DEF MergeOrder, Tables

LEMMA NothingTypes ==
  /\ Nothing = [t \in Tables |-> Nothing[t]]
  /\ \A t \in Tables : Nothing[t] \in [RowsOf(t) -> Nat]
  /\ \A t \in Tables : \A r \in RowsOf(t) : Nothing[t][r] = 0
  /\ Nowhere \in [Tables -> SUBSET Rows] /\ \A t \in Tables : Nowhere[t] = {}
  BY DEF Nothing, Nowhere

LEMMA TypesInit == Init => Types
<1> SUFFICES ASSUME Init PROVE Types
  OBVIOUS
<1>1. DataTypes
  <2>1. rows \in [Tables -> Seq(Rows)] /\ \A t \in Tables : rows[t] \in Seq(RowsOf(t))
    BY DEF Init
  <2>2. work \in [Workers -> Seq(ArchiveLines)] /\ tasks \in Seq(ArchiveFiles)
    BY DEF Init
  <2>3. core = [t \in Tables |-> core[t]] /\ \A t \in Tables : core[t] \subseteq RowsOf(t) \union Before[t]
    BY DEF Init
  <2>4. QED
    BY <2>1, <2>2, <2>3, NothingTypes DEF Init, DataTypes
<1>2. Bounded
  BY ArchiveFacts, MergeOrderFacts, JorfCopyAssumption DEF Init, Bounded, Whole
<1>3. QED
  BY <1>1, <1>2 DEF Types

\* Every channel empty, every stream off: what Copied and a crash leave.
LEMMA QuietTypes ==
  ASSUME Quiet
  PROVE  /\ next' = 1 /\ tasks' = <<>> /\ wrong' = {} /\ reader' = "off"
         /\ tasks' \in Seq(ArchiveFiles) /\ work' \in [Workers -> Seq(ArchiveLines)]
         /\ rows' \in [Tables -> Seq(Rows)]
         /\ \A t \in Tables : rows'[t] = <<>> /\ rows'[t] \in Seq(RowsOf(t))
         /\ stream' \in [Tables -> {"off", "acquiring", "copying", "failed", "released", "ended"}]
         /\ copied' \in [Tables -> SUBSET Rows]
         /\ \A w \in Workers : work'[w] = <<>>
         /\ \A t \in Tables : stream'[t] = "off" /\ copied'[t] = {}
  BY NothingTypes DEF Quiet

LEMMA TypesStep == Types /\ [Next]_vars => Types'
<1> SUFFICES ASSUME Types, [Next]_vars PROVE Types'
  OBVIOUS
<1> USE DEF channels, streams, base, bounds
<1>0. next \in Nat /\ next >= 1 /\ Whole \in Nat /\ Len(tasks) \in Nat /\ merged \in Nat /\ TaskBuffer \in Nat
  <2>1. next \in 1..Whole /\ tasks \in Seq(ArchiveFiles) /\ merged \in 0..(Len(MergeOrder) + 2)
    BY DEF Types, DataTypes, Bounded
  <2>2. QED
    BY <2>1, ArchiveFacts, MergeOrderFacts, JorfCopyAssumption
<1>f. Fault => faults' \in 0..MaxFaults
  <2>1. faults \in 0..MaxFaults
    BY DEF Types, Bounded
  <2>2. QED
    BY <2>1, JorfCopyAssumption DEF Fault
<1>q. Quiet => /\ next' \in 1..Whole /\ wrong' \subseteq Tables /\ Len(tasks') <= TaskBuffer
               /\ reader' \in {"off", "reading", "stopped", "closed tasks", "closed rows"}
               /\ \A t \in Tables : Len(rows'[t]) <= RowBuffer
  <2>1. 1 \in 1..Whole /\ Len(<<>>) <= TaskBuffer /\ Len(<<>>) <= RowBuffer
    BY ArchiveFacts, JorfCopyAssumption DEF Whole
  <2>2. QED
    BY <2>1, QuietTypes
<1>1. CASE Start
  <2>1. readings' \in 0..MaxReadings
    BY <1>1, JorfCopyAssumption DEF Start, Types, Bounded
  <2>2. QED
    BY <1>1, <2>1 DEF Start, Types, DataTypes, Bounded
<1>2. CASE Truncate
  BY <1>2, NothingTypes DEF Truncate, Emptied, Types, DataTypes, Bounded
<1>3. CASE Read
  <2>1. Archive[next] \in ArchiveFiles
    BY <1>0, <1>3, ArchiveFacts DEF Read
  <2>2. tasks' \in Seq(ArchiveFiles) /\ Len(tasks') <= TaskBuffer
    BY <1>0, <1>3, <2>1 DEF Read, Types, DataTypes
  <2>3. next' \in 1..Whole
    BY <1>0, <1>3, ArchiveFacts DEF Read, Whole
  <2>4. QED
    BY <1>3, <2>2, <2>3 DEF Read, Types, DataTypes, Bounded
<1>4. CASE ReadFails \/ CloseTasks \/ CloseRows
  BY <1>4 DEF ReadFails, CloseTasks, CloseRows, Types, DataTypes, Bounded
<1>5. ASSUME NEW w \in Workers, Take(w) PROVE Types'
  <2>1. /\ Tail(tasks) \in Seq(ArchiveFiles) /\ Len(Tail(tasks)) <= TaskBuffer
        /\ Head(tasks) \in ArchiveFiles
    <3>1. tasks \in Seq(ArchiveFiles) /\ tasks # <<>> /\ Len(tasks) <= TaskBuffer
      BY <1>5 DEF Take, Types, DataTypes, Bounded
    <3>2. Len(Tail(tasks)) = Len(tasks) - 1 /\ Len(tasks) \in Nat
          /\ Tail(tasks) \in Seq(ArchiveFiles) /\ Head(tasks) \in ArchiveFiles
      BY <3>1
    <3>3. QED
      BY <1>0, <3>1, <3>2
  <2>2. Lines(Head(tasks)) \in Seq(ArchiveLines)
    BY <2>1, ArchiveAssumption
  <2>3. work' \in [Workers -> Seq(ArchiveLines)]
    BY <1>5, <2>2 DEF Take, Types, DataTypes
  <2>4. QED
    BY <1>5, <2>1, <2>3 DEF Take, Types, DataTypes, Bounded
<1>6. ASSUME NEW w \in Workers, Send(w) PROVE Types'
  <2> DEFINE l == Head(work[w])
  <2>1. work[w] \in Seq(ArchiveLines) /\ work[w] # <<>>
    BY <1>6 DEF Send, Types, DataTypes
  <2>2. l \in ArchiveLines /\ Tail(work[w]) \in Seq(ArchiveLines)
    BY <2>1
  <2>3. l[1] \in Tables /\ l[2] \in RowsOf(l[1])
    BY <2>2, ArchiveFacts
  <2>4. work' \in [Workers -> Seq(ArchiveLines)]
    BY <1>6, <2>2 DEF Send, Types, DataTypes
  <2>5. rows[l[1]] \in Seq(RowsOf(l[1])) /\ Len(rows[l[1]]) < RowBuffer
    BY <1>6, <2>3 DEF Send, Types, DataTypes
  <2>6. /\ Append(rows[l[1]], l[2]) \in Seq(RowsOf(l[1]))
        /\ Len(Append(rows[l[1]], l[2])) <= RowBuffer
    BY <2>3, <2>5, JorfCopyAssumption
  <2>7. Append(rows[l[1]], l[2]) \in Seq(Rows)
    BY <2>3, <2>6 DEF Rows, Types, DataTypes
  <2>8. rows' = [rows EXCEPT ![l[1]] = Append(rows[l[1]], l[2])]
    BY <1>6 DEF Send
  <2>9. /\ rows' \in [Tables -> Seq(Rows)]
        /\ \A t \in Tables : rows'[t] \in Seq(RowsOf(t)) /\ Len(rows'[t]) <= RowBuffer
    BY <2>3, <2>6, <2>7, <2>8 DEF Types, DataTypes, Bounded
  <2>10. QED
    BY <1>6, <2>4, <2>9 DEF Send, Types, DataTypes, Bounded
<1>7. ASSUME NEW t \in Tables, Acquire(t) \/ DrainEnds(t) PROVE Types'
  BY <1>7 DEF Acquire, DrainEnds, Goes, Types, DataTypes, Bounded
<1>8. ASSUME NEW t \in Tables, AcquireFails(t) PROVE Types'
  BY <1>f, <1>8 DEF AcquireFails, Goes, Types, DataTypes, Bounded
<1>9. ASSUME NEW t \in Tables, CopyLine(t) \/ Drain(t) PROVE Types'
  <2>1. rows[t] \in Seq(RowsOf(t)) /\ rows[t] # <<>> /\ rows[t] \in Seq(Rows) /\ Len(rows[t]) <= RowBuffer
    BY <1>9 DEF CopyLine, Drain, Types, DataTypes, Bounded
  <2>2. /\ Tail(rows[t]) \in Seq(RowsOf(t)) /\ Tail(rows[t]) \in Seq(Rows)
        /\ Head(rows[t]) \in RowsOf(t)
    BY <2>1
  <2>3. Len(Tail(rows[t])) <= RowBuffer
    <3>1. Len(Tail(rows[t])) = Len(rows[t]) - 1 /\ Len(rows[t]) \in Nat
      BY <2>1
    <3>2. QED
      BY <2>1, <3>1, JorfCopyAssumption
  <2>4. /\ rows' \in [Tables -> Seq(Rows)]
        /\ \A u \in Tables : rows'[u] \in Seq(RowsOf(u)) /\ Len(rows'[u]) <= RowBuffer
    BY <1>9, <2>2, <2>3 DEF CopyLine, Drain, Types, DataTypes, Bounded
  <2>5. copied' \in [Tables -> SUBSET Rows] /\ \A u \in Tables : copied'[u] \subseteq RowsOf(u)
    <3>1. CASE CopyLine(t)
      <4>1. copied' = [copied EXCEPT ![t] = @ \union {Head(rows[t])}]
        BY <3>1 DEF CopyLine
      <4>2. copied \in [Tables -> SUBSET Rows] /\ \A u \in Tables : copied[u] \subseteq RowsOf(u)
        BY DEF Types, DataTypes
      <4>3. Head(rows[t]) \in Rows
        BY <2>2 DEF Rows
      <4>4. QED
        BY <2>2, <4>1, <4>2, <4>3
    <3>2. CASE Drain(t)
      BY <3>2 DEF Drain, Types, DataTypes
    <3>3. QED
      BY <1>9, <3>1, <3>2
  <2>6. QED
    BY <1>9, <2>4, <2>5 DEF CopyLine, Drain, Types, DataTypes, Bounded
<1>10. ASSUME NEW t \in Tables, CopyEnds(t) PROVE Types'
  <2>1. staging' = [u \in Tables |-> staging'[u]] /\ \A u \in Tables : staging'[u] \in [RowsOf(u) -> Nat]
    <3> DEFINE counts == [r \in RowsOf(t) |-> IF r \in copied[t] THEN staging[t][r] + 1 ELSE staging[t][r]]
    <3>1. staging' = [staging EXCEPT ![t] = counts]
      BY <1>10 DEF CopyEnds
    <3>2. /\ staging = [u \in Tables |-> staging[u]]
          /\ \A u \in Tables : staging[u] \in [RowsOf(u) -> Nat]
      BY DEF Types, DataTypes
    <3>3. counts \in [RowsOf(t) -> Nat]
      BY <3>2
    <3> HIDE DEF counts
    <3>4. QED
      BY <3>1, <3>2, <3>3
  <2>2. copied' \in [Tables -> SUBSET Rows] /\ \A u \in Tables : copied'[u] \subseteq RowsOf(u)
    BY <1>10 DEF CopyEnds, Types, DataTypes
  <2>3. QED
    BY <1>10, <2>1, <2>2 DEF CopyEnds, Goes, Types, DataTypes, Bounded
<1>11. ASSUME NEW t \in Tables, CopyFails(t) PROVE Types'
  <2>1. copied' \in [Tables -> SUBSET Rows] /\ \A u \in Tables : copied'[u] \subseteq RowsOf(u)
    BY <1>11 DEF CopyFails, Types, DataTypes
  <2>2. QED
    BY <1>f, <1>11, <2>1 DEF CopyFails, Goes, Types, DataTypes, Bounded
<1>12. CASE Copied
  <2>1. Quiet /\ merged' = 0 /\ UNCHANGED <<staging, core, status, busy, bounds>>
        /\ phase' \in {"fail", "merge"}
    BY <1>12 DEF Copied
  <2>2. DataTypes'
    BY <2>1, QuietTypes DEF Types, DataTypes
  <2>3. Bounded'
    <3>1. merged' \in 0..(Len(MergeOrder) + 2) /\ merged' <= Len(MergeOrder) + 1
      BY <2>1, MergeOrderFacts
    <3>2. QED
      BY <1>q, <2>1, <3>1 DEF Types, Bounded
  <2>4. QED
    BY <2>2, <2>3 DEF Types
<1>13. CASE Merge
  <2>1. merged' = merged + 1 /\ merged \in 0..5 /\ (phase' = "merge" => merged # 5)
        /\ phase' \in {phase, "end"}
    <3>1. phase = "merge" /\ merged <= 5
      <4>1. phase = "merge" /\ merged <= Len(MergeOrder) + 1
        BY <1>13 DEF Merge, Types, Bounded
      <4>2. QED
        BY <4>1, MergeOrderFacts
    <3>2. merged \in 0..5
      BY <1>0, <3>1
    <3>3. QED
      BY <1>13, <3>1, <3>2, MergeOrderFacts DEF Merge
  <2>2. /\ core' = [t \in Tables |-> core'[t]]
        /\ \A t \in Tables : core'[t] \subseteq RowsOf(t) \union Before[t]
    <3>1. CASE merged < 4
      <4>1. MergeOrder[merged + 1] \in Tables
        BY <2>1, <3>1, MergeOrderFacts
      <4>2. core' = [core EXCEPT ![MergeOrder[merged + 1]] =
               @ \union {r \in RowsOf(MergeOrder[merged + 1]) : staging[MergeOrder[merged + 1]][r] > 0}]
        BY <1>13, <3>1, MergeOrderFacts DEF Merge
      <4>3. /\ core = [t \in Tables |-> core[t]]
            /\ \A t \in Tables : core[t] \subseteq RowsOf(t) \union Before[t]
        BY DEF Types, DataTypes
      <4>4. QED
        BY <4>1, <4>2, <4>3
    <3>2. CASE ~(merged < 4)
      BY <1>13, <3>2, MergeOrderFacts DEF Merge, Types, DataTypes
    <3>3. QED
      BY <3>1, <3>2
  <2>3. merged' \in 0..6 /\ (phase' = "merge" => merged' <= 5)
    BY <2>1
  <2>4. UNCHANGED <<next, reader, tasks, work, rows, stream, wrong, copied, staging, status, busy, cut, faults, readings>>
    BY <1>13 DEF Merge
  <2>5. DataTypes'
    BY <2>2, <2>4 DEF Types, DataTypes
  <2>6. Bounded'
    <3>1. phase' \in {"idle", "truncate", "copy", "merge", "end", "fail"} /\ busy' = busy
      BY <1>13, <2>1 DEF Merge, Types, Bounded
    <3>2. merged' \in 0..(Len(MergeOrder) + 2) /\ (phase' = "merge" => merged' <= Len(MergeOrder) + 1)
      BY <2>3, MergeOrderFacts
    <3>3. QED
      BY <2>4, <3>1, <3>2 DEF Types, Bounded
  <2>7. QED
    BY <2>5, <2>6 DEF Types
<1>14. CASE StatementFails
  BY <1>f, <1>14 DEF StatementFails, Types, DataTypes, Bounded
<1>15. CASE EndRun
  BY <1>15 DEF EndRun, Types, DataTypes, Bounded
<1>16. CASE Crash
  <2>1. Quiet /\ phase' = "idle" /\ busy' = {} /\ UNCHANGED <<base, bounds>>
    BY <1>16 DEF Crash
  <2>2. DataTypes'
    BY <2>1, QuietTypes DEF Types, DataTypes
  <2>3. Bounded'
    BY <1>q, <2>1 DEF Types, Bounded
  <2>4. QED
    BY <2>2, <2>3 DEF Types
<1>17. ASSUME NEW n \in Neighbours, NeighbourTakes(n) \/ NeighbourReleases(n) PROVE Types'
  BY <1>17 DEF NeighbourTakes, NeighbourReleases, Types, DataTypes, Bounded
<1>18. CASE UNCHANGED vars
  BY <1>18 DEF vars, Types, DataTypes, Bounded
<1>19. QED
  BY <1>1, <1>2, <1>3, <1>4, <1>5, <1>6, <1>7, <1>8, <1>9, <1>10, <1>11, <1>12, <1>13, <1>14,
     <1>15, <1>16, <1>17, <1>18 DEF Next, Program, Reader, Stream

LEMMA ConnectionsCount ==
  ASSUME NEW T \in SUBSET Tables, NEW N \in SUBSET Neighbours
  PROVE  /\ IsFiniteSet(T) /\ IsFiniteSet(N)
         /\ Cardinality(T) \in Nat /\ Cardinality(N) \in Nat
<1>1. IsFiniteSet(Tables)
  <2> DEFINE two == {"sommaire"} \union {"lien"}
             three == two \union {"texte"}
  <2>1. IsFiniteSet(two)
    BY ZenonT(30), FS_Singleton, FS_AddElement
  <2>2. IsFiniteSet(three)
    <3> HIDE DEF two
    <3>1. QED
      BY <2>1, FS_AddElement
  <2>3. IsFiniteSet(three \union {"bloc"})
    <3> HIDE DEF three
    <3>1. QED
      BY <2>2, FS_AddElement
  <2>4. Tables = three \union {"bloc"}
    BY DEF Tables
  <2>5. QED
    BY <2>3, <2>4
<1>2. IsFiniteSet(T) /\ IsFiniteSet(N)
  BY <1>1, FS_Subset, JorfCopyAssumption
<1>3. QED
  BY <1>2, FS_CardinalityType

\* A set that gains at most one element grows by at most one.
LEMMA AtMostOneMore ==
  ASSUME NEW S, IsFiniteSet(S), NEW x, NEW T, T \subseteq S \union {x}
  PROVE  Cardinality(T) <= Cardinality(S) + 1
<1>0. Cardinality(S) \in Nat
  BY FS_CardinalityType
<1>1. /\ IsFiniteSet(S \union {x}) /\ Cardinality(S) \in Nat
      /\ Cardinality(S \union {x}) <= Cardinality(S) + 1
  <2>1. /\ IsFiniteSet(S \union {x})
        /\ Cardinality(S \union {x}) = IF x \in S THEN Cardinality(S) ELSE Cardinality(S) + 1
    BY FS_AddElement
  <2>2. QED
    BY <1>0, <2>1
<1>2. IsFiniteSet(T) /\ Cardinality(T) <= Cardinality(S \union {x})
  BY <1>1, FS_Subset
<1>3. Cardinality(T) \in Nat /\ Cardinality(S \union {x}) \in Nat
  BY <1>1, <1>2, FS_CardinalityType
<1>4. QED
  BY <1>1, <1>2, <1>3

\* Only Acquire and a neighbour take a connection, and each waits for a free one.
PoolInv == Used <= PoolSize

LEMMA PoolStep == Types /\ PoolInv /\ [Next]_vars => PoolInv'
<1> SUFFICES ASSUME Types, Types', Used <= PoolSize, [Next]_vars PROVE Used' <= PoolSize
  BY TypesStep DEF PoolInv
<1>1. /\ IsFiniteSet(Connected) /\ IsFiniteSet(busy)
      /\ Cardinality(Connected) \in Nat /\ Cardinality(busy) \in Nat
  BY ConnectionsCount DEF Connected, Types, Bounded
<1>2. /\ IsFiniteSet(Connected') /\ IsFiniteSet(busy')
      /\ Cardinality(Connected') \in Nat /\ Cardinality(busy') \in Nat
  BY ConnectionsCount DEF Connected, Types, Bounded
<1>3. ASSUME Connected' \subseteq Connected, busy' \subseteq busy PROVE Used' <= PoolSize
  <2>1. Cardinality(Connected') <= Cardinality(Connected) /\ Cardinality(busy') <= Cardinality(busy)
    BY <1>1, <1>3, FS_Subset
  <2>2. QED
    BY <1>1, <1>2, <2>1, JorfCopyAssumption DEF Used
<1>4. ASSUME NEW t \in Tables, Acquire(t) PROVE Used' <= PoolSize
  <2>1. Connected' \subseteq Connected \union {t} /\ busy' = busy /\ Used < PoolSize
    BY <1>4 DEF Acquire, Goes, Free, Connected, Types, DataTypes
  <2>2. Cardinality(Connected') <= Cardinality(Connected) + 1
    BY <1>1, <2>1, AtMostOneMore
  <2>3. QED
    BY <1>1, <1>2, <2>1, <2>2, JorfCopyAssumption DEF Used
<1>5. ASSUME NEW n \in Neighbours, NeighbourTakes(n) PROVE Used' <= PoolSize
  <2>1. busy' \subseteq busy \union {n} /\ Connected' = Connected /\ Used < PoolSize
    BY <1>5 DEF NeighbourTakes, Free, Connected, streams
  <2>2. Cardinality(busy') <= Cardinality(busy) + 1
    BY <1>1, <2>1, AtMostOneMore
  <2>3. QED
    BY <1>1, <1>2, <2>1, <2>2, JorfCopyAssumption DEF Used
<1>6. CASE Quiet /\ busy' \subseteq busy
  <2>1. Connected' = {}
    BY <1>6, QuietTypes DEF Connected
  <2>2. QED
    BY <1>3, <1>6, <2>1
<1>7. ASSUME NEW t \in Tables, AcquireFails(t) \/ CopyEnds(t) \/ CopyFails(t) \/ DrainEnds(t)
      PROVE  Used' <= PoolSize
  <2>1. Connected' \subseteq Connected /\ busy' = busy
    BY <1>7 DEF AcquireFails, CopyEnds, CopyFails, DrainEnds, Goes, Connected, Types, DataTypes
  <2>2. QED
    BY <1>3, <2>1
<1>8. CASE UNCHANGED stream /\ busy' \subseteq busy
  BY <1>3, <1>8 DEF Connected
<1>9. CASE Truncate
  <2>1. Connected' = {} /\ busy' = busy
    BY <1>9 DEF Truncate, Connected
  <2>2. QED
    BY <1>3, <2>1
<1>10. CASE Reader \/ Start \/ StatementFails \/ EndRun \/ Merge \/ UNCHANGED vars
  BY <1>8, <1>10 DEF Reader, Read, ReadFails, CloseTasks, CloseRows, Start, StatementFails, EndRun,
     Merge, vars, streams
<1>11. CASE \E w \in Workers : Take(w) \/ Send(w)
  BY <1>8, <1>11 DEF Take, Send, streams
<1>12. ASSUME NEW t \in Tables, CopyLine(t) \/ Drain(t) PROVE Used' <= PoolSize
  BY <1>8, <1>12 DEF CopyLine, Drain, streams
<1>13. ASSUME NEW n \in Neighbours, NeighbourReleases(n) PROVE Used' <= PoolSize
  BY <1>8, <1>13 DEF NeighbourReleases, streams
<1>14. CASE Copied \/ Crash
  BY <1>6, <1>14 DEF Copied, Crash
<1>15. QED
  BY <1>4, <1>5, <1>7, <1>9, <1>10, <1>11, <1>12, <1>13, <1>14 DEF Next, Program, Stream

LEMMA PoolInit == Init => PoolInv
<1> SUFFICES ASSUME Init PROVE Used <= PoolSize
  BY DEF PoolInv
<1>1. Connected = {} /\ busy = {}
  BY DEF Init, Connected
<1>2. QED
  BY <1>1, FS_EmptySet, JorfCopyAssumption DEF Used

\* The channels never hold more than their capacity, the streams and the other steps
\* never more connections than the pool has, and what is read, copied and merged are
\* lines of the archive.
THEOREM JorfTypeCorrect == Spec => []TypeOK
<1>1. Types /\ PoolInv => TypeOK
  BY DEF Types, DataTypes, Bounded, PoolInv, TypeOK
<1>2. QED
  BY <1>1, TypesInit, TypesStep, PoolInit, PoolStep, PTL DEF Spec

-----------------------------------------------------------------------------
(* Where each line of the archive is                                       *)

AllQuiet ==
    /\ next = 1 /\ tasks = <<>> /\ wrong = {}
    /\ \A w \in Workers : work[w] = <<>>
    /\ \A t \in Tables : rows[t] = <<>> /\ stream[t] = "off" /\ copied[t] = {}

\* The phases of IngestComplet and the channels: nothing is left in them when the next
\* reading starts, and they are closed in their order, each when it is exhausted.
Control ==
    /\ phase = "copy" <=> reader \in {"reading", "closed tasks", "closed rows"}
    /\ phase \in {"truncate", "merge", "end"} => reader = "off"
    /\ reader = "off" => AllQuiet
    /\ reader \in {"closed tasks", "closed rows"} => next = Whole
    /\ reader = "closed rows" => WorkersAreDone

\* A line that its COPY has not committed is still somewhere on the way.
Pending(t, r) ==
    \/ \E i \in next..Len(Archive) : In(<<t, r>>, Lines(Archive[i]))
    \/ \E j \in 1..Len(tasks) : In(<<t, r>>, Lines(tasks[j]))
    \/ \E w \in Workers : In(<<t, r>>, work[w])
    \/ In(r, rows[t])
    \/ r \in copied[t]

\* No line of a table whose stream goes well is lost or committed twice.
NoLineIsLost == phase = "copy" =>
    \A t \in Tables \ wrong :
        /\ stream[t] \in {"acquiring", "copying", "ended"}
        /\ \A r \in RowsOf(t) :
              IF stream[t] = "ended" THEN staging[t][r] = 1
              ELSE staging[t][r] = 0 /\ Pending(t, r)

LEMMA ControlInit == Init => Control
  BY NothingTypes DEF Init, Control, AllQuiet

LEMMA ControlStep == Types /\ Control /\ [Next]_vars => Control'
<1> SUFFICES ASSUME Types, Control, [Next]_vars PROVE Control'
  OBVIOUS
<1> USE DEF channels, streams, base, bounds, Control
<1>q. Quiet => AllQuiet' /\ reader' = "off"
  BY QuietTypes DEF AllQuiet
<1>1. CASE Start \/ StatementFails \/ EndRun \/ Merge \/ UNCHANGED vars
  BY <1>1 DEF Start, StatementFails, EndRun, Merge, vars, AllQuiet, WorkersAreDone
<1>2. CASE Truncate
  BY <1>2 DEF Truncate, AllQuiet, WorkersAreDone
<1>3. CASE Read
  BY <1>3 DEF Read, AllQuiet, WorkersAreDone
<1>4. CASE ReadFails \/ CloseTasks
  BY <1>4 DEF ReadFails, CloseTasks, AllQuiet, WorkersAreDone
<1>5. CASE CloseRows
  BY <1>5 DEF CloseRows, AllQuiet, WorkersAreDone
<1>6. ASSUME NEW w \in Workers, Take(w) \/ Send(w) PROVE Control'
  <2>1. reader \notin {"off", "closed rows"}
    BY <1>6 DEF Take, Send, AllQuiet, WorkersAreDone
  <2>2. UNCHANGED <<phase, next, reader>>
    BY <1>6 DEF Take, Send
  <2>3. QED
    BY <2>1, <2>2
<1>7. ASSUME NEW t \in Tables, Stream(t) \/ AcquireFails(t) \/ CopyFails(t) PROVE Control'
  <2>1. stream[t] # "off"
    BY <1>7 DEF Stream, Acquire, CopyLine, CopyEnds, Drain, DrainEnds, Emptying, AcquireFails,
       CopyFails, Goes
  <2>2. reader # "off"
    BY <2>1 DEF AllQuiet
  <2>3. UNCHANGED <<phase, next, reader, tasks, work>>
    BY <1>7 DEF Stream, Acquire, CopyLine, CopyEnds, Drain, DrainEnds, AcquireFails, CopyFails
  <2>4. QED
    BY <2>2, <2>3 DEF WorkersAreDone
<1>8. CASE Copied \/ Crash
  BY <1>q, <1>8 DEF Copied, Crash
<1>9. ASSUME NEW n \in Neighbours, NeighbourTakes(n) \/ NeighbourReleases(n) PROVE Control'
  BY <1>9 DEF NeighbourTakes, NeighbourReleases, AllQuiet, WorkersAreDone
<1>10. QED
  BY <1>1, <1>2, <1>3, <1>4, <1>5, <1>6, <1>7, <1>8, <1>9 DEF Next, Program, Reader

\* A file read, taken by a worker, cut into lines and sent keeps every line pending.
LEMMA ReadKeeps ==
  ASSUME Types, Read, NEW t, NEW r, Pending(t, r)
  PROVE  Pending(t, r)'
<1>1. /\ next \in Nat /\ next <= Len(Archive) /\ Len(Archive) \in Nat
      /\ tasks \in Seq(ArchiveFiles) /\ next' = next + 1 /\ tasks' = Append(tasks, Archive[next])
      /\ UNCHANGED <<work, rows, copied>>
  BY ArchiveFacts DEF Read, streams, Types, DataTypes, Bounded
<1>2. /\ Len(tasks') = Len(tasks) + 1 /\ Len(tasks) \in Nat
      /\ \A j \in 1..Len(tasks) : tasks'[j] = tasks[j]
      /\ tasks'[Len(tasks) + 1] = Archive[next]
  BY <1>1
<1>3. CASE \E i \in next..Len(Archive) : In(<<t, r>>, Lines(Archive[i]))
  <2>1. PICK i \in next..Len(Archive) : In(<<t, r>>, Lines(Archive[i]))
    BY <1>3
  <2>2. CASE i = next
    <3>1. Len(tasks) + 1 \in 1..Len(tasks') /\ In(<<t, r>>, Lines(tasks'[Len(tasks) + 1]))
      BY <1>2, <2>1, <2>2
    <3>2. QED
      BY <3>1 DEF Pending
  <2>3. CASE i # next
    <3>1. i \in next'..Len(Archive)
      BY <1>1, <2>3
    <3>2. QED
      BY <2>1, <3>1 DEF Pending
  <2>4. QED
    BY <2>2, <2>3
<1>4. CASE \E j \in 1..Len(tasks) : In(<<t, r>>, Lines(tasks[j]))
  <2>1. PICK j \in 1..Len(tasks) : In(<<t, r>>, Lines(tasks[j]))
    BY <1>4
  <2>2. j \in 1..Len(tasks') /\ tasks'[j] = tasks[j]
    BY <1>2
  <2>3. QED
    BY <2>1, <2>2 DEF Pending
<1>5. CASE (\E w \in Workers : In(<<t, r>>, work[w])) \/ In(r, rows[t]) \/ r \in copied[t]
  BY <1>1, <1>5 DEF Pending
<1>6. QED
  BY <1>3, <1>4, <1>5 DEF Pending

LEMMA TakeKeeps ==
  ASSUME Types, NEW w \in Workers, Take(w), NEW t, NEW r, Pending(t, r)
  PROVE  Pending(t, r)'
<1>1. /\ tasks \in Seq(ArchiveFiles) /\ tasks # <<>> /\ tasks' = Tail(tasks)
      /\ work' = [work EXCEPT ![w] = Lines(Head(tasks))] /\ work[w] = <<>>
      /\ work \in [Workers -> Seq(ArchiveLines)]
      /\ UNCHANGED <<next, rows, copied>>
  BY DEF Take, streams, Types, DataTypes
<1>2. /\ Len(tasks) \in Nat \ {0} /\ Len(tasks') = Len(tasks) - 1 /\ Head(tasks) = tasks[1]
      /\ \A j \in 1..Len(tasks) - 1 : tasks'[j] = tasks[j + 1]
  BY <1>1
<1>3. CASE \E i \in next..Len(Archive) : In(<<t, r>>, Lines(Archive[i]))
  BY <1>1, <1>3 DEF Pending
<1>4. CASE \E j \in 1..Len(tasks) : In(<<t, r>>, Lines(tasks[j]))
  <2>1. PICK j \in 1..Len(tasks) : In(<<t, r>>, Lines(tasks[j]))
    BY <1>4
  <2>2. CASE j = 1
    BY <1>1, <1>2, <2>1, <2>2 DEF Pending
  <2>3. CASE j # 1
    <3>1. j - 1 \in 1..Len(tasks') /\ tasks'[j - 1] = tasks[j]
      BY <1>2, <2>3
    <3>2. QED
      BY <2>1, <3>1 DEF Pending
  <2>4. QED
    BY <2>2, <2>3
<1>5. CASE \E v \in Workers : In(<<t, r>>, work[v])
  <2>1. PICK v \in Workers : In(<<t, r>>, work[v])
    BY <1>5
  <2>2. v # w
    BY <1>1, <2>1, InElements
  <2>3. work'[v] = work[v]
    BY <1>1, <2>2
  <2>4. QED
    BY <2>1, <2>3 DEF Pending
<1>6. CASE In(r, rows[t]) \/ r \in copied[t]
  BY <1>1, <1>6 DEF Pending
<1>7. QED
  BY <1>3, <1>4, <1>5, <1>6 DEF Pending

LEMMA SendKeeps ==
  ASSUME Types, NEW w \in Workers, Send(w), NEW t \in Tables, NEW r, Pending(t, r)
  PROVE  Pending(t, r)'
<1> DEFINE l == Head(work[w])
<1>1. /\ work \in [Workers -> Seq(ArchiveLines)] /\ work[w] # <<>>
      /\ work' = [work EXCEPT ![w] = Tail(work[w])]
      /\ rows' = [rows EXCEPT ![l[1]] = Append(rows[l[1]], l[2])]
      /\ rows \in [Tables -> Seq(Rows)] /\ \A u \in Tables : rows[u] \in Seq(RowsOf(u))
      /\ UNCHANGED <<next, tasks, copied>>
  BY DEF Send, streams, Types, DataTypes
<1>2. l \in ArchiveLines /\ \A x : In(x, work[w]) <=> x = l \/ In(x, Tail(work[w]))
  BY <1>1, InTail
<1>3. l[1] \in Tables /\ l[2] \in RowsOf(l[1])
  BY <1>2, ArchiveFacts
<1>4. \A x : In(x, Append(rows[l[1]], l[2])) <=> In(x, rows[l[1]]) \/ x = l[2]
  BY <1>1, <1>3, InAppend
<1>5. rows'[t] = IF t = l[1] THEN Append(rows[l[1]], l[2]) ELSE rows[t]
  BY <1>1
<1>6. CASE In(r, rows[t])
  BY <1>4, <1>5, <1>6 DEF Pending
<1>7. CASE \E v \in Workers : In(<<t, r>>, work[v])
  <2>1. PICK v \in Workers : In(<<t, r>>, work[v])
    BY <1>7
  <2>2. CASE v # w
    <3>1. work'[v] = work[v]
      BY <1>1, <2>2
    <3>2. QED
      BY <2>1, <3>1 DEF Pending
  <2>3. CASE v = w /\ In(<<t, r>>, Tail(work[w]))
    <3>1. work'[w] = Tail(work[w])
      BY <1>1
    <3>2. QED
      BY <2>3, <3>1 DEF Pending
  <2>4. CASE <<t, r>> = l
    <3>1. t = l[1] /\ r = l[2]
      BY <2>4
    <3>2. In(r, rows'[t])
      BY <1>4, <1>5, <3>1
    <3>3. QED
      BY <3>2 DEF Pending
  <2>5. QED
    BY <1>2, <2>1, <2>2, <2>3, <2>4
<1>8. CASE \/ \E i \in next..Len(Archive) : In(<<t, r>>, Lines(Archive[i]))
           \/ \E j \in 1..Len(tasks) : In(<<t, r>>, Lines(tasks[j]))
           \/ r \in copied[t]
  BY <1>1, <1>8 DEF Pending
<1>9. QED
  BY <1>6, <1>7, <1>8 DEF Pending

LEMMA CopyKeeps ==
  ASSUME Types, NEW u \in Tables, CopyLine(u), NEW t \in Tables, NEW r, Pending(t, r)
  PROVE  Pending(t, r)'
<1>1. /\ rows[u] \in Seq(RowsOf(u)) /\ rows[u] # <<>>
      /\ rows' = [rows EXCEPT ![u] = Tail(rows[u])] /\ DOMAIN rows = Tables
      /\ copied' = [copied EXCEPT ![u] = copied[u] \union {Head(rows[u])}] /\ DOMAIN copied = Tables
      /\ UNCHANGED <<next, tasks, work>>
  BY DEF CopyLine, Types, DataTypes
<1>2. CASE In(r, rows[t])
  <2>1. CASE t # u
    <3>1. rows'[t] = rows[t]
      BY <1>1, <2>1
    <3>2. QED
      BY <1>2, <3>1 DEF Pending
  <2>2. CASE t = u
    <3>1. r = Head(rows[u]) \/ In(r, Tail(rows[u]))
      BY <1>1, <1>2, <2>2, InTail
    <3>2. rows'[t] = Tail(rows[u]) /\ Head(rows[u]) \in copied'[t]
      BY <1>1, <2>2
    <3>3. QED
      BY <3>1, <3>2 DEF Pending
  <2>3. QED
    BY <2>1, <2>2
<1>3. CASE r \in copied[t]
  <2>1. r \in copied'[t]
    BY <1>1, <1>3
  <2>2. QED
    BY <2>1 DEF Pending
<1>4. CASE \/ \E i \in next..Len(Archive) : In(<<t, r>>, Lines(Archive[i]))
           \/ \E j \in 1..Len(tasks) : In(<<t, r>>, Lines(tasks[j]))
           \/ \E w \in Workers : In(<<t, r>>, work[w])
  BY <1>1, <1>4 DEF Pending
<1>5. QED
  BY <1>2, <1>3, <1>4 DEF Pending

\* The COPY of a table that ends well has read every line of it.
LEMMA CopyIsWhole ==
  ASSUME Types, Control, NoLineIsLost, NEW t \in Tables \ wrong, CopyEnds(t)
  PROVE  /\ phase = "copy" /\ stream' = [stream EXCEPT ![t] = "ended"]
         /\ \A r \in RowsOf(t) : staging'[t][r] = 1
         /\ \A u \in Tables \ {t} : staging'[u] = staging[u] /\ copied'[u] = copied[u]
<1>1. /\ stream[t] = "copying" /\ rows[t] = <<>> /\ reader = "closed rows"
      /\ stream' = [stream EXCEPT ![t] = "ended"]
      /\ staging' = [staging EXCEPT ![t] = [r \in RowsOf(t) |->
                        IF r \in copied[t] THEN staging[t][r] + 1 ELSE staging[t][r]]]
      /\ copied' = [copied EXCEPT ![t] = {}]
  BY DEF CopyEnds, Goes, Exhausted
<1>2. phase = "copy" /\ next = Whole /\ tasks = <<>> /\ \A w \in Workers : work[w] = <<>>
  BY <1>1 DEF Control, WorkersAreDone
<1>3. ASSUME NEW r \in RowsOf(t) PROVE r \in copied[t] /\ staging[t][r] = 0
  <2>1. Pending(t, r) /\ staging[t][r] = 0
    BY <1>1, <1>2 DEF NoLineIsLost
  <2>2. next..Len(Archive) = {}
    BY <1>2, ArchiveFacts DEF Whole
  <2>3. /\ \A w \in Workers : ~In(<<t, r>>, work[w])
        /\ ~In(r, rows[t]) /\ 1..Len(tasks) = {}
    <3>1. 1..Len(<<>>) = {}
      OBVIOUS
    <3>2. \A x : ~In(x, <<>>)
      BY <3>1 DEF In
    <3>3. QED
      BY <1>1, <1>2, <3>1, <3>2
  <2>4. QED
    BY <2>1, <2>2, <2>3 DEF Pending
<1>4. DOMAIN staging = Tables /\ DOMAIN copied = Tables
  BY DEF Types, DataTypes
<1>5. \A r \in RowsOf(t) : staging'[t][r] = 1
  <2> SUFFICES ASSUME NEW r \in RowsOf(t) PROVE staging'[t][r] = 1
    OBVIOUS
  <2>1. staging'[t] = [q \in RowsOf(t) |-> IF q \in copied[t] THEN staging[t][q] + 1 ELSE staging[t][q]]
    BY <1>1, <1>4
  <2>2. staging'[t][r] = staging[t][r] + 1
    BY <1>3, <2>1
  <2>3. QED
    BY <1>3, <2>2
<1>6. \A u \in Tables \ {t} : staging'[u] = staging[u] /\ copied'[u] = copied[u]
  BY <1>1, <1>4
<1>7. QED
  BY <1>1, <1>2, <1>5, <1>6

LEMMA NoLineIsLostInit == Init => NoLineIsLost
  BY DEF Init, NoLineIsLost

LEMMA NoLineIsLostStep == Types /\ Control /\ NoLineIsLost /\ [Next]_vars => NoLineIsLost'
<1> SUFFICES ASSUME Types, Control, NoLineIsLost, [Next]_vars, phase' = "copy",
                    NEW t \in Tables, t \notin wrong'
             PROVE  /\ stream'[t] \in {"acquiring", "copying", "ended"}
                    /\ \A r \in RowsOf(t) :
                          IF stream'[t] = "ended" THEN staging'[t][r] = 1
                          ELSE staging'[t][r] = 0 /\ Pending(t, r)'
  BY DEF NoLineIsLost
<1> DEFINE Located == /\ stream[t] \in {"acquiring", "copying", "ended"}
                      /\ \A r \in RowsOf(t) :
                            IF stream[t] = "ended" THEN staging[t][r] = 1
                            ELSE staging[t][r] = 0 /\ Pending(t, r)
<1> USE DEF channels, streams, base, bounds
<1>h. phase = "copy" /\ t \notin wrong => Located
  BY DEF NoLineIsLost
<1>k. ASSUME phase = "copy", t \notin wrong, stream'[t] = stream[t], staging'[t] = staging[t],
             \A r \in RowsOf(t) : Pending(t, r) => Pending(t, r)'
      PROVE  Located'
  BY <1>h, <1>k
<1>1. CASE Truncate
  <2>1. reader = "off" /\ next = 1
    BY <1>1 DEF Truncate, Control, AllQuiet
  <2>2. /\ stream'[t] = "acquiring" /\ staging' = Nothing /\ next' = 1
    BY <1>1, <2>1 DEF Truncate, Emptied
  <2>3. \A r \in RowsOf(t) : Pending(t, r)'
    BY <2>2, ArchiveFacts DEF Pending
  <2>4. QED
    BY <2>2, <2>3, NothingTypes
<1>2. CASE Read
  BY <1>2, <1>k, ReadKeeps DEF Read
<1>3. ASSUME NEW w \in Workers, Take(w) PROVE Located'
  BY <1>3, <1>k, TakeKeeps DEF Take
<1>4. ASSUME NEW w \in Workers, Send(w) PROVE Located'
  BY <1>4, <1>k, SendKeeps DEF Send
<1>5. ASSUME NEW u \in Tables, CopyLine(u) PROVE Located'
  BY <1>5, <1>k, CopyKeeps DEF CopyLine
<1>6. CASE CloseTasks \/ CloseRows \/ (\E n \in Neighbours : NeighbourTakes(n) \/ NeighbourReleases(n))
           \/ UNCHANGED vars
  <2>1. UNCHANGED <<phase, next, tasks, work, rows, stream, wrong, copied, staging>>
    BY <1>6 DEF CloseTasks, CloseRows, NeighbourTakes, NeighbourReleases, vars
  <2>2. QED
    BY <1>k, <2>1 DEF Pending
<1>7. ASSUME NEW u \in Tables, Acquire(u) PROVE Located'
  <2>1. /\ UNCHANGED <<phase, next, tasks, work, rows, wrong, copied, staging>>
        /\ stream' = [stream EXCEPT ![u] = "copying"] /\ stream[u] = "acquiring"
    BY <1>7 DEF Acquire, Goes
  <2>2. Located
    BY <1>h, <2>1
  <2>3. DOMAIN stream = Tables
    BY DEF Types, DataTypes
  <2>4. stream'[t] \in {"acquiring", "copying", "ended"} /\ (stream'[t] = "ended" <=> stream[t] = "ended")
    BY <2>1, <2>2, <2>3
  <2>5. QED
    BY <2>1, <2>2, <2>4 DEF Pending
<1>8. ASSUME NEW u \in Tables, CopyEnds(u) PROVE Located'
  <2>1. UNCHANGED <<phase, next, tasks, work, rows, wrong>>
    BY <1>8 DEF CopyEnds
  <2>2. CASE u = t
    <3>1. stream' = [stream EXCEPT ![t] = "ended"] /\ \A r \in RowsOf(t) : staging'[t][r] = 1
      BY <1>8, <2>1, <2>2, CopyIsWhole
    <3>2. stream'[t] = "ended"
      BY <3>1 DEF Types, DataTypes
    <3>3. QED
      BY <3>1, <3>2
  <2>3. CASE u # t
    <3>1. stream'[t] = stream[t] /\ staging'[t] = staging[t] /\ copied'[t] = copied[t]
      BY <1>8, <2>3 DEF CopyEnds, Goes, Types, DataTypes
    <3>2. QED
      BY <1>k, <2>1, <3>1 DEF Pending
  <2>4. QED
    BY <2>2, <2>3
<1>9. ASSUME NEW u \in Tables, AcquireFails(u) \/ CopyFails(u) PROVE Located'
  <2>1. /\ UNCHANGED <<phase, next, tasks, work, rows, staging>> /\ wrong' = wrong \union {u}
    BY <1>9 DEF AcquireFails, CopyFails
  <2>2. u # t
    BY <2>1
  <2>3. stream'[t] = stream[t] /\ copied'[t] = copied[t]
    BY <1>9, <2>2 DEF AcquireFails, CopyFails, Goes, Types, DataTypes
  <2>4. QED
    BY <1>k, <2>1, <2>3 DEF Pending
<1>10. ASSUME NEW u \in Tables, Drain(u) \/ DrainEnds(u) PROVE Located'
  <2>1. /\ UNCHANGED <<phase, next, tasks, work, copied, wrong, staging>>
        /\ stream[u] \in {"failed", "released"}
    BY <1>10 DEF Drain, DrainEnds, Goes, Emptying
  <2>2. u # t
    BY <1>h, <2>1
  <2>3. stream'[t] = stream[t] /\ rows'[t] = rows[t]
    BY <1>10, <2>2 DEF Drain, DrainEnds, Goes, Types, DataTypes
  <2>4. QED
    BY <1>k, <2>1, <2>3 DEF Pending
<1>11. CASE Start \/ ReadFails \/ Copied \/ Merge \/ StatementFails \/ EndRun \/ Crash
  BY <1>11 DEF Start, ReadFails, Copied, Merge, StatementFails, EndRun, Crash
<1>12. QED
  BY <1>1, <1>2, <1>3, <1>4, <1>5, <1>6, <1>7, <1>8, <1>9, <1>10, <1>11
     DEF Next, Program, Reader, Stream

-----------------------------------------------------------------------------
(* The merge                                                               *)

\* What is left of jo_staging for the merge is the archive, and the acts are merged
\* before the blocks that refer to them.
MergeInv ==
    /\ MergedIsTheArchive
    /\ phase = "merge" /\ merged >= 2 => RowsOf("texte") \subseteq core["texte"]
    /\ BlocksHaveTheirAct

\* analyze sends the line of an act before those of its blocks, in the same file.
LEMMA ActsOfTheArchive == \A r \in RowsOf("bloc") : ActOf(r) \in RowsOf("texte")
<1> SUFFICES ASSUME NEW r \in RowsOf("bloc") PROVE ActOf(r) \in RowsOf("texte")
  OBVIOUS
<1>1. PICK l \in ArchiveLines : l[1] = "bloc" /\ l[2] = r
  BY DEF RowsOf
<1>2. PICK f \in ArchiveFiles : \E k \in DOMAIN Lines(f) : l = Lines(f)[k]
  BY DEF ArchiveLines
<1> PICK k \in DOMAIN Lines(f) : l = Lines(f)[k]
  BY <1>2
<1>3. PICK j \in 1..(k - 1) : Lines(f)[j] = <<"texte", ActOf(r)>>
  BY <1>1, ReferenceAssumption
<1>4. DOMAIN Lines(f) = 1..Len(Lines(f)) /\ Len(Lines(f)) \in Nat
  BY ArchiveAssumption
<1>5. j \in DOMAIN Lines(f)
  BY <1>3, <1>4
<1>6. <<"texte", ActOf(r)>> \in ArchiveLines
  BY <1>3, <1>5 DEF ArchiveLines
<1>7. QED
  BY <1>6 DEF RowsOf

LEMMA MergeInit == Init => MergeInv
<1> SUFFICES ASSUME Init PROVE MergeInv
  OBVIOUS
<1>1. core["bloc"] = Before["bloc"] /\ core["texte"] = Before["texte"]
  BY DEF Init, Tables
<1>2. BlocksHaveTheirAct
  BY <1>1, ReferenceAssumption DEF BlocksHaveTheirAct
<1>3. QED
  BY <1>2 DEF Init, MergeInv, MergedIsTheArchive

LEMMA MergeStep == Types /\ Control /\ NoLineIsLost /\ MergeInv /\ [Next]_vars => MergeInv'
<1> SUFFICES ASSUME Types, Control, NoLineIsLost, MergeInv, [Next]_vars PROVE MergeInv'
  OBVIOUS
<1> USE DEF channels, streams, base, bounds
<1>k. "bloc" \in Tables /\ "texte" \in Tables
  BY DEF Tables
<1>u. ASSUME core' = core, phase' # "merge" PROVE MergeInv'
  BY <1>u DEF MergeInv, MergedIsTheArchive, BlocksHaveTheirAct
<1>v. ASSUME UNCHANGED <<core, staging, merged, phase>> PROVE MergeInv'
  BY <1>v DEF MergeInv, MergedIsTheArchive, BlocksHaveTheirAct
<1>1. CASE Start \/ Truncate \/ ReadFails \/ StatementFails \/ EndRun \/ Crash
  BY <1>1, <1>u DEF Start, Truncate, ReadFails, StatementFails, EndRun, Crash
<1>2. CASE Read \/ CloseTasks \/ CloseRows \/ (\E w \in Workers : Take(w) \/ Send(w))
           \/ (\E n \in Neighbours : NeighbourTakes(n) \/ NeighbourReleases(n)) \/ UNCHANGED vars
  BY <1>2, <1>v DEF Read, CloseTasks, CloseRows, Take, Send, NeighbourTakes, NeighbourReleases, vars
<1>3. ASSUME NEW t \in Tables, CopyEnds(t) PROVE MergeInv'
  <2>1. phase # "merge" /\ UNCHANGED <<phase, core>>
    BY <1>3 DEF CopyEnds, Exhausted, Control
  <2>2. QED
    BY <1>u, <2>1
<1>4. ASSUME NEW t \in Tables, \/ Acquire(t) \/ CopyLine(t) \/ Drain(t) \/ DrainEnds(t)
                               \/ AcquireFails(t) \/ CopyFails(t)
      PROVE  MergeInv'
  BY <1>4, <1>v DEF Acquire, CopyLine, Drain, DrainEnds, AcquireFails, CopyFails
<1>5. CASE Copied
  <2>1. /\ phase = "copy" /\ \A t \in Tables : stream[t] = "ended"
        /\ phase' = "merge" => wrong = {}
        /\ UNCHANGED <<staging, core>> /\ merged' = 0
    BY <1>5 DEF Copied, Refused
  <2>2. phase' = "merge" => \A t \in Tables : \A r \in RowsOf(t) : staging'[t][r] = 1
    BY <2>1 DEF NoLineIsLost
  <2>3. QED
    BY <2>1, <2>2 DEF MergeInv, MergedIsTheArchive, BlocksHaveTheirAct
<1>6. CASE Merge
  <2> DEFINE m == MergeOrder[merged + 1]
  <2>1. /\ phase = "merge" /\ UNCHANGED staging /\ merged' = merged + 1 /\ merged \in Nat
        /\ \A t \in Tables : \A r \in RowsOf(t) : staging[t][r] = 1
    <3>1. phase = "merge" /\ UNCHANGED staging /\ merged' = merged + 1
      BY <1>6 DEF Merge
    <3>2. merged \in 0..(Len(MergeOrder) + 2)
      BY DEF Types, Bounded
    <3>3. merged \in Nat
      BY <3>2, MergeOrderFacts
    <3>4. \A t \in Tables : \A r \in RowsOf(t) : staging[t][r] = 1
      BY <3>1 DEF MergeInv, MergedIsTheArchive
    <3>5. QED
      BY <3>1, <3>3, <3>4
  <2>2. CASE merged < 4
    <3>1. /\ core' = [core EXCEPT ![m] = @ \union {r \in RowsOf(m) : staging[m][r] > 0}]
          /\ m \in Tables /\ (m = "texte" <=> merged = 1) /\ (m = "bloc" <=> merged = 3)
      <4>1. merged = 0 \/ merged = 1 \/ merged = 2 \/ merged = 3
        BY <2>1, <2>2
      <4>2. m \in Tables /\ (m = "texte" <=> merged = 1) /\ (m = "bloc" <=> merged = 3)
        BY <4>1, MergeOrderFacts
      <4>3. QED
        BY <1>6, <2>2, <4>2, MergeOrderFacts DEF Merge
    <3>2. DOMAIN core = Tables
      BY DEF Types, DataTypes
    <3>3. core'[m] = core[m] \union RowsOf(m) /\ \A t \in Tables \ {m} : core'[t] = core[t]
      BY <2>1, <3>1, <3>2
    <3>4. merged' >= 2 => RowsOf("texte") \subseteq core'["texte"]
      <4>1. CASE merged = 1
        BY <3>1, <3>3, <4>1
      <4>2. CASE merged >= 2
        BY <1>k, <2>1, <3>1, <3>3, <4>2 DEF MergeInv
      <4>3. QED
        BY <2>1, <4>1, <4>2
    <3>5. \A r \in core'["bloc"] : ActOf(r) \in core'["texte"]
      <4>1. core["texte"] \subseteq core'["texte"]
        BY <1>k, <3>3
      <4>2. \A r \in core["bloc"] : ActOf(r) \in core["texte"]
        BY DEF MergeInv, BlocksHaveTheirAct
      <4>3. CASE merged = 3
        <5>1. RowsOf("texte") \subseteq core["texte"]
          BY <2>1, <4>3 DEF MergeInv
        <5>2. core'["bloc"] = core["bloc"] \union RowsOf("bloc")
          BY <3>1, <3>3, <4>3
        <5>3. QED
          BY <4>1, <4>2, <5>1, <5>2, ActsOfTheArchive
      <4>4. CASE merged # 3
        <5>1. core'["bloc"] = core["bloc"]
          BY <1>k, <3>1, <3>3, <4>4
        <5>2. QED
          BY <4>1, <4>2, <5>1
      <4>5. QED
        BY <4>3, <4>4
    <3>6. QED
      BY <2>1, <3>4, <3>5 DEF MergeInv, MergedIsTheArchive, BlocksHaveTheirAct
  <2>3. CASE ~(merged < 4)
    <3>1. core' = core
      BY <1>6, <2>3, MergeOrderFacts DEF Merge
    <3>2. merged >= 2
      BY <2>1, <2>3
    <3>3. QED
      BY <2>1, <3>1, <3>2 DEF MergeInv, MergedIsTheArchive, BlocksHaveTheirAct
  <2>4. QED
    BY <2>2, <2>3
<1>7. QED
  BY <1>1, <1>2, <1>3, <1>4, <1>5, <1>6 DEF Next, Program, Reader, Stream

LEMMA JorfInvariant == Spec => [](Types /\ Control /\ NoLineIsLost /\ MergeInv)
<1>1. QED
  BY TypesInit, ControlInit, NoLineIsLostInit, MergeInit,
     TypesStep, ControlStep, NoLineIsLostStep, MergeStep, PTL DEF Spec

\* What IngestComplet merges is the archive, every line of it once: through channels of
\* any capacity and any number of workers no line of a stream that went well is lost or
\* copied twice, and what failed or died before has left nothing behind.
THEOREM MergesTheArchive == Spec => []MergedIsTheArchive
<1>1. MergeInv => MergedIsTheArchive
  BY DEF MergeInv
<1>2. QED
  BY <1>1, JorfInvariant, PTL

\* The merge adds an act before its blocks: at every moment, and wherever a statement
\* fails or the process dies, bloc_texte_fk holds.
THEOREM BlocksReferToActs == Spec => []BlocksHaveTheirAct
<1>1. MergeInv => BlocksHaveTheirAct
  BY DEF MergeInv
<1>2. QED
  BY <1>1, JorfInvariant, PTL
==============================================================================

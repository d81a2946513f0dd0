---------------------------- MODULE MappingProofs ----------------------------
(***************************************************************************)
(* Theorems about Mapping, for any links, any number of ingestions and of   *)
(* revisions, and whatever others may do: each property says itself what it  *)
(* supposes that nobody does.                                               *)
(***************************************************************************)
EXTENDS Mapping, FiniteSetTheorems, TLAPS

Writing == {"revision", "delete", "insert"}

\* The row of the lineage has one holder, who is the one transaction that writes.
OneWriter ==
    /\ \A s \in Sessions : tx[s].pc \in Writing <=> s \in locked
    /\ \A s, t \in locked : s = t

\* The revision of a transaction exists in the base, or is the one it creates.
KnowsItsRevision == \A s \in Sessions :
    /\ tx[s].pc \in {"delete", "insert"} => tx[s].rev \in Revisions
    /\ tx[s].pc \notin {"delete", "insert"} => tx[s].rev = 0

\* What a transaction has deleted is what is still committed.
GoneIsCurrent == \A s \in Sessions : tx[s].pc = "insert" => tx[s].gone = content[tx[s].rev]

\* A revision holds the links of one CSV.
OneCsvEach == \A r \in Revisions : content[r] = from[r]

Core == TypeOK /\ OneWriter /\ KnowsItsRevision
RebuildInv == Core /\ GoneIsCurrent /\ OneCsvEach

\* The revisions of the lineage are numbered without a hole, a new one is the next.
Numbered == \A r \in Revisions : status[r] # "absent" <=> r <= LastRevision
NewIsNext == \A s \in Sessions : tx[s].new => tx[s].rev = NextRevision
\* A transaction does not write in a frozen revision.
WritesOpen == \A s \in Sessions : tx[s].rev # 0 => status[tx[s].rev] # "frozen"
NumberInv == Core /\ Numbered /\ NewIsNext /\ WritesOpen
\* A frozen revision holds what its hash was taken from.
HashIsKept == \A r \in Revisions : status[r] = "frozen" => content[r] = hash[r]
-----------------------------------------------------------------------------
\* What the others may do is settled at the beginning.
LEMMA OthersNeverChange == [Next]_vars => UNCHANGED others
BY DEF Next, vars, Ingest, Read, LockLineage, CurrentRevision, Delete, Insert, Commit, Abort,
       Rollback, Freeze, Unfreeze, Cite, Edit, Move

\* There are a number of revisions, and the next one comes after.
LEMMA LastRevisionCounts ==
    LastRevision \in Nat /\ NextRevision \in Nat \ {0} /\ ~(NextRevision <= LastRevision)
<1> DEFINE existing == {r \in Revisions : status[r] # "absent"}
<1>1. IsFiniteSet(Revisions)
  BY FS_Interval, MappingAssumption DEF Revisions
<1>2. Cardinality(existing) \in Nat
  BY <1>1, FS_Subset, FS_CardinalityType
<1> QED
  BY <1>2 DEF LastRevision, NextRevision

\* A new revision is one of the bound's.
LEMMA NextRevisionIsBounded ==
    ASSUME TypeOK, LastRevision < MaxRevision
    PROVE  NextRevision \in Revisions
BY LastRevisionCounts, MappingAssumption DEF NextRevision, Revisions

\* The type invariant and the exclusion of writers hold initially, and every step
\* keeps them, whatever the others do.
LEMMA InitCore == Init => Core /\ GoneIsCurrent /\ OneCsvEach
BY MappingAssumption
DEF Init, Core, TypeOK, OneWriter, KnowsItsRevision, GoneIsCurrent, OneCsvEach,
    NoTx, Tx, Writing, Revisions

\* The step of one transaction: its next state is a transaction whose revision and
\* lock agree with where it is.
LEMMA TxStep ==
    ASSUME Core, NEW s \in Sessions, NEW new \in Tx,
           tx' = [tx EXCEPT ![s] = new],
           status' \in [Revisions -> {"absent", "head", "frozen"}],
           content' \in [Revisions -> SUBSET Links], hash' \in [Revisions -> SUBSET Links],
           from' \in [Revisions -> SUBSET Links], cited' \subseteq Revisions,
           IF new.pc \in {"delete", "insert"} THEN new.rev \in Revisions ELSE new.rev = 0,
           locked' = IF new.pc \in Writing THEN locked \union {s} ELSE locked \ {s},
           new.pc \in Writing /\ s \notin locked => locked = {}, UNCHANGED others
    PROVE  Core'
<1>1. tx' \in [Sessions -> Tx] /\ tx'[s] = new /\ \A t \in Sessions \ {s} : tx'[t] = tx[t]
  BY DEF Core, TypeOK
<1>2. TypeOK'
  BY <1>1 DEF Core, TypeOK
<1>3. OneWriter'
  <2>1. ASSUME NEW t \in Sessions PROVE (tx[t].pc \in Writing)' <=> t \in locked'
    BY <1>1, <2>1 DEF Core, OneWriter
  <2>2. ASSUME NEW t \in locked', NEW u \in locked' PROVE t = u
    BY <2>2 DEF Core, OneWriter
  <2> QED BY <2>1, <2>2 DEF OneWriter
<1>4. KnowsItsRevision'
  BY <1>1 DEF Core, KnowsItsRevision
<1> QED
  BY <1>2, <1>3, <1>4 DEF Core

\* Every step of an ingestion keeps the type and the exclusion of writers.
LEMMA IngestKeepsCore ==
    ASSUME NEW s \in Sessions, Core, Ingest(s), UNCHANGED others
    PROVE  Core'
<1> DEFINE old == tx[s]
<1>0. /\ old \in Tx /\ old.pc \in Writing <=> s \in locked
      /\ old.pc \in {"delete", "insert"} => old.rev \in Revisions
      /\ old.pc \notin {"delete", "insert"} => old.rev = 0
      /\ tx \in [Sessions -> Tx] /\ locked \subseteq Sessions
      /\ status \in [Revisions -> {"absent", "head", "frozen"}]
      /\ content \in [Revisions -> SUBSET Links] /\ hash \in [Revisions -> SUBSET Links]
      /\ from \in [Revisions -> SUBSET Links] /\ cited \subseteq Revisions
  BY DEF Core, TypeOK, OneWriter, KnowsItsRevision
<1>a. NoTx \in Tx /\ NoTx.pc = "idle" /\ NoTx.rev = 0
  BY MappingAssumption DEF NoTx, Tx
<1>1. CASE Read(s)
  <2>1. PICK csv \in SUBSET Links : tx' = [tx EXCEPT ![s] = [NoTx EXCEPT !.pc = "lineage", !.csv = csv]]
    BY <1>1 DEF Read
  <2> DEFINE new == [NoTx EXCEPT !.pc = "lineage", !.csv = csv]
  <2>2. new \in Tx /\ new.pc = "lineage" /\ new.rev = 0
    BY <1>a, <2>1 DEF Tx
  <2>3. old.pc = "idle" /\ locked' = locked \ {s}
    BY <1>0, <1>1 DEF Read, At, Writing
  <2>4. UNCHANGED <<status, content, hash, cited, from>>
    BY <1>1 DEF Read
  <2> HIDE DEF new
  <2>5. tx' = [tx EXCEPT ![s] = new]
    BY <2>1 DEF new
  <2> QED
    BY <1>0, <2>2, <2>3, <2>4, <2>5, TxStep DEF Writing
<1>2. CASE LockLineage(s)
  <2> DEFINE new == [old EXCEPT !.pc = "revision"]
  <2>1. new \in Tx /\ new.pc = "revision" /\ new.rev = 0
    BY <1>0, <1>2 DEF LockLineage, At, Tx
  <2>2. tx' = [tx EXCEPT ![s] = new]
    BY <1>2 DEF LockLineage
  <2>3. locked = {} /\ locked' = locked \union {s} /\ UNCHANGED <<status, content, hash, cited, from>>
    BY <1>2 DEF LockLineage, TakesLineage
  <2> HIDE DEF new, old
  <2> QED
    BY <1>0, <2>1, <2>2, <2>3, TxStep DEF Writing
<1>3. CASE CurrentRevision(s)
  <2>1. old.pc = "revision" /\ UNCHANGED <<status, content, hash, cited, locked, from>>
    BY <1>3 DEF CurrentRevision, At
  <2>2. s \in locked /\ locked' = locked \union {s}
    BY <1>0, <2>1 DEF Writing
  <2>3. CASE \E r \in Revisions : Head(r) /\ tx' = [tx EXCEPT ![s].pc = "delete", ![s].rev = r]
    <3>1. PICK r \in Revisions : tx' = [tx EXCEPT ![s].pc = "delete", ![s].rev = r]
      BY <2>3
    <3> DEFINE new == [old EXCEPT !.pc = "delete", !.rev = r]
    <3>2. tx' = [tx EXCEPT ![s] = new]
      BY <3>1
    <3>3. new \in Tx /\ new.pc = "delete" /\ new.rev \in Revisions
      <4>1. r \in 0..MaxRevision
        BY <3>1, MappingAssumption DEF Revisions
      <4>2. old \in Tx
        BY <1>0
      <4> HIDE DEF old
      <4> QED BY <3>1, <4>1, <4>2 DEF Tx
    <3> HIDE DEF new, old
    <3> QED
      BY <1>0, <2>1, <2>2, <3>2, <3>3, TxStep DEF Writing
  <2>4. CASE /\ LastRevision < MaxRevision
             /\ tx' = [tx EXCEPT ![s].pc = "delete", ![s].rev = NextRevision, ![s].new = TRUE]
    <3> DEFINE new == [old EXCEPT !.pc = "delete", !.rev = NextRevision, !.new = TRUE]
    <3>1. NextRevision \in Revisions
      BY <2>4, NextRevisionIsBounded DEF Core
    <3>2. tx' = [tx EXCEPT ![s] = new]
      BY <2>4
    <3>3. new \in Tx /\ new.pc = "delete" /\ new.rev \in Revisions
      <4>1. NextRevision \in 0..MaxRevision
        BY <3>1, MappingAssumption DEF Revisions
      <4>2. old \in Tx
        BY <1>0
      <4> HIDE DEF old
      <4> QED BY <3>1, <4>1, <4>2 DEF Tx
    <3> HIDE DEF new, old
    <3> QED
      BY <1>0, <2>1, <2>2, <3>2, <3>3, TxStep DEF Writing
  <2> QED BY <1>3, <2>3, <2>4 DEF CurrentRevision
<1>4. CASE Delete(s)
  <2> DEFINE new == [old EXCEPT !.pc = "insert", !.gone = content[old.rev]]
  <2>1. old.pc = "delete" /\ UNCHANGED <<status, content, hash, cited, locked, from>>
    BY <1>4 DEF Delete, At
  <2>2. new \in Tx /\ new.pc = "insert" /\ new.rev \in Revisions
    BY <1>0, <2>1 DEF Tx
  <2>3. tx' = [tx EXCEPT ![s] = new]
    BY <1>4 DEF Delete
  <2>4. s \in locked /\ locked' = locked \union {s}
    BY <1>0, <2>1 DEF Writing
  <2> HIDE DEF new, old
  <2> QED
    BY <1>0, <2>1, <2>2, <2>3, <2>4, TxStep DEF Writing
<1>5. CASE Insert(s)
  <2>1. PICK link \in old.csv : tx' = [tx EXCEPT ![s].added = @ \union {link}]
    BY <1>5 DEF Insert
  <2> DEFINE new == [old EXCEPT !.added = @ \union {link}]
  <2>2. old.pc = "insert" /\ UNCHANGED <<status, content, hash, cited, locked, from>>
    BY <1>5 DEF Insert, At
  <2>3. new \in Tx /\ new.pc = "insert" /\ new.rev \in Revisions
    BY <1>0, <2>1, <2>2 DEF Tx
  <2>4. s \in locked /\ locked' = locked \union {s}
    BY <1>0, <2>2 DEF Writing
  <2>5. tx' = [tx EXCEPT ![s] = new]
    BY <2>1
  <2> HIDE DEF new, old
  <2> QED
    BY <1>0, <2>2, <2>3, <2>4, <2>5, TxStep DEF Writing
<1>6. CASE Commit(s)
  <2>1. /\ tx' = [tx EXCEPT ![s] = NoTx] /\ locked' = locked \ {s} /\ UNCHANGED <<hash, cited>>
        /\ old.pc = "insert"
    BY <1>6 DEF Commit, At
  <2>2. /\ content' \in [Revisions -> SUBSET Links] /\ from' \in [Revisions -> SUBSET Links]
        /\ status' \in [Revisions -> {"absent", "head", "frozen"}]
    BY <1>0, <1>6, <2>1 DEF Commit, Tx
  <2> HIDE DEF old
  <2> QED
    BY <1>0, <1>a, <2>1, <2>2, TxStep DEF Writing
<1>7. CASE Abort(s)
  BY <1>0, <1>a, <1>7, TxStep DEF Abort, Rollback, Writing
<1> QED
  BY <1>1, <1>2, <1>3, <1>4, <1>5, <1>6, <1>7 DEF Ingest

\* No step of the others touches a transaction.
LEMMA OthersKeepCore ==
    ASSUME Core, NEW r \in Revisions,
           Freeze(r) \/ Unfreeze(r) \/ Cite(r) \/ Edit(r) \/ \E q \in Revisions : Move(r, q),
           UNCHANGED others
    PROVE  Core'
<1>1. UNCHANGED <<tx, locked>>
  BY DEF Freeze, Unfreeze, Cite, Edit, Move
<1>2. TypeOK'
  BY DEF Core, TypeOK, Freeze, Unfreeze, Cite, Edit, Move
<1> QED
  BY <1>1, <1>2 DEF Core, OneWriter, KnowsItsRevision

\* Stuttering keeps the type and the exclusion of writers.
LEMMA StutterKeepsCore == Core /\ UNCHANGED vars => Core'
BY DEF vars, Core, TypeOK, OneWriter, KnowsItsRevision
-----------------------------------------------------------------------------
\* Between its DELETE and its COMMIT, a transaction knows what it will replace: no
\* other writes the map, unless it is edited by hand.
LEMMA StepKeepsMap ==
    ASSUME "edit" \notin others, "move" \notin others, RebuildInv, [Next]_vars
    PROVE  RebuildInv'
<1> USE DEF RebuildInv
<1>1. ASSUME NEW s \in Sessions, Ingest(s), UNCHANGED others PROVE RebuildInv'
  <2>1. Core'
    BY <1>1, IngestKeepsCore
  <2>2. CASE UNCHANGED <<content, from>>
    <3>1. \A t \in Sessions \ {s} : tx'[t] = tx[t]
      BY <1>1 DEF Core, TypeOK, Ingest, Read, LockLineage, CurrentRevision, Delete, Insert, Commit,
                  Abort, Rollback
    <3>2. tx'[s].pc = "insert" => tx'[s].gone = content[tx'[s].rev]
      <4>1. CASE Delete(s)
        BY <4>1 DEF Core, TypeOK, Delete, Tx
      <4>2. CASE Insert(s)
        BY <4>2 DEF Core, TypeOK, Insert, Tx, GoneIsCurrent, At
      <4>3. CASE Read(s)
        BY <4>3 DEF Core, TypeOK, Read, NoTx
      <4>4. CASE LockLineage(s)
        BY <4>4 DEF Core, TypeOK, LockLineage, Tx
      <4>5. CASE CurrentRevision(s)
        BY <4>5 DEF Core, TypeOK, CurrentRevision, Tx
      <4>6. CASE Commit(s) \/ Abort(s)
        BY <4>6 DEF Core, TypeOK, Commit, Abort, Rollback, NoTx
      <4> QED BY <1>1, <4>1, <4>2, <4>3, <4>4, <4>5, <4>6 DEF Ingest
    <3> QED
      BY <2>1, <2>2, <3>1, <3>2 DEF GoneIsCurrent, OneCsvEach
  <2>3. CASE Commit(s)
    <3>1. /\ tx[s].pc = "insert" /\ tx[s].added = tx[s].csv /\ tx[s].rev \in Revisions
          /\ tx[s].gone = content[tx[s].rev] /\ tx' = [tx EXCEPT ![s] = NoTx]
          /\ content' = [content EXCEPT ![tx[s].rev] = (@ \ tx[s].gone) \union tx[s].added]
          /\ from' = [from EXCEPT ![tx[s].rev] = tx[s].csv]
      BY <2>3 DEF Commit, At, Core, KnowsItsRevision, GoneIsCurrent
    <3>2. content' = [content EXCEPT ![tx[s].rev] = tx[s].csv]
      BY <3>1
    <3>3. OneCsvEach'
      BY <3>1, <3>2 DEF OneCsvEach, Core, TypeOK
    <3>4. \A t \in Sessions : tx'[t].pc # "insert"
      BY <3>1 DEF Core, TypeOK, OneWriter, Writing, NoTx
    <3> QED BY <2>1, <3>3, <3>4 DEF GoneIsCurrent
  <2> QED
    BY <1>1, <2>2, <2>3 DEF Ingest, Read, LockLineage, CurrentRevision, Delete, Insert, Abort, Rollback
<1>2. ASSUME NEW r \in Revisions,
             Freeze(r) \/ Unfreeze(r) \/ Cite(r) \/ Edit(r) \/ \E q \in Revisions : Move(r, q),
             UNCHANGED others
      PROVE  RebuildInv'
  <2>1. Core'
    BY <1>2, OthersKeepCore
  <2>2. UNCHANGED <<content, from, tx>>
    BY <1>2 DEF Freeze, Unfreeze, Cite, Edit, Move, May
  <2> QED BY <2>1, <2>2 DEF GoneIsCurrent, OneCsvEach
<1>3. CASE UNCHANGED vars
  BY <1>3, StutterKeepsCore DEF vars, GoneIsCurrent, OneCsvEach
<1> QED
  BY <1>1, <1>2, <1>3, OthersNeverChange DEF Next

\* carto.Ingest: however many ingestions run, wait and fail together, and even when
\* a revision is frozen under them, a revision holds the links of one CSV.
THEOREM OneCsv == Spec => []MapIsOneCsv
<1> DEFINE Inv == others \in Scenarios /\ (Never({"edit", "move"}) => RebuildInv)
<1>1. Init => Inv
  BY InitCore DEF RebuildInv, Init
<1>2. Inv /\ [Next]_vars => Inv'
  BY StepKeepsMap, OthersNeverChange DEF Never
<1>3. Inv => MapIsOneCsv
  BY DEF RebuildInv, MapIsOneCsv, OneCsvEach
<1> QED
  BY <1>1, <1>2, <1>3, PTL DEF Spec

\* The type invariant holds whatever the others do.
THEOREM MappingTypeCorrect == Spec => []TypeOK
<1>1. Init => Core
  BY InitCore
<1>2. Core /\ [Next]_vars => Core'
  <2>1. Core /\ UNCHANGED others /\ (\E s \in Sessions : Ingest(s)) => Core'
    BY IngestKeepsCore
  <2>2. ASSUME Core, NEW r \in Revisions,
               Freeze(r) \/ Unfreeze(r) \/ Cite(r) \/ Edit(r) \/ \E q \in Revisions : Move(r, q),
               UNCHANGED others
        PROVE  Core'
    BY <2>2, OthersKeepCore
  <2>3. Core /\ UNCHANGED vars => Core'
    BY StutterKeepsCore
  <2> QED
    BY <2>1, <2>2, <2>3, OthersNeverChange DEF Next
<1>3. Core => TypeOK
  BY DEF Core
<1> QED
  BY <1>1, <1>2, <1>3, PTL DEF Spec
-----------------------------------------------------------------------------
\* Revisions numbered 1 to n are n revisions.
LEMMA LastOfNumbered ==
    ASSUME NEW f, NEW n \in 0..MaxRevision, \A r \in Revisions : f[r] # "absent" <=> r <= n
    PROVE  Cardinality({r \in Revisions : f[r] # "absent"}) = n
<1>1. {r \in Revisions : f[r] # "absent"} = 1..n
  BY MappingAssumption DEF Revisions
<1>2. Cardinality(1..n) = n
  BY FS_Interval
<1> QED
  BY <1>1, <1>2

\* A new lineage has no revision.
LEMMA InitNumber == Init => NumberInv /\ HashIsKept
<1> SUFFICES ASSUME Init PROVE NumberInv /\ HashIsKept
  OBVIOUS
<1>1. LastRevision = 0
  <2>1. \A r \in Revisions : status[r] # "absent" <=> r <= 0
    BY MappingAssumption DEF Init, Revisions
  <2> QED
    BY <2>1, LastOfNumbered, MappingAssumption DEF LastRevision
<1>2. Numbered
  BY <1>1, MappingAssumption DEF Init, Numbered, Revisions
<1>3. NewIsNext /\ WritesOpen /\ HashIsKept
  BY DEF Init, NewIsNext, WritesOpen, HashIsKept, NoTx
<1> QED
  BY <1>2, <1>3, InitCore DEF NumberInv

\* What keeps which revisions exist keeps their numbers.
LEMMA SameNumbers ==
    ASSUME Core, Numbered, status' \in [Revisions -> {"absent", "head", "frozen"}],
           \A r \in Revisions : status'[r] = "absent" <=> status[r] = "absent"
    PROVE  Numbered' /\ NextRevision' = NextRevision
<1>1. {r \in Revisions : status'[r] # "absent"} = {r \in Revisions : status[r] # "absent"}
  OBVIOUS
<1>2. LastRevision' = LastRevision
  BY <1>1 DEF LastRevision
<1> QED
  BY <1>2 DEF Numbered, NextRevision

\* The next revision does not exist yet.
LEMMA NextIsAbsent ==
    ASSUME Core, Numbered, LastRevision < MaxRevision
    PROVE  NextRevision \in Revisions /\ status[NextRevision] = "absent" /\ NextRevision # 0
<1>1. NextRevision \in Revisions
  BY NextRevisionIsBounded DEF Core
<1> QED
  BY <1>1, LastRevisionCounts DEF Numbered

\* An ingestion numbers its revision and finds it open; if nobody freezes what it is
\* writing, it is still open when it commits.
LEMMA IngestKeepsNumber ==
    ASSUME NumberInv, NEW s \in Sessions, Ingest(s), UNCHANGED others
    PROVE  NumberInv'
<1> USE DEF NumberInv
<1>1. Core'
  BY IngestKeepsCore
<1>2. tx \in [Sessions -> Tx] /\ status \in [Revisions -> {"absent", "head", "frozen"}]
  BY DEF Core, TypeOK
<1>3. \A t \in Sessions \ {s} : tx'[t] = tx[t]
  BY <1>2 DEF Ingest, Read, LockLineage, CurrentRevision, Delete, Insert, Commit, Abort, Rollback
<1>4. CASE UNCHANGED status /\ tx'[s].rev = tx[s].rev /\ tx'[s].new = tx[s].new
  BY <1>1, <1>3, <1>4 DEF Numbered, NewIsNext, WritesOpen, NextRevision, LastRevision
<1>5. CASE UNCHANGED status /\ tx'[s].rev = 0 /\ tx'[s].new = FALSE
  BY <1>1, <1>3, <1>5 DEF Numbered, NewIsNext, WritesOpen, NextRevision, LastRevision
<1>6. CASE Read(s) \/ LockLineage(s) \/ Delete(s) \/ Insert(s) \/ Abort(s)
  <2>1. CASE Read(s) \/ Abort(s)
    <3>1. UNCHANGED status
      BY <2>1 DEF Read, Abort, Rollback
    <3>2. tx'[s].rev = NoTx.rev /\ tx'[s].new = NoTx.new
      <4>1. CASE Read(s)
        BY <1>2, <4>1 DEF Read, NoTx
      <4>2. CASE Abort(s)
        BY <1>2, <4>2 DEF Abort, Rollback
      <4> QED BY <2>1, <4>1, <4>2
    <3>3. NoTx.rev = 0 /\ NoTx.new = FALSE
      BY DEF NoTx
    <3> QED BY <1>5, <3>1, <3>2, <3>3
  <2>2. CASE LockLineage(s)
    BY <1>2, <1>4, <2>2 DEF LockLineage, Tx
  <2>3. CASE Delete(s)
    BY <1>2, <1>4, <2>3 DEF Delete, Tx
  <2>4. CASE Insert(s)
    BY <1>2, <1>4, <2>4 DEF Insert, Tx
  <2> QED BY <1>6, <2>1, <2>2, <2>3, <2>4
<1>7. CASE CurrentRevision(s)
  <2>1. UNCHANGED status /\ tx[s].rev = 0
    BY <1>7 DEF CurrentRevision, At, Core, KnowsItsRevision
  <2>2. CASE \E r \in Revisions : Head(r) /\ tx' = [tx EXCEPT ![s].pc = "delete", ![s].rev = r]
    <3>1. PICK r \in Revisions : Head(r) /\ tx' = [tx EXCEPT ![s].pc = "delete", ![s].rev = r]
      BY <2>2
    <3>2. tx'[s].rev = r /\ tx'[s].new = tx[s].new
      BY <1>2, <3>1 DEF Tx
    <3>3. ~tx[s].new
      BY <2>1, LastRevisionCounts DEF NewIsNext
    <3> QED BY ZenonT(30), <1>1, <1>3, <2>1, <3>1, <3>2, <3>3
            DEF Numbered, NewIsNext, WritesOpen, NextRevision, LastRevision, Head
  <2>3. CASE /\ LastRevision < MaxRevision
             /\ tx' = [tx EXCEPT ![s].pc = "delete", ![s].rev = NextRevision, ![s].new = TRUE]
    <3>1. tx'[s].rev = NextRevision /\ status[NextRevision] = "absent"
      BY <1>2, <2>3, NextIsAbsent DEF Tx
    <3> QED BY <1>1, <1>3, <2>1, <3>1 DEF Numbered, NewIsNext, WritesOpen, NextRevision, LastRevision
  <2> QED BY <1>7, <2>2, <2>3 DEF CurrentRevision
<1>8. CASE Commit(s)
  <2>1. /\ tx'[s].rev = 0 /\ tx'[s].new = FALSE /\ tx[s].rev \in Revisions
        /\ \A t \in Sessions \ {s} : tx[t].rev = 0 /\ ~tx[t].new
    <3>1. tx[s].pc = "insert" /\ tx' = [tx EXCEPT ![s] = NoTx]
      BY <1>8 DEF Commit, At
    <3>2. \A t \in Sessions \ {s} : tx[t].rev = 0
      BY <3>1 DEF Core, OneWriter, KnowsItsRevision, Writing
    <3>3. \A t \in Sessions \ {s} : ~tx[t].new
      BY <3>2, LastRevisionCounts DEF NewIsNext
    <3>4. tx'[s] = NoTx
      BY <1>2, <3>1
    <3> QED BY <3>1, <3>2, <3>3, <3>4 DEF Core, KnowsItsRevision, NoTx
  <2>2. CASE ~tx[s].new
    BY <1>5, <1>8, <2>1, <2>2 DEF Commit
  <2>3. CASE tx[s].new
    <3>1. status' = [status EXCEPT ![NextRevision] = "head"] /\ NextRevision \in Revisions
      BY <1>8, <2>1, <2>3 DEF Commit, NewIsNext
    <3>2. \A r \in Revisions : status'[r] # "absent" <=> r <= NextRevision
      <4>1. NextRevision = LastRevision + 1
        BY DEF NextRevision
      <4> QED BY <1>2, <3>1, <4>1, LastRevisionCounts DEF Numbered, Revisions
    <3>3. LastRevision' = NextRevision
      <4>1. NextRevision \in 0..MaxRevision
        BY <3>1, MappingAssumption DEF Revisions
      <4> QED BY <3>2, <4>1, LastOfNumbered DEF LastRevision
    <3> QED BY <1>1, <1>3, <2>1, <3>2, <3>3 DEF Numbered, NewIsNext, WritesOpen
  <2> QED BY <2>2, <2>3
<1> QED
  BY <1>6, <1>7, <1>8 DEF Ingest

\* The others change which revisions are frozen, never which exist.
LEMMA OthersKeepNumber ==
    ASSUME "race" \notin others, NumberInv, NEW r \in Revisions,
           Freeze(r) \/ Unfreeze(r) \/ Cite(r) \/ Edit(r) \/ \E q \in Revisions : Move(r, q),
           UNCHANGED others
    PROVE  NumberInv'
<1> USE DEF NumberInv
<1>1. Core' /\ UNCHANGED tx
  BY OthersKeepCore DEF Freeze, Unfreeze, Cite, Edit, Move
<1>2. \A q \in Revisions : status'[q] = "absent" <=> status[q] = "absent"
  BY DEF Core, TypeOK, Freeze, Unfreeze, Cite, Edit, Move, Head
<1>3. Numbered' /\ NewIsNext'
  <2>1. status' \in [Revisions -> {"absent", "head", "frozen"}]
    BY <1>1 DEF Core, TypeOK
  <2> QED
    BY <1>1, <1>2, <2>1, SameNumbers DEF NewIsNext
<1>4. WritesOpen'
  <2>1. CASE Freeze(r)
    BY <1>1, <2>1 DEF Freeze, Writers, May, WritesOpen, Core, TypeOK
  <2>2. CASE Unfreeze(r)
    BY <1>1, <2>2 DEF Unfreeze, WritesOpen, Core, TypeOK
  <2>3. CASE UNCHANGED status
    BY <1>1, <2>3 DEF WritesOpen
  <2> QED BY <2>1, <2>2, <2>3 DEF Cite, Edit, Move
<1> QED
  BY <1>1, <1>3, <1>4

LEMMA StepKeepsNumber ==
    ASSUME "race" \notin others, NumberInv, [Next]_vars
    PROVE  NumberInv'
<1>1. ASSUME NEW s \in Sessions, Ingest(s), UNCHANGED others PROVE NumberInv'
  BY <1>1, IngestKeepsNumber
<1>2. ASSUME NEW r \in Revisions,
             Freeze(r) \/ Unfreeze(r) \/ Cite(r) \/ Edit(r) \/ \E q \in Revisions : Move(r, q),
             UNCHANGED others
      PROVE  NumberInv'
  BY <1>2, OthersKeepNumber
<1>3. CASE UNCHANGED vars
  BY <1>3, StutterKeepsCore
  DEF vars, NumberInv, Numbered, NewIsNext, WritesOpen, NextRevision, LastRevision
<1> QED
  BY <1>1, <1>2, <1>3, OthersNeverChange DEF Next

\* Where a revision is frozen, no step changes its links: a transaction finds its
\* revision open and nobody freezes it before it commits; by hand, the trigger holds.
LEMMA StepIsReadOnly ==
    ASSUME "race" \notin others, "move" \notin others, NumberInv, [Next]_vars,
           NEW r \in Revisions, status[r] = "frozen"
    PROVE  content'[r] = content[r]
<1> USE DEF NumberInv
<1>1. ASSUME NEW s \in Sessions, Commit(s) PROVE content'[r] = content[r]
  <2>1. tx[s].rev \in Revisions /\ tx[s].rev # 0
    BY <1>1, MappingAssumption DEF Commit, At, Core, KnowsItsRevision, Revisions
  <2>2. tx[s].rev # r
    BY <2>1 DEF WritesOpen
  <2> QED BY <1>1, <2>2 DEF Commit, Core, TypeOK
<1>2. ASSUME NEW q \in Revisions, Edit(q) PROVE content'[r] = content[r]
  BY <1>2 DEF Edit, NotFrozen, Core, TypeOK
<1>3. CASE UNCHANGED content
  BY <1>3
<1> QED
  BY <1>1, <1>2, <1>3
  DEF Next, vars, Ingest, Read, LockLineage, CurrentRevision, Delete, Insert, Abort, Rollback,
      Freeze, Unfreeze, Cite, Move, May

\* 0011: "une revision gelee est en lecture seule", whatever is edited by hand, when no
\* revision is frozen under a transaction that writes it and no link is moved.
THEOREM ReadOnly == Spec => FrozenIsReadOnly
<1> DEFINE Inv == Never({"race"}) => NumberInv
           ReadOnlyStep == Never({"race", "move"}) =>
               \A r \in Revisions : status[r] = "frozen" => content'[r] = content[r]
<1>1. Init => Inv
  BY InitNumber
<1>2. Inv /\ [Next]_vars => Inv'
  BY StepKeepsNumber, OthersNeverChange DEF Never
<1>3. Inv /\ [Next]_vars => [ReadOnlyStep]_vars
  BY StepIsReadOnly DEF Never
<1> QED
  BY <1>1, <1>2, <1>3, PTL DEF Spec, FrozenIsReadOnly

\* What is cited stays frozen, and holds what it was frozen with.
CitedInv == NumberInv /\ HashIsKept /\ (\A r \in cited : status[r] = "frozen")

LEMMA StepKeepsCited ==
    ASSUME "race" \notin others, "move" \notin others, "unfreeze" \notin others,
           CitedInv, [Next]_vars
    PROVE  CitedInv'
<1> USE DEF CitedInv
<1>1. NumberInv' /\ \A r \in Revisions : status[r] = "frozen" => content'[r] = content[r]
  BY StepKeepsNumber, StepIsReadOnly
<1>2. ASSUME NEW r \in Revisions, Freeze(r) PROVE CitedInv'
  BY <1>1, <1>2 DEF Freeze, HashIsKept, NumberInv, Core, TypeOK
<1>3. ASSUME NEW r \in Revisions, Cite(r) PROVE CitedInv'
  BY <1>1, <1>3 DEF Cite, Citable, HashIsKept
<1>4. ASSUME UNCHANGED <<hash, cited>>, \A r \in Revisions : status'[r] = "frozen" <=> status[r] = "frozen"
      PROVE  CitedInv'
  BY <1>1, <1>4 DEF HashIsKept, NumberInv, Core, TypeOK
<1>5. ASSUME NEW s \in Sessions, Ingest(s), UNCHANGED others PROVE CitedInv'
  <2>1. CASE Commit(s)
    <3>1. \A r \in Revisions : status'[r] = "frozen" <=> status[r] = "frozen"
      <4>1. tx[s].rev \in Revisions /\ tx[s].rev # 0
        BY <2>1, MappingAssumption DEF Commit, At, NumberInv, Core, KnowsItsRevision, Revisions
      <4>2. status[tx[s].rev] # "frozen"
        BY <4>1 DEF NumberInv, WritesOpen
      <4> QED BY <2>1, <4>2 DEF Commit, NumberInv, Core, TypeOK
    <3> QED BY <1>4, <2>1, <3>1 DEF Commit
  <2>2. CASE UNCHANGED <<status, hash, cited>>
    BY <1>4, <2>2
  <2> QED BY <1>5, <2>1, <2>2
          DEF Ingest, Read, LockLineage, CurrentRevision, Delete, Insert, Abort, Rollback
<1>6. ASSUME NEW r \in Revisions, Edit(r) PROVE CitedInv'
  BY <1>4, <1>6 DEF Edit
<1>7. CASE UNCHANGED vars
  BY <1>4, <1>7 DEF vars
<1> QED
  BY <1>2, <1>3, <1>5, <1>6, <1>7, OthersNeverChange DEF Next, Unfreeze, Move, May

\* A published comparison can be computed again: the revision it cites is frozen and
\* still holds what its hash was taken from, when besides no revision is reopened.
THEOREM Reproducible == Spec => []CitedIsReproducible
<1> DEFINE Inv == Never({"race", "move", "unfreeze"}) => CitedInv
<1>1. Init => Inv
  BY InitNumber DEF CitedInv, Init
<1>2. Inv /\ [Next]_vars => Inv'
  BY StepKeepsCited, OthersNeverChange DEF Never
<1>3. Inv => CitedIsReproducible
  BY DEF CitedInv, HashIsKept, CitedIsReproducible, NumberInv, Core, TypeOK
<1> QED
  BY <1>1, <1>2, <1>3, PTL DEF Spec
==============================================================================

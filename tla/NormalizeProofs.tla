--------------------------- MODULE NormalizeProofs ---------------------------
(****************************************************************************)
(* For every sequence of documents, committed in any order or never, and    *)
(* any number of runs of Normalize, forced or not, that end or die: the     *)
(* votes kept are those of raw.record.                                      *)
(*                                                                          *)
(* The argument is about watermarks.  Records are only added, so that two   *)
(* moments with the same watermark have the same records, and so has every  *)
(* moment between them: what a run read in between is what it would read    *)
(* now.                                                                     *)
(****************************************************************************)
EXTENDS Normalize, FiniteSetTheorems, WellFoundedInduction, TLAPS

Votes(c) == BallotsOf(Latest(c), Persons(c), Bodies(c))
GroupVotes(c) == GroupBallotsOf(Latest(c), Bodies(c))

\* The watermark x is that of raw.record.
Fresh(kind, x) == x = RawWatermark(kind)

\* x is no watermark, or was that of raw.record at some moment.
Past(kind, x) == x = Never \/ \E c \in SUBSET committed : x = WatermarkOf(kind, c)

Documents == DOMAIN Publications

LEMMA RecordsAreFinite ==
  ASSUME NEW kind \in Scopes, NEW c \in SUBSET Documents
  PROVE  IsFiniteSet(Records(kind, c)) /\ Cardinality(Records(kind, c)) \in Nat
<1> DEFINE Of1(i) == {i} \X (IF kind = "scrutins" THEN DOMAIN Publications[i].rows
                                                ELSE Publications[i].bodies)
<1>1. IsFiniteSet(Of(kind, c))
  <2>1. IsFiniteSet(1..Len(Publications))
    BY NormalizeAssumption, FS_Interval
  <2>2. Of(kind, c) \subseteq 1..Len(Publications)
    BY NormalizeAssumption DEF Of, Documents
  <2>3. QED
    BY <2>1, <2>2, FS_Subset
<1>2. ASSUME NEW i \in Of(kind, c) PROVE IsFiniteSet(Of1(i))
  <2>1. i \in Documents /\ Publications[i].kind = kind
    BY DEF Of
  <2>2. IsFiniteSet(IF kind = "scrutins" THEN DOMAIN Publications[i].rows ELSE Publications[i].bodies)
    BY <2>1, NormalizeAssumption DEF Scopes, Documents
  <2>3. IsFiniteSet({i})
    BY FS_Singleton
  <2>4. QED
    BY <2>2, <2>3, FS_Product
<1>3. IsFiniteSet({Of1(i) : i \in Of(kind, c)})
  <2> DEFINE f == [i \in Of(kind, c) |-> Of1(i)]
             T == {Of1(i) : i \in Of(kind, c)}
  <2> HIDE DEF Of1
  <2>1. f \in Surjection(Of(kind, c), T)
    <3>1. f \in [Of(kind, c) -> T] /\ \A t \in T : \E i \in Of(kind, c) : f[i] = t
      OBVIOUS
    <3> HIDE DEF f, T
    <3>2. QED
      BY <3>1 DEF Surjection
  <2> HIDE DEF f, T
  <2>2. IsFiniteSet(T)
    BY <1>1, <2>1, FS_Surjection
  <2>3. QED
    BY <2>2 DEF T
<1>4. Records(kind, c) = UNION {Of1(i) : i \in Of(kind, c)}
  BY DEF Records
<1>5. IsFiniteSet(Records(kind, c))
  <2>1. \A T \in {Of1(i) : i \in Of(kind, c)} : IsFiniteSet(T)
    BY <1>2
  <2> HIDE DEF Of1
  <2>2. QED
    BY <1>3, <1>4, <2>1, FS_UNION
<1>6. QED
  BY <1>5, FS_CardinalityType

LEMMA RecordsGrow ==
  ASSUME NEW kind, NEW c, NEW d, c \subseteq d
  PROVE  Records(kind, c) \subseteq Records(kind, d)
  BY DEF Records, Of

\* Two moments with the same watermark have the same records, and so has any between them.
LEMMA SameRecords ==
  ASSUME NEW kind \in Scopes, NEW c \in SUBSET Documents, NEW d \in SUBSET Documents,
         NEW e \in SUBSET Documents, c \subseteq d, d \subseteq e,
         WatermarkOf(kind, c) = WatermarkOf(kind, e)
  PROVE  /\ Records(kind, c) = Records(kind, d) /\ Records(kind, d) = Records(kind, e)
         /\ WatermarkOf(kind, d) = WatermarkOf(kind, e)
<1>1. Cardinality(Records(kind, c)) = Cardinality(Records(kind, e))
  BY DEF WatermarkOf
<1>2. IsFiniteSet(Records(kind, e)) /\ Records(kind, c) \subseteq Records(kind, e)
  BY RecordsAreFinite, RecordsGrow
<1>3. Records(kind, c) = Records(kind, e)
  BY <1>1, <1>2, FS_Subset
<1>4. Records(kind, c) \subseteq Records(kind, d) /\ Records(kind, d) \subseteq Records(kind, e)
  BY RecordsGrow
<1>5. Records(kind, d) = Records(kind, e)
  BY <1>3, <1>4
<1>6. WatermarkOf(kind, d) = WatermarkOf(kind, e)
  BY <1>5 DEF WatermarkOf
<1>7. QED
  BY <1>3, <1>5, <1>6

LEMMA RecordsOfRows ==
  ASSUME NEW c \in SUBSET Documents, NEW i, NEW k
  PROVE  /\ <<i, k>> \in Records("scrutins", c) <=> i \in Of("scrutins", c) /\ k \in DOMAIN Publications[i].rows
         /\ <<i, k>> \in Records("amo", c) <=> i \in Of("amo", c) /\ k \in Publications[i].bodies
  BY DEF Records

\* The records say everything that Normalize takes from raw.record.
LEMMA RecordsSayAll ==
  ASSUME NEW c \in SUBSET Documents, NEW d \in SUBSET Documents, c \subseteq d
  PROVE  /\ Records("scrutins", c) = Records("scrutins", d) => Latest(c) = Latest(d)
         /\ Records("amo", c) = Records("amo", d) =>
               Bodies(c) = Bodies(d) /\ Persons(c) = Persons(d)
<1>1. ASSUME Records("scrutins", c) = Records("scrutins", d) PROVE Latest(c) = Latest(d)
  <2> DEFINE With(e, k) == {i \in Of("scrutins", e) : k \in DOMAIN Publications[i].rows}
  <2>1. \A k : With(c, k) = With(d, k)
    BY <1>1, RecordsOfRows
  <2>2. \A e : Keys(e) = {k \in Keys(e) : With(e, k) # {}}
    BY DEF Keys
  <2>3. Keys(c) = Keys(d)
    <3>1. \A e, k : k \in Keys(e) <=> With(e, k) # {}
      BY DEF Keys
    <3> HIDE DEF With
    <3>2. QED
      BY <2>1, <3>1
  <2>4. \A e : Latest(e) = [k \in Keys(e) |-> Publications[Max(With(e, k))].rows[k]]
    BY DEF Latest
  <2> HIDE DEF With
  <2>5. QED
    BY <2>1, <2>3, <2>4
<1>2. ASSUME Records("amo", c) = Records("amo", d)
      PROVE  Bodies(c) = Bodies(d) /\ Persons(c) = Persons(d)
  <2>1. Bodies(c) = Bodies(d)
    <3>1. \A k : k \in Bodies(c) <=> k \in Bodies(d)
      <4>1. \A e \in {c, d} : \A k : k \in Bodies(e) <=> \E i : <<i, k>> \in Records("amo", e)
        <5>1. SUFFICES ASSUME NEW e \in {c, d}, NEW k
                       PROVE  k \in Bodies(e) <=> \E i : <<i, k>> \in Records("amo", e)
          OBVIOUS
        <5>2. k \in Bodies(e) <=> \E i : i \in Of("amo", e) /\ k \in Publications[i].bodies
          BY DEF Bodies
        <5>3. \A i : <<i, k>> \in Records("amo", e) <=> i \in Of("amo", e) /\ k \in Publications[i].bodies
          BY RecordsOfRows
        <5>4. QED
          BY <5>2, <5>3
      <4>2. QED
        BY <1>2, <4>1
    <3>2. QED
      BY <3>1
  <2>2. Persons(c) \subseteq Persons(d)
    BY DEF Persons, Of
  <2>3. ASSUME NEW i \in Of("amo", d), NEW p \in Publications[i].persons PROVE i \in Of("amo", c)
    <3>1. i \in Documents /\ Publications[i].kind = "amo"
      BY DEF Of
    <3>2. PICK k \in Publications[i].bodies : TRUE
      BY <3>1, <2>3, NormalizeAssumption DEF Documents
    <3>3. <<i, k>> \in Records("amo", d)
      BY <3>2, RecordsOfRows
    <3>4. QED
      BY <1>2, <3>3, RecordsOfRows
  <2>4. Persons(d) \subseteq Persons(c)
    BY <2>3 DEF Persons
  <2>5. QED
    BY <2>1, <2>2, <2>4
<1>3. QED
  BY <1>1, <1>2
----------------------------------------------------------------------------
(* The invariant                                                            *)

\* the steps after a watermark has been read, and compared with the recorded one
AfterReset == {"bodies", "record bodies", "actors", "mandates", "votes"}
VotesRead == {"scrutins", "group ballots"}
Ending == {"dossiers", "done"}
Decided == {"reset"} \union AfterReset \union VotesRead \union Ending
Seen(s) == Decided \union (IF s = "amo" THEN {"diff bodies"}
                           ELSE {"diff scrutins", "read bodies", "diff bodies"})
Compared(s) == Decided \union (IF s = "amo" THEN {} ELSE {"read bodies", "diff bodies"})
BodiesRecorded == {"actors", "mandates", "votes"} \union VotesRead \union Ending
BodiesRead == {"record bodies", "actors", "mandates", "votes"} \union VotesRead
PersonsRead == {"mandates", "votes"} \union VotesRead
Steps == Decided \union {"idle", "read scrutins", "diff scrutins", "read bodies", "diff bodies"}

\* The variables of Normalize are a record, its watermarks and those of the database
\* functions of the scopes.
Shape ==
    /\ pc \in Steps
    /\ my = [force |-> my.force, seen |-> my.seen, same |-> my.same,
             bodies |-> my.bodies, persons |-> my.persons, all |-> my.all]
    /\ my.seen = [s \in Scopes |-> my.seen[s]]
    /\ my.same \in [Scopes -> BOOLEAN]
    /\ watermark = [s \in Scopes |-> watermark[s]]
    /\ DOMAIN my.all \subseteq Keys(committed)
    /\ pc = "group ballots" => DOMAIN my.all \subseteq DOMAIN scrutin

\* A watermark is that of a moment past, which a run reads after its beginning, and
\* after the moment that the one recorded before it stands for.
WaterInv ==
    /\ \A s \in Scopes : Past(s, watermark[s]) /\ Past(s, my.seen[s])
    /\ \A s \in Scopes : pc \in Seen(s) =>
          /\ committed = before => Fresh(s, my.seen[s])
          /\ Fresh(s, watermark[s]) => Fresh(s, my.seen[s])
    /\ \A s \in Scopes : pc \in Compared(s) /\ my.same[s] => my.seen[s] = watermark[s]
    /\ pc \in BodiesRecorded => watermark["amo"] = my.seen["amo"]
    /\ pc \in Ending => watermark["scrutins"] = my.seen["scrutins"]

\* What was read after a watermark that is still that of raw.record is what would be
\* read now.
ReadInv ==
    /\ Fresh("amo", my.seen["amo"]) =>
          /\ pc \in BodiesRead => my.bodies = Bodies(committed)
          /\ pc \in PersonsRead => my.persons = Persons(committed)
    /\ Fresh("scrutins", my.seen["scrutins"]) /\ pc \in VotesRead => my.all = Latest(committed)

AllFresh == \A s \in Scopes : Fresh(s, watermark[s])

\* Under watermarks that are those of raw.record, the votes of groups are among its
\* own, even while they are inserted, and complete when there are individual votes.
VotesInv ==
    /\ AllFresh =>
          /\ ballotGroup \subseteq GroupVotes(committed)
          /\ ballot # {} \/ pc \in Ending =>
                ballot = Votes(committed) /\ ballotGroup = GroupVotes(committed)
    /\ ~SkipBallots =>
          /\ pc \in AfterReset => ballot = {} /\ ballotGroup = {}
          /\ pc \in VotesRead =>
                ballot = {} /\ ballotGroup \subseteq GroupBallotsOf(my.all, my.bodies)

DerivedInv ==
    /\ pc \in {"votes", "dossiers", "done"} \union VotesRead => "mandates" \in derived
    /\ pc = "done" => "dossiers" \in derived

NormalizeInv == TypeOK /\ Shape /\ WaterInv /\ ReadInv /\ VotesInv /\ DerivedInv

\* The invariant gives the properties.
LEMMA NoRecordNoVote ==
  ASSUME NEW c \in SUBSET Documents, WatermarkOf("scrutins", c)[1] = 0
  PROVE  Votes(c) = {} /\ GroupVotes(c) = {}
<1>1. Records("scrutins", c) = {}
  <2>1. IsFiniteSet(Records("scrutins", c)) /\ Cardinality(Records("scrutins", c)) = 0
    BY RecordsAreFinite DEF WatermarkOf, Scopes
  <2>2. QED
    BY <2>1, FS_EmptySet
<1>2. Keys(c) = {}
  <2>1. ASSUME NEW k \in Keys(c) PROVE FALSE
    <3>1. PICK i \in Of("scrutins", c) : k \in DOMAIN Publications[i].rows
      BY DEF Keys
    <3>2. <<i, k>> \in Records("scrutins", c)
      BY <3>1, RecordsOfRows
    <3>3. QED
      BY <1>1, <3>2
  <2>2. QED
    BY <2>1
<1>3. DOMAIN Latest(c) = {}
  BY <1>2 DEF Latest
<1>4. QED
  BY <1>3 DEF Votes, GroupVotes, BallotsOf, GroupBallotsOf

LEMMA InvIsEnough == NormalizeInv => VotesAreThoseOfRaw /\ WatermarkIsEarned
<1> SUFFICES ASSUME NormalizeInv PROVE VotesAreThoseOfRaw /\ WatermarkIsEarned
  OBVIOUS
<1>1. VotesAreThoseOfRaw
  <2> SUFFICES ASSUME pc = "done", committed = before
               PROVE  /\ ballot = Votes(committed) /\ ballotGroup = GroupVotes(committed)
                      /\ derived = {"mandates", "dossiers"}
    BY DEF VotesAreThoseOfRaw, Votes, GroupVotes
  <2>1. \A s \in Scopes : pc \in Seen(s) /\ watermark[s] = my.seen[s]
    BY DEF Scopes, Seen, Decided, Ending, BodiesRecorded, NormalizeInv, WaterInv
  <2>2. AllFresh
    BY <2>1 DEF NormalizeInv, WaterInv, AllFresh
  <2>3. QED
    BY <2>2 DEF NormalizeInv, VotesInv, DerivedInv, TypeOK, Ending
<1>2. WatermarkIsEarned
  BY DEF WatermarkIsEarned, NormalizeInv, VotesInv, AllFresh, Fresh, Votes
<1>3. QED
  BY <1>1, <1>2

LEMMA InvInitially == Init => NormalizeInv
<1> SUFFICES ASSUME Init PROVE NormalizeInv
  OBVIOUS
<1> USE DEF Init, Nothing
<1>1. TypeOK
  BY NormalizeAssumption DEF TypeOK
<1>2. Shape /\ DerivedInv
  BY DEF Shape, DerivedInv, Steps, VotesRead, AfterReset, Ending, Decided
<1>3. WaterInv /\ ReadInv
  BY DEF WaterInv, ReadInv, Past, Seen, Compared, BodiesRecorded, BodiesRead, PersonsRead,
         VotesRead, AfterReset, Ending, Decided
<1>4. VotesInv
  BY DEF VotesInv, VotesRead, AfterReset, Ending
<1>5. QED
  BY <1>1, <1>2, <1>3, <1>4 DEF NormalizeInv
----------------------------------------------------------------------------
(* Documents arrive                                                         *)

LEMMA CommittedAreDocuments == TypeOK => committed \subseteq Documents /\ before \subseteq Documents
  BY NormalizeAssumption DEF TypeOK, Documents

\* A watermark of the past that is that of raw.record after a commit was so before it,
\* and the document committed holds no record of that kind.
LEMMA StillFresh ==
  ASSUME TypeOK, TypeOK', committed \subseteq committed', NEW s \in Scopes, NEW x, Past(s, x)
  PROVE  /\ Past(s, x)'
         /\ Fresh(s, x)' =>
               /\ Fresh(s, x) /\ RawWatermark(s)' = RawWatermark(s)
               /\ s = "scrutins" => Latest(committed') = Latest(committed)
               /\ s = "amo" => Bodies(committed') = Bodies(committed) /\ Persons(committed') = Persons(committed)
<1>1. committed \in SUBSET Documents /\ committed' \in SUBSET Documents
  BY CommittedAreDocuments, NormalizeAssumption DEF TypeOK, Documents
<1>2. Past(s, x)'
  BY DEF Past
<1>3. ASSUME Fresh(s, x)'
      PROVE  /\ Fresh(s, x) /\ RawWatermark(s)' = RawWatermark(s)
             /\ Records(s, committed) = Records(s, committed')
  <2>1. x = WatermarkOf(s, committed')
    BY <1>3 DEF Fresh, RawWatermark
  <2>2. x # Never
    <3>1. Cardinality(Records(s, committed')) \in Nat
      BY <1>1, RecordsAreFinite
    <3>2. QED
      BY <2>1, <3>1 DEF WatermarkOf, Never
  <2>3. PICK c \in SUBSET committed : x = WatermarkOf(s, c)
    BY <2>2 DEF Past
  <2>4. /\ Records(s, committed) = Records(s, committed')
        /\ WatermarkOf(s, committed) = WatermarkOf(s, committed')
    <3>1. /\ c \in SUBSET Documents /\ c \subseteq committed
          /\ WatermarkOf(s, c) = WatermarkOf(s, committed')
      BY <1>1, <2>1, <2>3
    <3>2. QED
      BY <1>1, <3>1, SameRecords
  <2>5. QED
    BY <2>1, <2>4 DEF Fresh, RawWatermark
<1>4. QED
  BY <1>1, <1>2, <1>3, RecordsSayAll

LEMMA CommitType ==
  ASSUME TypeOK, NEW i \in Documents, CommitExtract(i)
  PROVE  TypeOK' /\ committed \subseteq committed' /\ committed' # before'
<1>1. /\ i \in (1..begun) \ committed /\ committed' = committed \union {i}
      /\ UNCHANGED <<begun, core, pc, my, before, runs>>
  BY DEF CommitExtract
<1>2. Keys(committed) \subseteq Keys(committed') /\ Persons(committed) \subseteq Persons(committed')
      /\ Bodies(committed) \subseteq Bodies(committed')
  BY <1>1 DEF Keys, Persons, Bodies, Of
<1>3. QED
  BY <1>1, <1>2 DEF TypeOK, core

LEMMA CommitStep ==
  ASSUME NormalizeInv, NEW i \in Documents, CommitExtract(i)
  PROVE  NormalizeInv'
<1> USE DEF NormalizeInv
<1>1. UNCHANGED <<begun, scrutin, ballot, ballotGroup, derived, watermark, pc, my, before, runs>>
  BY DEF CommitExtract, core
<1>2. TypeOK' /\ committed \subseteq committed' /\ committed' # before'
  BY CommitType
<1>3. Keys(committed) \subseteq Keys(committed')
  BY <1>2 DEF Keys, Of
<1>4. Shape'
  BY <1>1, <1>3 DEF Shape
<1>5. ASSUME NEW s \in Scopes, NEW x, Past(s, x)
      PROVE  /\ Past(s, x)'
             /\ Fresh(s, x)' =>
                   /\ Fresh(s, x) /\ RawWatermark(s)' = RawWatermark(s)
                   /\ s = "scrutins" => Latest(committed') = Latest(committed)
                   /\ s = "amo" => Bodies(committed') = Bodies(committed) /\ Persons(committed') = Persons(committed)
  BY <1>2, <1>5, StillFresh
<1>6. WaterInv'
  <2>1. ASSUME NEW s \in Scopes PROVE Past(s, watermark[s])' /\ Past(s, my.seen[s])'
    BY <1>1, <1>5 DEF WaterInv
  <2>2. ASSUME NEW s \in Scopes, pc \in Seen(s), Fresh(s, watermark[s])'
        PROVE  Fresh(s, my.seen[s])'
    <3>1. Fresh(s, watermark[s]) /\ RawWatermark(s)' = RawWatermark(s)
      BY <1>1, <1>5, <2>2 DEF WaterInv
    <3>2. QED
      BY <1>1, <2>2, <3>1 DEF WaterInv, Fresh
  <2>3. QED
    BY <1>1, <1>2, <2>1, <2>2 DEF WaterInv
<1>7. ReadInv'
  <2>1. \A s \in Scopes : Past(s, my.seen[s])
    BY DEF WaterInv
  <2>2. "amo" \in Scopes /\ "scrutins" \in Scopes
    BY DEF Scopes
  <2>3. ASSUME Fresh("amo", my.seen["amo"])'
        PROVE  /\ Fresh("amo", my.seen["amo"])
               /\ Bodies(committed') = Bodies(committed) /\ Persons(committed') = Persons(committed)
    BY <1>1, <1>5, <2>1, <2>2, <2>3
  <2>4. ASSUME Fresh("scrutins", my.seen["scrutins"])'
        PROVE  Fresh("scrutins", my.seen["scrutins"]) /\ Latest(committed') = Latest(committed)
    BY <1>1, <1>5, <2>1, <2>2, <2>4
  <2>5. QED
    BY <1>1, <2>3, <2>4 DEF ReadInv
<1>8. VotesInv'
  <2>1. ASSUME AllFresh'
        PROVE  AllFresh /\ Votes(committed') = Votes(committed) /\ GroupVotes(committed') = GroupVotes(committed)
    <3>1. ASSUME NEW s \in Scopes
          PROVE  /\ Fresh(s, watermark[s])
                 /\ s = "scrutins" => Latest(committed') = Latest(committed)
                 /\ s = "amo" => Bodies(committed') = Bodies(committed) /\ Persons(committed') = Persons(committed)
      BY <1>1, <1>5, <2>1 DEF WaterInv, AllFresh
    <3>2. "amo" \in Scopes /\ "scrutins" \in Scopes
      BY DEF Scopes
    <3>3. QED
      BY <3>1, <3>2 DEF AllFresh, Votes, GroupVotes
  <2>2. SkipBallots' = SkipBallots
    BY <1>1 DEF SkipBallots
  <2>3. QED
    BY <1>1, <2>1, <2>2 DEF VotesInv
<1>9. DerivedInv'
  BY <1>1 DEF DerivedInv
<1>10. QED
  BY <1>2, <1>4, <1>6, <1>7, <1>8, <1>9
----------------------------------------------------------------------------
(* The decision                                                             *)

\* While no document arrives, a watermark of the past stays one, and a fresh one fresh.
LEMMA NothingArrives ==
  ASSUME UNCHANGED committed
  PROVE  /\ \A s \in Scopes : \A x : (Past(s, x)' <=> Past(s, x)) /\ (Fresh(s, x)' <=> Fresh(s, x))
         /\ \A s : RawWatermark(s)' = RawWatermark(s)
<1>1. \A s \in Scopes : \A x : Past(s, x)' <=> Past(s, x)
  BY DEF Past
<1>2. \A s : RawWatermark(s)' = RawWatermark(s)
  BY DEF RawWatermark
<1>3. QED
  BY <1>1, <1>2 DEF Fresh

LEMMA ExtractStep ==
  ASSUME NormalizeInv, Extract
  PROVE  NormalizeInv'
<1> USE DEF NormalizeInv
<1>1. UNCHANGED <<committed, scrutin, ballot, ballotGroup, derived, watermark, pc, my, before, runs>>
  BY DEF Extract, core
<1>2. TypeOK'
  BY <1>1, NormalizeAssumption DEF TypeOK, Extract
<1>3. Shape' /\ DerivedInv'
  BY <1>1 DEF Shape, DerivedInv
<1>4. WaterInv'
  BY <1>1, NothingArrives DEF WaterInv
<1>5. ReadInv'
  BY <1>1, NothingArrives DEF ReadInv, Fresh
<1>6. VotesInv'
  BY <1>1, NothingArrives DEF VotesInv, AllFresh, SkipBallots, Fresh
<1>7. QED
  BY <1>2, <1>3, <1>4, <1>5, <1>6

LEMMA StartStep ==
  ASSUME NormalizeInv, Start
  PROVE  NormalizeInv'
<1> USE DEF NormalizeInv
<1>1. /\ UNCHANGED <<begun, committed, scrutin, ballot, ballotGroup, derived, watermark>>
      /\ pc' = "read scrutins" /\ runs' = runs + 1 /\ before' = committed /\ runs < MaxRuns
  BY DEF Start, Goes, raw, core
<1>2. /\ my'.seen = [s \in Scopes |-> Never] /\ my'.same = [s \in Scopes |-> FALSE]
      /\ my'.bodies = {} /\ my'.persons = {} /\ my'.all = <<>>
      /\ my' = [force |-> my'.force, seen |-> my'.seen, same |-> my'.same,
                bodies |-> my'.bodies, persons |-> my'.persons, all |-> my'.all]
  BY DEF Start, Nothing
<1>3. TypeOK'
  <2>1. runs' \in 0..MaxRuns
    <3>1. MaxRuns \in Nat /\ runs \in 0..MaxRuns
      BY NormalizeAssumption DEF TypeOK
    <3>2. runs' = runs + 1 /\ runs < MaxRuns
      BY <1>1
    <3>3. QED
      BY <3>1, <3>2
  <2>2. QED
    BY <1>1, <1>2, <2>1 DEF TypeOK
<1>4. Shape' /\ DerivedInv'
  <2>1. DOMAIN my'.all = {} /\ my'.same \in [Scopes -> BOOLEAN]
        /\ my'.seen = [s \in Scopes |-> my'.seen[s]]
    BY <1>2
  <2>2. QED
    BY <1>1, <1>2, <2>1 DEF Shape, DerivedInv, Steps, VotesRead, AfterReset, Ending, Decided
<1>5. WaterInv'
  <2>1. \A s \in Scopes : Past(s, watermark[s])' /\ Past(s, my.seen[s])'
    BY ZenonT(30), <1>1, <1>2, NothingArrives DEF WaterInv, Past
  <2>2. QED
    BY <1>1, <2>1 DEF WaterInv, Seen, Compared, BodiesRecorded, VotesRead, AfterReset, Ending, Decided
<1>6. ReadInv'
  BY <1>1 DEF ReadInv, BodiesRead, PersonsRead, VotesRead
<1>7. VotesInv'
  BY <1>1, NothingArrives DEF VotesInv, AllFresh, Fresh, VotesRead, AfterReset, Ending
<1>8. QED
  BY <1>3, <1>4, <1>5, <1>6, <1>7

\* Between the beginning of a run and its reset, nothing but its variables move.
LEMMA DecideStep ==
  ASSUME NormalizeInv, Decide
  PROVE  NormalizeInv'
<1> USE DEF NormalizeInv
<1>1. UNCHANGED <<begun, committed, scrutin, ballot, ballotGroup, derived, watermark, before, runs>>
  BY DEF Decide, ReadWatermark, Diff, raw, core
<1>2. /\ my'.bodies = my.bodies /\ my'.persons = my.persons /\ my'.all = my.all
      /\ pc \in {"read scrutins", "diff scrutins", "read bodies", "diff bodies"}
      /\ pc' \in {"diff scrutins", "read bodies", "diff bodies", "reset"}
  BY DEF Decide, ReadWatermark, Diff, Local, Goes, Shape
<1>3. TypeOK'
  BY <1>1, <1>2 DEF TypeOK
<1>4. Shape' /\ WaterInv'
  <2>1. ASSUME NEW s \in Scopes, NEW to, ReadWatermark(s, pc, to),
               pc = (IF s = "amo" THEN "read bodies" ELSE "read scrutins"),
               pc' = (IF s = "amo" THEN "diff bodies" ELSE "diff scrutins")
        PROVE  Shape' /\ WaterInv'
    <3>1. my' = [my EXCEPT !.seen = [my.seen EXCEPT ![s] = RawWatermark(s)]]
      BY <2>1 DEF ReadWatermark, Local
    <3>2. /\ my'.seen = [my.seen EXCEPT ![s] = RawWatermark(s)] /\ my'.same = my.same
          /\ my' = [force |-> my'.force, seen |-> my'.seen, same |-> my'.same,
                    bodies |-> my'.bodies, persons |-> my'.persons, all |-> my'.all]
      BY <3>1 DEF Shape
    <3>3. my'.seen[s] = RawWatermark(s) /\ \A u \in Scopes \ {s} : my'.seen[u] = my.seen[u]
      BY <3>2 DEF Shape
    <3>4. Past(s, RawWatermark(s))
      BY DEF Past, RawWatermark
    <3>5. Shape'
      BY <1>1, <1>2, <2>1, <3>2 DEF Shape, Steps, Decided
    <3>6. \A u \in Scopes : Past(u, watermark[u])' /\ Past(u, my.seen[u])'
      BY <1>1, <3>3, <3>4, NothingArrives DEF WaterInv
    <3>7. ASSUME NEW u \in Scopes, pc' \in Seen(u)
          PROVE  /\ (committed = before)' => Fresh(u, my.seen[u])'
                 /\ Fresh(u, watermark[u])' => Fresh(u, my.seen[u])'
      <4>1. CASE u = s
        BY <1>1, <3>3, <4>1 DEF Fresh, RawWatermark
      <4>2. CASE u # s
        <5>1. pc \in Seen(u) /\ my'.seen[u] = my.seen[u]
          <6>1. u = "scrutins" /\ s = "amo"
            <7>1. CASE s = "amo"
              BY <4>2, <7>1 DEF Scopes
            <7>2. CASE s = "scrutins"
              <8>1. u = "amo" /\ pc' = "diff scrutins"
                BY <2>1, <4>2, <7>2 DEF Scopes
              <8>2. QED
                BY <3>7, <8>1 DEF Seen, Decided, AfterReset, VotesRead, Ending
            <7>3. QED
              BY <7>1, <7>2 DEF Scopes
          <6>2. QED
            BY <2>1, <3>3, <4>2, <6>1 DEF Seen
        <5>2. QED
          BY <1>1, <5>1, NothingArrives DEF WaterInv
      <4>3. QED
        BY <4>1, <4>2
    <3>8. ASSUME NEW u \in Scopes, pc' \in Compared(u), my'.same[u] PROVE my'.seen[u] = watermark'[u]
      <4>1. u # s /\ pc \in Compared(u)
        BY <1>2, <2>1, <3>8 DEF Compared, Scopes, Decided, AfterReset, VotesRead, Ending
      <4>2. QED
        BY <1>1, <3>2, <3>3, <3>8, <4>1 DEF WaterInv
    <3>9. WaterInv'
      BY <2>1, <3>6, <3>7, <3>8 DEF WaterInv, BodiesRecorded, AfterReset, VotesRead, Ending
    <3>10. QED
      BY <3>5, <3>9
  <2>2. ASSUME NEW s \in Scopes, NEW to, Diff(s, pc, to),
               pc' = (IF s = "amo" THEN "reset" ELSE "read bodies"), pc \in Seen(s)
        PROVE  Shape' /\ WaterInv'
    <3>1. my' = [my EXCEPT !.same = [my.same EXCEPT ![s] =
                        ~my.force /\ Unchanged(my.seen[s], watermark[s])]]
      BY <2>2 DEF Diff, Local
    <3>2. /\ my'.same = [my.same EXCEPT ![s] = ~my.force /\ Unchanged(my.seen[s], watermark[s])]
          /\ my'.seen = my.seen
          /\ my' = [force |-> my'.force, seen |-> my'.seen, same |-> my'.same,
                    bodies |-> my'.bodies, persons |-> my'.persons, all |-> my'.all]
      BY <3>1 DEF Shape
    <3>3. /\ my'.same \in [Scopes -> BOOLEAN]
          /\ my'.same[s] => my.seen[s] = watermark[s]
          /\ \A u \in Scopes \ {s} : my'.same[u] = my.same[u]
      BY <3>2 DEF Shape, Unchanged
    <3>5. Shape'
      BY <1>1, <1>2, <3>2, <3>3 DEF Shape, Steps, Decided
    <3>6. \A u \in Scopes : Past(u, watermark[u])' /\ Past(u, my.seen[u])'
      BY <1>1, <3>2, NothingArrives DEF WaterInv
    <3>7. ASSUME NEW u \in Scopes, pc' \in Seen(u)
          PROVE  /\ (committed = before)' => Fresh(u, my.seen[u])'
                 /\ Fresh(u, watermark[u])' => Fresh(u, my.seen[u])'
      <4>1. pc \in Seen(u)
        BY <2>2, <3>7, <1>2 DEF Seen, Scopes, Decided, AfterReset, VotesRead, Ending, Diff, Goes
      <4>2. QED
        BY <1>1, <3>2, <4>1, NothingArrives DEF WaterInv
    <3>8. ASSUME NEW u \in Scopes, pc' \in Compared(u), my'.same[u] PROVE my'.seen[u] = watermark'[u]
      <4>1. CASE u = s
        BY <1>1, <3>2, <3>3, <3>8, <4>1
      <4>2. CASE u # s
        <5>1. pc \in Compared(u)
          BY <1>2, <2>2, <3>8, <4>2 DEF Compared, Seen, Scopes, Decided, AfterReset, VotesRead, Ending
        <5>2. QED
          BY <1>1, <3>2, <3>3, <3>8, <4>2, <5>1 DEF WaterInv
      <4>3. QED
        BY <4>1, <4>2
    <3>9. WaterInv'
      BY <2>2, <3>6, <3>7, <3>8 DEF WaterInv, BodiesRecorded, AfterReset, VotesRead, Ending
    <3>10. QED
      BY <3>5, <3>9
  <2>3. CASE ReadWatermark("scrutins", "read scrutins", "diff scrutins")
    BY <2>1, <2>3 DEF ReadWatermark, Goes, Scopes
  <2>4. CASE Diff("scrutins", "diff scrutins", "read bodies")
    BY <2>2, <2>4 DEF Diff, Goes, Scopes, Seen
  <2>5. CASE ReadWatermark("amo", "read bodies", "diff bodies")
    BY <2>1, <2>5 DEF ReadWatermark, Goes, Scopes
  <2>6. CASE Diff("amo", "diff bodies", "reset")
    BY <2>2, <2>6 DEF Diff, Goes, Scopes, Seen
  <2>7. QED
    BY <2>3, <2>4, <2>5, <2>6 DEF Decide
<1>5. ReadInv' /\ DerivedInv'
  BY <1>1, <1>2 DEF ReadInv, DerivedInv, BodiesRead, PersonsRead, VotesRead
<1>6. VotesInv'
  BY <1>1, <1>2, NothingArrives DEF VotesInv, AllFresh, Fresh, VotesRead, AfterReset, Ending
<1>7. QED
  BY <1>3, <1>4, <1>5, <1>6
----------------------------------------------------------------------------
(* The rebuild                                                              *)

LEMMA DecidedIsCompared ==
  /\ \A s \in Scopes : Decided \subseteq Seen(s) /\ Decided \subseteq Compared(s)
  /\ Decided \subseteq Steps
  BY DEF Seen, Compared, Steps

\* A step of the rebuild that records no watermark.
LEMMA WaterKept ==
  ASSUME NormalizeInv, UNCHANGED <<committed, before, watermark>>,
         my'.seen = my.seen, my'.same = my.same, pc \in Decided, pc' \in Decided,
         pc' \in BodiesRecorded => pc \in BodiesRecorded,
         pc' \in Ending => pc \in Ending \/ watermark["scrutins"] = my.seen["scrutins"]
  PROVE  WaterInv'
<1>1. \A s \in Scopes : pc \in Seen(s) /\ pc \in Compared(s)
  BY DecidedIsCompared
<1>2. QED
  BY <1>1, NothingArrives DEF NormalizeInv, WaterInv

\* The watermarks that are those of raw.record are those the run has read.
LEMMA FreshAreSeen ==
  ASSUME NormalizeInv, pc \in Decided, AllFresh
  PROVE  \A s \in Scopes : Fresh(s, my.seen[s])
  BY DecidedIsCompared DEF NormalizeInv, WaterInv, AllFresh

\* A run that keeps the votes has read the watermarks recorded.
LEMMA SkipIsSeen ==
  ASSUME NormalizeInv, pc \in Decided, SkipBallots
  PROVE  \A s \in Scopes : my.seen[s] = watermark[s]
  BY DecidedIsCompared DEF NormalizeInv, WaterInv, SkipBallots, Scopes

LEMMA ResetStep ==
  ASSUME NormalizeInv, Reset
  PROVE  NormalizeInv'
<1> USE DEF NormalizeInv
<1>1. /\ UNCHANGED <<begun, committed, scrutin, watermark, my, before, runs>>
      /\ pc = "reset" /\ pc' = "bodies" /\ derived' = {}
      /\ SkipBallots => ballot' = ballot /\ ballotGroup' = ballotGroup
      /\ ~SkipBallots => ballot' = {} /\ ballotGroup' = {}
  BY DEF Reset, Goes, raw
<1>2. TypeOK'
  BY <1>1 DEF TypeOK
<1>3. Shape' /\ DerivedInv'
  BY <1>1 DEF Shape, DerivedInv, VotesRead, AfterReset, Decided, Steps
<1>4. WaterInv'
  BY <1>1, WaterKept DEF Decided, AfterReset, BodiesRecorded, VotesRead, Ending
<1>5. ReadInv'
  BY <1>1 DEF ReadInv, BodiesRead, PersonsRead, VotesRead
<1>6. SkipBallots' = SkipBallots
  BY <1>1 DEF SkipBallots
<1>7. AllFresh' <=> AllFresh
  BY <1>1, NothingArrives DEF AllFresh, Fresh
<1>8. VotesInv'
  BY <1>1, <1>6, <1>7 DEF VotesInv, AfterReset, VotesRead, Ending
<1>9. QED
  BY <1>2, <1>3, <1>4, <1>5, <1>8

LEMMA BodiesStep ==
  ASSUME NormalizeInv, NormalizeBodies
  PROVE  NormalizeInv'
<1> USE DEF NormalizeInv
<1>1. /\ UNCHANGED <<begun, committed, scrutin, ballot, ballotGroup, derived, watermark, before, runs>>
      /\ pc = "bodies" /\ pc' = "record bodies"
  BY DEF NormalizeBodies, Goes, raw, core
<1>2. /\ my'.seen = my.seen /\ my'.same = my.same /\ my'.persons = my.persons /\ my'.all = my.all
      /\ my'.bodies = Bodies(committed)
      /\ my' = [force |-> my'.force, seen |-> my'.seen, same |-> my'.same,
                bodies |-> my'.bodies, persons |-> my'.persons, all |-> my'.all]
  BY DEF NormalizeBodies, Local, Shape
<1>3. TypeOK'
  BY <1>1, <1>2 DEF TypeOK
<1>4. Shape' /\ DerivedInv'
  BY <1>1, <1>2 DEF Shape, DerivedInv, VotesRead, AfterReset, Decided, Steps
<1>5. WaterInv'
  BY <1>1, <1>2, WaterKept DEF Decided, AfterReset, BodiesRecorded, VotesRead, Ending
<1>6. ReadInv'
  BY <1>1, <1>2 DEF ReadInv, BodiesRead, PersonsRead, VotesRead
<1>7. SkipBallots' = SkipBallots
  BY <1>2 DEF SkipBallots
<1>8. AllFresh' <=> AllFresh
  BY <1>1, NothingArrives DEF AllFresh, Fresh
<1>9. VotesInv'
  BY <1>1, <1>7, <1>8 DEF VotesInv, AfterReset, VotesRead, Ending
<1>10. QED
  BY <1>3, <1>4, <1>5, <1>6, <1>9

LEMMA RecordStep ==
  ASSUME NormalizeInv, RecordBodies
  PROVE  NormalizeInv'
<1> USE DEF NormalizeInv
<1>1. /\ UNCHANGED <<begun, committed, scrutin, ballot, ballotGroup, derived, my, before, runs>>
      /\ pc = "record bodies" /\ pc' = "actors"
      /\ watermark' = [watermark EXCEPT !["amo"] = my.seen["amo"]]
  BY DEF RecordBodies, Goes, raw
<1>2. /\ watermark'["amo"] = my.seen["amo"]
      /\ \A s \in Scopes \ {"amo"} : watermark'[s] = watermark[s]
      /\ watermark' = [s \in Scopes |-> watermark'[s]]
  BY <1>1 DEF Shape, Scopes
<1>3. TypeOK'
  BY <1>1 DEF TypeOK
<1>4. Shape' /\ DerivedInv'
  BY <1>1, <1>2 DEF Shape, DerivedInv, VotesRead, AfterReset, Decided, Steps
<1>5. WaterInv'
  <2>1. \A s \in Scopes : pc \in Seen(s) /\ pc \in Compared(s)
    BY <1>1, DecidedIsCompared DEF Decided, AfterReset
  <2>2. \A s \in Scopes : watermark'[s] = watermark[s] \/ watermark'[s] = my.seen[s]
    BY <1>2
  <2>3. pc' \notin Ending
    BY <1>1 DEF Ending
  <2>4. QED
    BY <1>1, <1>2, <2>1, <2>2, <2>3, NothingArrives DEF WaterInv
<1>6. ReadInv'
  BY <1>1, NothingArrives DEF ReadInv, Fresh, BodiesRead, PersonsRead, VotesRead
<1>7. SkipBallots' = SkipBallots
  BY <1>1 DEF SkipBallots
<1>8. VotesInv'
  <2>1. CASE SkipBallots
    <3>1. my.seen["amo"] = watermark["amo"]
      BY <1>1, <2>1, SkipIsSeen DEF Decided, AfterReset, Scopes
    <3>2. watermark' = watermark
      BY <1>1, <3>1 DEF Shape
    <3>3. AllFresh' <=> AllFresh
      BY <1>1, <3>2, NothingArrives DEF AllFresh, Fresh
    <3>4. QED
      BY <1>1, <1>7, <2>1, <3>3 DEF VotesInv, AfterReset, VotesRead, Ending
  <2>2. CASE ~SkipBallots
    BY <1>1, <1>7, <2>2 DEF VotesInv, AfterReset, VotesRead, Ending
  <2>3. QED
    BY <2>1, <2>2
<1>9. QED
  BY <1>3, <1>4, <1>5, <1>6, <1>8

LEMMA ActorsStep ==
  ASSUME NormalizeInv, NormalizeActors
  PROVE  NormalizeInv'
<1> USE DEF NormalizeInv
<1>1. /\ UNCHANGED <<begun, committed, scrutin, ballot, ballotGroup, derived, watermark, before, runs>>
      /\ pc = "actors" /\ pc' = "mandates"
  BY DEF NormalizeActors, Goes, raw, core
<1>2. /\ my'.seen = my.seen /\ my'.same = my.same /\ my'.bodies = my.bodies /\ my'.all = my.all
      /\ my'.persons = Persons(committed)
      /\ my' = [force |-> my'.force, seen |-> my'.seen, same |-> my'.same,
                bodies |-> my'.bodies, persons |-> my'.persons, all |-> my'.all]
  BY DEF NormalizeActors, Local, Shape
<1>3. TypeOK'
  BY <1>1, <1>2 DEF TypeOK
<1>4. Shape' /\ DerivedInv'
  BY <1>1, <1>2 DEF Shape, DerivedInv, VotesRead, AfterReset, Decided, Steps
<1>5. WaterInv'
  BY <1>1, <1>2, WaterKept DEF Decided, AfterReset, BodiesRecorded, VotesRead, Ending
<1>6. ReadInv'
  BY <1>1, <1>2, NothingArrives DEF ReadInv, Fresh, BodiesRead, PersonsRead, VotesRead
<1>7. SkipBallots' = SkipBallots
  BY <1>2 DEF SkipBallots
<1>8. AllFresh' <=> AllFresh
  BY <1>1, NothingArrives DEF AllFresh, Fresh
<1>9. VotesInv'
  BY <1>1, <1>7, <1>8 DEF VotesInv, AfterReset, VotesRead, Ending
<1>10. QED
  BY <1>3, <1>4, <1>5, <1>6, <1>9

LEMMA MandatesStep ==
  ASSUME NormalizeInv, NormalizeMandates
  PROVE  NormalizeInv'
<1> USE DEF NormalizeInv
<1>1. /\ UNCHANGED <<begun, committed, scrutin, ballot, ballotGroup, watermark, my, before, runs>>
      /\ pc = "mandates" /\ pc' = "votes" /\ derived' = derived \union {"mandates"}
  BY DEF NormalizeMandates, Goes, raw
<1>2. TypeOK'
  BY <1>1 DEF TypeOK
<1>3. Shape' /\ DerivedInv'
  BY <1>1 DEF Shape, DerivedInv, VotesRead, AfterReset, Decided, Steps
<1>4. WaterInv'
  BY <1>1, WaterKept DEF Decided, AfterReset, BodiesRecorded, VotesRead, Ending
<1>5. ReadInv'
  BY <1>1, NothingArrives DEF ReadInv, Fresh, BodiesRead, PersonsRead, VotesRead
<1>6. SkipBallots' = SkipBallots
  BY <1>1 DEF SkipBallots
<1>7. AllFresh' <=> AllFresh
  BY <1>1, NothingArrives DEF AllFresh, Fresh
<1>8. VotesInv'
  BY <1>1, <1>6, <1>7 DEF VotesInv, AfterReset, VotesRead, Ending
<1>9. QED
  BY <1>2, <1>3, <1>4, <1>5, <1>8
----------------------------------------------------------------------------
(* The votes                                                                *)

\* The votes kept are complete: some are there, or there is nothing to take them from.
LEMMA SkipStep ==
  ASSUME NormalizeInv, SkipVotes
  PROVE  NormalizeInv'
<1> USE DEF NormalizeInv
<1>1. /\ UNCHANGED <<begun, committed, scrutin, ballot, ballotGroup, derived, watermark, my, before, runs>>
      /\ pc = "votes" /\ pc' = "dossiers" /\ SkipBallots /\ LooksWhole
  BY DEF SkipVotes, Goes, raw, core
<1>2. TypeOK'
  BY <1>1 DEF TypeOK
<1>3. Shape' /\ DerivedInv'
  BY <1>1 DEF Shape, DerivedInv, VotesRead, Ending, Decided, Steps
<1>4. \A s \in Scopes : my.seen[s] = watermark[s]
  BY <1>1, SkipIsSeen DEF Decided, AfterReset
<1>5. WaterInv'
  BY <1>1, <1>4, WaterKept DEF Decided, AfterReset, BodiesRecorded, VotesRead, Ending, Scopes
<1>6. ReadInv'
  BY <1>1 DEF ReadInv, BodiesRead, PersonsRead, VotesRead
<1>7. SkipBallots' /\ (AllFresh' <=> AllFresh)
  BY <1>1, NothingArrives DEF SkipBallots, AllFresh, Fresh
<1>8. ASSUME AllFresh PROVE ballot = Votes(committed) /\ ballotGroup = GroupVotes(committed)
  <2>1. CASE ballot # {}
    BY <1>8, <2>1 DEF VotesInv
  <2>2. CASE ballot = {}
    <3>1. my.seen["scrutins"][1] = 0
      BY <1>1, <2>2 DEF LooksWhole
    <3>2. my.seen["scrutins"] = WatermarkOf("scrutins", committed)
      BY <1>4, <1>8 DEF AllFresh, Fresh, RawWatermark, Scopes
    <3>3. committed \in SUBSET Documents
      BY CommittedAreDocuments
    <3>4. Votes(committed) = {} /\ GroupVotes(committed) = {}
      BY <3>1, <3>2, <3>3, NoRecordNoVote
    <3>5. ballotGroup \subseteq GroupVotes(committed)
      BY <1>8 DEF VotesInv
    <3>6. QED
      BY <2>2, <3>4, <3>5
  <2>3. QED
    BY <2>1, <2>2
<1>9. VotesInv'
  BY <1>1, <1>7, <1>8 DEF VotesInv
<1>10. QED
  BY <1>2, <1>3, <1>5, <1>6, <1>9

LEMMA ReadStep ==
  ASSUME NormalizeInv, ReadVotes
  PROVE  NormalizeInv'
<1> USE DEF NormalizeInv
<1>1. /\ UNCHANGED <<begun, committed, scrutin, ballot, ballotGroup, derived, watermark, before, runs>>
      /\ pc = "votes" /\ pc' = "scrutins"
  BY DEF ReadVotes, Goes, raw, core
<1>2. /\ my'.seen = my.seen /\ my'.same = my.same /\ my'.bodies = my.bodies
      /\ my'.persons = my.persons /\ my'.all = Latest(committed)
      /\ my' = [force |-> my'.force, seen |-> my'.seen, same |-> my'.same,
                bodies |-> my'.bodies, persons |-> my'.persons, all |-> my'.all]
  BY DEF ReadVotes, Local, Shape
<1>3. TypeOK'
  BY <1>1, <1>2 DEF TypeOK
<1>4. DOMAIN my'.all = Keys(committed)
  BY <1>2 DEF Latest
<1>5. Shape' /\ DerivedInv'
  BY <1>1, <1>2, <1>4 DEF Shape, DerivedInv, VotesRead, Decided, Steps
<1>6. WaterInv'
  BY <1>1, <1>2, WaterKept DEF Decided, AfterReset, BodiesRecorded, VotesRead, Ending
<1>7. ReadInv'
  BY <1>1, <1>2, NothingArrives DEF ReadInv, Fresh, BodiesRead, PersonsRead, VotesRead
<1>8. SkipBallots' = SkipBallots
  BY <1>2 DEF SkipBallots
<1>9. AllFresh' <=> AllFresh
  BY <1>1, NothingArrives DEF AllFresh, Fresh
<1>10. VotesInv'
  BY <1>1, <1>8, <1>9 DEF VotesInv, AfterReset, VotesRead, Ending
<1>11. QED
  BY <1>3, <1>5, <1>6, <1>7, <1>10

LEMMA CopyStep ==
  ASSUME NormalizeInv, CopyScrutins
  PROVE  NormalizeInv'
<1> USE DEF NormalizeInv
<1>1. /\ UNCHANGED <<begun, committed, ballot, ballotGroup, derived, watermark, my, before, runs>>
      /\ pc = "scrutins" /\ pc' = "group ballots"
      /\ DOMAIN scrutin' = DOMAIN scrutin \union DOMAIN my.all
  BY DEF CopyScrutins, Goes, raw
<1>2. TypeOK'
  BY <1>1 DEF TypeOK, Shape
<1>3. Shape' /\ DerivedInv'
  BY <1>1 DEF Shape, DerivedInv, VotesRead, Decided, Steps
<1>4. WaterInv'
  BY <1>1, WaterKept DEF Decided, BodiesRecorded, VotesRead, Ending
<1>5. ReadInv'
  BY <1>1, NothingArrives DEF ReadInv, Fresh, BodiesRead, PersonsRead, VotesRead
<1>6. SkipBallots' = SkipBallots
  BY <1>1 DEF SkipBallots
<1>7. AllFresh' <=> AllFresh
  BY <1>1, NothingArrives DEF AllFresh, Fresh
<1>8. VotesInv'
  BY <1>1, <1>6, <1>7 DEF VotesInv, AfterReset, VotesRead, Ending
<1>9. QED
  BY <1>2, <1>3, <1>4, <1>5, <1>8

\* What the run has read is what it would read now, under watermarks that are fresh.
LEMMA ReadIsNow ==
  ASSUME NormalizeInv, pc = "group ballots", \A s \in Scopes : Fresh(s, my.seen[s])
  PROVE  /\ BallotsOf(my.all, my.persons, my.bodies) = Votes(committed)
         /\ GroupBallotsOf(my.all, my.bodies) = GroupVotes(committed)
  BY DEF NormalizeInv, ReadInv, BodiesRead, PersonsRead, VotesRead, Votes, GroupVotes, Scopes

LEMMA InsertStep ==
  ASSUME NormalizeInv, InsertGroupBallot
  PROVE  NormalizeInv'
<1> USE DEF NormalizeInv
<1>1. /\ UNCHANGED <<begun, committed, scrutin, ballot, derived, watermark, pc, my, before, runs>>
      /\ pc = "group ballots"
  BY DEF InsertGroupBallot, raw
<1>2. PICK b \in GroupBallotsOf(my.all, my.bodies) : ~Present(b) /\ ballotGroup' = ballotGroup \union {b}
  BY DEF InsertGroupBallot, Missing
<1>3. b \notin ballotGroup
  BY <1>2 DEF Present
<1>4. TypeOK'
  BY <1>1 DEF TypeOK
<1>5. Shape' /\ DerivedInv'
  BY <1>1 DEF Shape, DerivedInv
<1>6. WaterInv'
  BY <1>1, WaterKept DEF Decided, BodiesRecorded, VotesRead, Ending
<1>7. ReadInv'
  BY <1>1, NothingArrives DEF ReadInv, Fresh
<1>8. SkipBallots' = SkipBallots
  BY <1>1 DEF SkipBallots
<1>9. AllFresh' <=> AllFresh
  BY <1>1, NothingArrives DEF AllFresh, Fresh
<1>10. ASSUME AllFresh PROVE b \in GroupVotes(committed) /\ ballot = {}
  <2>1. b \in GroupVotes(committed)
    BY <1>1, <1>2, <1>10, FreshAreSeen, ReadIsNow DEF Decided, VotesRead
  <2>2. QED
    BY <1>3, <1>10, <2>1 DEF VotesInv
<1>11. VotesInv'
  <2>1. pc \in VotesRead /\ pc \notin Ending /\ pc \notin AfterReset
    BY <1>1 DEF VotesRead, Ending, AfterReset
  <2>2. QED
    BY <1>1, <1>2, <1>8, <1>9, <1>10, <2>1 DEF VotesInv
<1>12. QED
  BY <1>4, <1>5, <1>6, <1>7, <1>11

\* The greatest of some numbers is one of them: what is missing to the bound is least.
LEMMA GreatestOf ==
  ASSUME NEW N \in Nat, NEW S \in SUBSET (1..N), S # {}
  PROVE  Max(S) \in S
<1> DEFINE Gaps == {N - x : x \in S}
           R == OpToRel(<, Nat)
<1>1. IsWellFoundedOn(R, Nat)
  BY NatLessThanWellFounded
<1>2. Gaps \in SUBSET Nat /\ Gaps # {}
  <2>1. \A x \in S : x \in Nat /\ x <= N
    OBVIOUS
  <2>2. \A x \in S : N - x \in Nat
    BY <2>1
  <2>3. QED
    BY <2>2
<1>3. PICK m \in Gaps : \A n \in Gaps : ~(<<n, m>> \in R)
  <2> HIDE DEF R, Gaps
  <2>1. QED
    BY <1>1, <1>2, WFMin
<1>4. \A n \in Gaps : ~(n < m)
  <2>1. \A n \in Gaps : <<n, m>> \in R <=> n < m
    BY <1>2 DEF OpToRel
  <2> HIDE DEF R, Gaps
  <2>2. QED
    BY <1>3, <2>1
<1>5. PICK x \in S : m = N - x
  BY <1>3
<1>6. ASSUME NEW y \in S PROVE x >= y
  <2>1. N - y \in Gaps
    OBVIOUS
  <2>2. ~(N - y < N - x)
    BY <1>4, <1>5, <2>1
  <2>3. x \in Nat /\ y \in Nat
    <3>1. S \subseteq Nat
      OBVIOUS
    <3>2. QED
      BY <3>1
  <2>4. QED
    BY <2>2, <2>3
<1>7. QED
  BY <1>6 DEF Max

\* A roll call gives each group one position.
LEMMA OnePosition ==
  ASSUME NEW c \in SUBSET Documents, NEW bodies,
         NEW b \in GroupBallotsOf(Latest(c), bodies), NEW g \in GroupBallotsOf(Latest(c), bodies),
         g.scrutin = b.scrutin, g.group = b.group
  PROVE  g = b
<1>1. PICK k \in DOMAIN Latest(c) : \E v \in Latest(c)[k].groupVotes :
          b = [scrutin |-> k, group |-> v.group, position |-> v.position]
  BY DEF GroupBallotsOf
<1>2. PICK v \in Latest(c)[k].groupVotes :
          b = [scrutin |-> k, group |-> v.group, position |-> v.position]
  BY <1>1
<1>3. PICK l \in DOMAIN Latest(c) : \E w \in Latest(c)[l].groupVotes :
          g = [scrutin |-> l, group |-> w.group, position |-> w.position]
  BY DEF GroupBallotsOf
<1>4. PICK w \in Latest(c)[l].groupVotes :
          g = [scrutin |-> l, group |-> w.group, position |-> w.position]
  BY <1>3
<1>5. l = k /\ w.group = v.group
  BY <1>2, <1>4
<1>6. PICK i \in Documents : k \in DOMAIN Publications[i].rows /\ Latest(c)[k] = Publications[i].rows[k]
                              /\ Publications[i].kind = "scrutins"
  <2> DEFINE With == {i \in Of("scrutins", c) : k \in DOMAIN Publications[i].rows}
  <2>1. k \in Keys(c) /\ Latest(c)[k] = Publications[Max(With)].rows[k]
    BY <1>1 DEF Latest
  <2>2. With # {}
    BY <2>1 DEF Keys
  <2>3. With \subseteq 1..Len(Publications) /\ Len(Publications) \in Nat
    BY NormalizeAssumption DEF Of, Documents
  <2>4. Max(With) \in With
    <3> HIDE DEF With
    <3>1. QED
      BY <2>2, <2>3, GreatestOf
  <2>5. QED
    BY <2>1, <2>4 DEF Of
<1>7. v.position = w.position
  BY <1>2, <1>4, <1>5, <1>6, NormalizeAssumption DEF Documents
<1>8. QED
  BY <1>2, <1>4, <1>5, <1>7

LEMMA MergeStep ==
  ASSUME NormalizeInv, MergeBallots
  PROVE  NormalizeInv'
<1> USE DEF NormalizeInv
<1>1. /\ UNCHANGED <<begun, committed, scrutin, ballotGroup, derived, my, before, runs>>
      /\ pc = "group ballots" /\ pc' = "dossiers" /\ Missing = {}
      /\ ballot' = BallotsOf(my.all, my.persons, my.bodies)
      /\ watermark' = [watermark EXCEPT !["scrutins"] = my.seen["scrutins"]]
  BY DEF MergeBallots, Attested, Goes, raw
<1>2. /\ watermark'["scrutins"] = my.seen["scrutins"]
      /\ \A s \in Scopes \ {"scrutins"} : watermark'[s] = watermark[s]
      /\ watermark' = [s \in Scopes |-> watermark'[s]]
  BY <1>1 DEF Shape, Scopes
<1>3. TypeOK'
  <2>1. \A b \in ballot' : b.scrutin \in DOMAIN my.all /\ b.person \in my.persons
    <3>1. SUFFICES ASSUME NEW b \in BallotsOf(my.all, my.persons, my.bodies)
                   PROVE  b.scrutin \in DOMAIN my.all /\ b.person \in my.persons
      BY <1>1
    <3>2. PICK k \in DOMAIN my.all :
            b \in {[scrutin |-> k, person |-> v.person, position |-> v.position,
                    group |-> IF v.group \in my.bodies THEN v.group ELSE NoGroup] :
                      v \in {v \in my.all[k].votes : v.person \in my.persons}}
      BY DEF BallotsOf
    <3>3. b.scrutin = k /\ b.person \in my.persons
      BY <3>2
    <3>4. QED
      BY <3>3
  <2>2. DOMAIN my.all \subseteq DOMAIN scrutin
    BY <1>1 DEF Shape
  <2>3. QED
    BY <1>1, <2>1, <2>2 DEF TypeOK
<1>4. Shape' /\ DerivedInv'
  BY <1>1, <1>2 DEF Shape, DerivedInv, VotesRead, Ending, Decided, Steps
<1>5. WaterInv'
  <2>1. \A s \in Scopes : pc \in Seen(s) /\ pc \in Compared(s)
    BY <1>1, DecidedIsCompared DEF Decided, VotesRead
  <2>2. \A s \in Scopes : watermark'[s] = watermark[s] \/ watermark'[s] = my.seen[s]
    BY <1>2
  <2>3. pc \in BodiesRecorded /\ watermark'["amo"] = watermark["amo"]
    BY <1>1, <1>2 DEF BodiesRecorded, VotesRead, Scopes
  <2>4. QED
    BY <1>1, <1>2, <2>1, <2>2, <2>3, NothingArrives DEF WaterInv
<1>6. ReadInv'
  BY <1>1 DEF ReadInv, BodiesRead, PersonsRead, VotesRead
<1>7. ASSUME AllFresh' PROVE ballot' = Votes(committed) /\ ballotGroup = GroupVotes(committed)
  <2>1. \A s \in Scopes : Fresh(s, my.seen[s])
    <3>1. \A s \in Scopes : Fresh(s, watermark'[s])
      BY <1>1, <1>7, NothingArrives DEF AllFresh, Fresh
    <3>2. watermark["amo"] = my.seen["amo"]
      BY <1>1 DEF WaterInv, BodiesRecorded, VotesRead
    <3>3. QED
      BY <1>2, <3>1, <3>2 DEF Scopes
  <2>2. /\ BallotsOf(my.all, my.persons, my.bodies) = Votes(committed)
        /\ GroupBallotsOf(my.all, my.bodies) = GroupVotes(committed)
    BY <1>1, <2>1, ReadIsNow
  <2>3. ballotGroup \subseteq GroupVotes(committed)
    <3>1. CASE SkipBallots
      <4>1. AllFresh
        BY <1>1, <2>1, <3>1, SkipIsSeen DEF AllFresh, Decided, VotesRead
      <4>2. QED
        BY <4>1 DEF VotesInv
    <3>2. CASE ~SkipBallots
      BY <1>1, <2>2, <3>2 DEF VotesInv, VotesRead
    <3>3. QED
      BY <3>1, <3>2
  <2>4. ASSUME NEW b \in GroupVotes(committed) PROVE b \in ballotGroup
    <3>1. Present(b)
      BY <1>1, <2>2, <2>4 DEF Missing
    <3>2. PICK g \in ballotGroup : g.scrutin = b.scrutin /\ g.group = b.group
      BY <3>1 DEF Present
    <3>3. committed \in SUBSET Documents
      BY CommittedAreDocuments
    <3>4. g = b
      BY <2>3, <2>4, <3>2, <3>3, OnePosition DEF GroupVotes
    <3>5. QED
      BY <3>2, <3>4
  <2>5. QED
    BY <1>1, <2>2, <2>3, <2>4
<1>8. VotesInv'
  <2>1. pc' \notin AfterReset /\ pc' \notin VotesRead
    BY <1>1 DEF AfterReset, VotesRead
  <2>2. QED
    BY <1>1, <1>7, <2>1 DEF VotesInv
<1>9. QED
  BY <1>3, <1>4, <1>5, <1>6, <1>8

LEMMA DossiersStep ==
  ASSUME NormalizeInv, NormalizeDossiers
  PROVE  NormalizeInv'
<1> USE DEF NormalizeInv
<1>1. /\ UNCHANGED <<begun, committed, scrutin, ballot, ballotGroup, watermark, my, before, runs>>
      /\ pc = "dossiers" /\ pc' = "done" /\ derived' = derived \union {"dossiers"}
  BY DEF NormalizeDossiers, Goes, raw
<1>2. TypeOK'
  BY <1>1 DEF TypeOK
<1>3. Shape' /\ DerivedInv'
  BY <1>1 DEF Shape, DerivedInv, Ending, Decided, Steps
<1>4. WaterInv'
  BY <1>1, WaterKept DEF Decided, BodiesRecorded, Ending
<1>5. ReadInv'
  BY <1>1 DEF ReadInv, BodiesRead, PersonsRead, VotesRead
<1>6. AllFresh' <=> AllFresh
  BY <1>1, NothingArrives DEF AllFresh, Fresh
<1>7. VotesInv'
  BY <1>1, <1>6 DEF VotesInv, AfterReset, VotesRead, Ending
<1>8. QED
  BY <1>2, <1>3, <1>4, <1>5, <1>7

\* The end of a run, at its end or anywhere: what is committed stays.
LEMMA EndStep ==
  ASSUME NormalizeInv, Return \/ Fail
  PROVE  NormalizeInv'
<1> USE DEF NormalizeInv
<1>1. /\ UNCHANGED <<begun, committed, scrutin, ballot, ballotGroup, derived, watermark, before, runs>>
      /\ pc' = "idle" /\ my' = Nothing
  BY DEF Return, Fail, Goes, raw, core
<1>2. TypeOK'
  BY <1>1 DEF TypeOK, Nothing
<1>3. Shape' /\ DerivedInv'
  <2>1. /\ DOMAIN my'.all = {} /\ my'.same \in [Scopes -> BOOLEAN]
        /\ my'.seen = [s \in Scopes |-> my'.seen[s]]
        /\ my' = [force |-> my'.force, seen |-> my'.seen, same |-> my'.same,
                  bodies |-> my'.bodies, persons |-> my'.persons, all |-> my'.all]
    BY <1>1 DEF Nothing
  <2>2. QED
    BY <1>1, <2>1 DEF Shape, DerivedInv, VotesRead, Ending, Steps
<1>4. WaterInv'
  <2>1. \A s \in Scopes : Past(s, watermark[s])' /\ Past(s, my.seen[s])'
    BY <1>1, NothingArrives DEF WaterInv, Past, Nothing
  <2>2. QED
    BY <1>1, <2>1 DEF WaterInv, Seen, Compared, BodiesRecorded, VotesRead, AfterReset, Ending, Decided
<1>5. ReadInv'
  BY <1>1 DEF ReadInv, BodiesRead, PersonsRead, VotesRead
<1>6. AllFresh' <=> AllFresh
  BY <1>1, NothingArrives DEF AllFresh, Fresh
<1>7. VotesInv'
  BY <1>1, <1>6 DEF VotesInv, AfterReset, VotesRead, Ending
<1>8. QED
  BY <1>2, <1>3, <1>4, <1>5, <1>7

LEMMA StutterStep == NormalizeInv /\ UNCHANGED vars => NormalizeInv'
<1> SUFFICES ASSUME NormalizeInv, UNCHANGED vars PROVE NormalizeInv'
  OBVIOUS
<1> USE DEF NormalizeInv
<1>1. UNCHANGED <<begun, committed, scrutin, ballot, ballotGroup, derived, watermark, pc, my, before, runs>>
  BY DEF vars, raw, core
<1>2. TypeOK' /\ Shape' /\ DerivedInv'
  BY <1>1 DEF TypeOK, Shape, DerivedInv
<1>3. WaterInv' /\ ReadInv'
  BY <1>1, NothingArrives DEF WaterInv, ReadInv, Fresh
<1>4. VotesInv'
  BY <1>1, NothingArrives DEF VotesInv, AllFresh, SkipBallots, Fresh
<1>5. QED
  BY <1>2, <1>3, <1>4

\* Every step keeps the invariant, the arrival of a document and the death of a run
\* between any two transactions included.
THEOREM NormalizeInductive == Spec => []NormalizeInv
<1>1. NormalizeInv /\ [Next]_vars => NormalizeInv'
  BY ExtractStep, CommitStep, StartStep, DecideStep, ResetStep, BodiesStep, RecordStep,
     ActorsStep, MandatesStep, SkipStep, ReadStep, CopyStep, InsertStep, MergeStep,
     DossiersStep, EndStep, StutterStep DEF Next, Documents
<1>2. QED
  BY <1>1, InvInitially, PTL DEF Spec

\* The state of Normalize and of its tables keeps its type: no vote of an unknown roll
\* call, person or body.
THEOREM NormalizeTypeCorrect == Spec => []TypeOK
<1>1. NormalizeInv => TypeOK
  BY DEF NormalizeInv
<1>2. QED
  BY <1>1, NormalizeInductive, PTL

\* A run that ends well, and during which nothing arrived, leaves exactly the votes of
\* raw.record, whether it rebuilt or kept them.
THEOREM VotesAreRight == Spec => []VotesAreThoseOfRaw
<1>1. NormalizeInv => VotesAreThoseOfRaw
  BY InvIsEnough
<1>2. QED
  BY <1>1, NormalizeInductive, PTL

\* Watermarks that would let the next run keep the votes are those of the votes there.
THEOREM WatermarksAreEarned == Spec => []WatermarkIsEarned
<1>1. NormalizeInv => WatermarkIsEarned
  BY InvIsEnough
<1>2. QED
  BY <1>1, NormalizeInductive, PTL
=============================================================================

------------------------------ MODULE SiteProofs ------------------------------
(***************************************************************************)
(* Proofs about Site, for every set of sections, every bound and every      *)
(* scenario: a served directory is whole, and a build after a complete       *)
(* ingestion leaves a site up to date in what its lists name.  Then about BuildGraph, for every     *)
(* graph of nodes: what the bodies of a build find when they run.           *)
(***************************************************************************)
EXTENDS Site, BuildGraph, FiniteSetTheorems, NaturalsInduction, WellFoundedInduction, TLAPS

-----------------------------------------------------------------------------
(* Types                                                                   *)

Builds == [pc : {"idle", "nothing", "prepare", "pages", "ended", "cleared", "moved", "placed"},
           kind : {"full", "sections", "truncated"}, new : Fingerprints, todo : SUBSET Sections]
Ingestions == [pc : {"idle", "load", "sums", "mv"}, all : BOOLEAN, ok : BOOLEAN,
               fetched : BOOLEAN, todo : SUBSET Hashed]

LEMMA SectionNames == Hashed \subseteq Sections /\ Rest \in Sections /\ Rest \notin Hashed
  BY SiteAssumption DEF Sections, Rest

LEMMA DirectoryTypes ==
  /\ NoEntry \in Entry /\ NoManifest \in Fingerprints
  /\ NoPages \in [Sections -> Page \union {NoPage}]
  /\ \A is \in {"absent", "empty", "debris", "site"}, marker \in BOOLEAN :
        Dir(is, marker) \in Directory
<1>1. NoEntry \in Entry
  BY SiteAssumption DEF NoEntry, Entry, NoSum
<1>2. NoManifest \in Fingerprints
  BY <1>1 DEF NoManifest, Fingerprints
<1>3. NoPages \in [Sections -> Page \union {NoPage}]
  BY DEF NoPages
<1>4. QED
  BY <1>1, <1>2, <1>3 DEF Dir, Directory, Fingerprints

\* The fingerprint of a section and what is written of it are well typed.
LEMMA WrittenTypes ==
  ASSUME TypeOK, NEW s \in Sections
  PROVE  /\ Current(s) \in Entry /\ Recorded(s) \in Entry \union {NoEntry}
         /\ Fresh(s) \in Page
<1>1. Current(s) \in Entry
  BY SiteAssumption, SectionNames DEF TypeOK, Current, Entry, Sections
<1>2. Recorded(s) \in Entry \union {NoEntry}
  BY <1>1 DEF Recorded, TypeOK, Directory
<1>3. Fresh(s) \in Page
  BY DEF Fresh, Page, TypeOK
<1>4. QED
  BY <1>1, <1>2, <1>3

LEMMA TypeInit == Init => TypeOK
<1>1. Dir("absent", FALSE) \in Directory
  BY DirectoryTypes
<1>2. NoSum \in 0..MaxLoads \union {NoSum} /\ 0 \in 0..MaxLoads /\ 0 \in 0..MaxRuns /\ 0 \in 0..MaxCode /\ 0 \in 0..MaxAside
  BY SiteAssumption
<1>3. NoBuild \in Builds
  BY DirectoryTypes DEF NoBuild, Builds
<1>4. NoIngestion \in Ingestions
  BY DEF NoIngestion, Ingestions
<1>5. SUFFICES ASSUME Init PROVE TypeOK
  OBVIOUS
<1>6. core \in [Sections -> 0..MaxLoads] /\ sums \in [Hashed -> (0..MaxLoads) \union {NoSum}]
  BY <1>2, <1>5 DEF Init
<1>6a. code \in [Sections -> 0..MaxCode] /\ style \in 0..MaxCode /\ aside \in [Sections -> 0..MaxAside]
  BY <1>2, <1>5 DEF Init
<1>7. QED
  BY <1>1, <1>2, <1>3, <1>4, <1>5, <1>6, <1>6a DEF Init, TypeOK, NoDir, Builds, Ingestions

LEMMA TypeStep == TypeOK /\ [Next]_vars => TypeOK'
<1> SUFFICES ASSUME TypeOK, [Next]_vars PROVE TypeOK'
  OBVIOUS
<1>a. NoDir \in Directory /\ Abandoned \in Directory
  BY DirectoryTypes DEF NoDir, Abandoned
<1>b. NoManifest \in Fingerprints
  BY DirectoryTypes
<1>c. NoBuild \in Builds
  BY <1>b DEF NoBuild, Builds
<1>d. NoIngestion \in Ingestions
  BY DEF NoIngestion, Ingestions
<1> USE DEF TypeOK, Builds, Ingestions, sources
<1>1. CASE Ingest
  BY <1>1 DEF Ingest, NoIngestion, db, sources, dirs
<1>2. ASSUME NEW s \in Sections, Load(s) PROVE TypeOK'
  <2>1. core' \in [Sections -> 0..MaxLoads]
    BY <1>2, SiteAssumption DEF Load
  <2>2. QED
    BY <1>2, <2>1 DEF Load, dirs
<1>2a. ASSUME NEW s \in Hashed, LoadUnlisted(s) PROVE TypeOK'
  <2>1. aside' \in [Sections -> 0..MaxAside]
    BY <1>2a, SiteAssumption, SectionNames DEF LoadUnlisted
  <2>2. QED
    BY <1>2a, <2>1 DEF LoadUnlisted, db, dirs
<1>3. CASE EndRun
  <2>1. runs' \in 0..MaxRuns
    BY <1>3, SiteAssumption DEF EndRun
  <2>2. ing' \in Ingestions
    BY <1>3 DEF EndRun
  <2>3. QED
    BY <1>3, <2>1, <2>2 DEF EndRun, dirs
<1>4. CASE SourceFails
  BY <1>4 DEF SourceFails, db, sources, dirs
<1>5. CASE LoadsDone
  <2>1. ing' \in Ingestions /\ last' \in {"failed", "some", "all"}
    BY <1>5, <1>d DEF LoadsDone, Ingested
  <2>2. QED
    BY <1>5, <2>1 DEF LoadsDone, db, sources, dirs
<1>6. ASSUME NEW s \in Hashed, Checksum(s) PROVE TypeOK'
  BY <1>6, SectionNames DEF Checksum, dirs
<1>7. CASE ChecksumsDone
  BY <1>7 DEF ChecksumsDone, db, sources, dirs
<1>8. CASE Refresh
  BY <1>8, <1>d DEF Refresh, Ingested, dirs
<1>9. CASE RefreshFails \/ KillIngestion
  BY <1>9, <1>d DEF RefreshFails, KillIngestion, Ingested, db, sources, dirs
<1>10. CASE EditAll
  BY <1>10, SiteAssumption DEF EditAll, db, dirs
<1>10a. ASSUME NEW s \in Sections, EditOwn(s) PROVE TypeOK'
  <2>1. code' \in [Sections -> 0..MaxCode]
    BY <1>10a, SiteAssumption, SectionNames DEF EditOwn
  <2>2. QED
    BY <1>10a, <2>1 DEF EditOwn, db, dirs
<1>10b. ASSUME NEW s \in Sections, EditUnlisted(s) PROVE TypeOK'
  <2>1. aside' \in [Sections -> 0..MaxAside]
    BY <1>10b, SiteAssumption DEF EditUnlisted
  <2>2. QED
    BY <1>10b, <2>1 DEF EditUnlisted, db, dirs
<1>11. CASE Begin
  BY ZenonT(30), <1>11, <1>c DEF Begin, NoBuild, db, sources, dirs
<1>12. CASE NothingToDo \/ Refuse \/ Keep
  BY <1>12, <1>c DEF NothingToDo, Refuse, Keep, db, sources, dirs
<1>13. CASE Prepare
  <2>1. project' \in Directory
    BY <1>13, DirectoryTypes DEF Prepare
  <2>2. QED
    BY ZenonT(30), <1>13, <2>1 DEF Prepare, db, sources
<1>14. ASSUME NEW s \in Sections, WriteSection(s) PROVE TypeOK'
  <2>1. project' \in Directory
    BY <1>14, WrittenTypes DEF WriteSection, Directory
  <2>2. build.new \in Fingerprints /\ [build.new EXCEPT ![s] = IF s \in Hashed THEN Recorded(s) ELSE NoEntry] \in Fingerprints
    BY WrittenTypes DEF Fingerprints
  <2>3. build' \in Builds
    BY <1>14, <2>2 DEF WriteSection
  <2>4. QED
    BY <1>14, <2>1, <2>3 DEF WriteSection, db, sources
<1>15. CASE EndBuildAt
  <2>1. [build.new EXCEPT ![Rest] = Current(Rest)] \in Fingerprints
    BY WrittenTypes, SectionNames DEF Fingerprints
  <2>2. project' \in Directory
    BY <1>15, <2>1 DEF EndBuildAt, Directory, Fingerprints
  <2>3. QED
    BY <1>15, <2>2 DEF EndBuildAt, Goto, db, sources
<1>16. CASE ClearFormer \/ MoveOut \/ MoveIn
  BY <1>16, <1>a DEF ClearFormer, MoveOut, MoveIn, Goto, db, sources
<1>17. CASE RemoveFormer \/ BuildFails
  BY <1>17, <1>a, <1>c DEF RemoveFormer, BuildFails, db, sources
<1>18. CASE KillBuild
  <2>1. project' \in Directory /\ former' \in Directory
    <3>1. \A d \in Directory : d.marker \in BOOLEAN
      BY DEF Directory
    <3>2. \A d \in Directory : Remains(d) \subseteq Directory
      BY <1>a, <3>1, DirectoryTypes DEF Remains
    <3>3. Unprepared \subseteq Directory
      BY <3>2, DirectoryTypes DEF Unprepared
    <3>4. QED
      BY <1>18, <1>a, <3>2, <3>3 DEF KillBuild
  <2>2. QED
    BY <1>18, <2>1, <1>c DEF KillBuild, db, sources
<1>19. CASE UNCHANGED vars
  BY <1>19 DEF vars, db, sources, dirs
<1>20. QED
  BY <1>1, <1>2, <1>2a, <1>3, <1>4, <1>5, <1>6, <1>7, <1>8, <1>9, <1>10, <1>10a, <1>10b, <1>11, <1>12, <1>13,
     <1>14, <1>15, <1>16, <1>17, <1>18, <1>19 DEF Next, Edit

\* The variables always have their types: counters within their bounds, directories
\* and manifests with an entry per section of checksum.Sections, and the rest.
THEOREM SiteTypeCorrect == Spec => []TypeOK
<1>1. QED
  BY TypeInit, TypeStep, PTL DEF Spec
-----------------------------------------------------------------------------
(* What is served                                                          *)

UnderWay == {"pages", "ended", "cleared", "moved"}
Built == {"ended", "cleared", "moved"}

\* What is served is whole, and so is what will take its place: between the end of
\* buildAt and setInPlace, nothing touches the construction.
ServeInv ==
    /\ out = NoDir \/ Whole(out)
    /\ build.pc \in Built => build.todo = {}
    /\ build.pc \in {"cleared", "moved", "placed"} => build.kind # "sections"
    /\ build.pc \in UnderWay => project.marker
    /\ build.pc \in UnderWay /\ build.kind # "sections" =>
          \A s \in Sections \ build.todo : project.pages[s] # NoPage
    /\ build.pc \in Built => project.ended

\* The manifest of no site has no fingerprint: a section is copied from a whole site.
LEMMA CopiedFromASite ==
  ASSUME ServeInv, NEW s \in Sections, Unchanged(s)
  PROVE  Whole(out) /\ out.manifest[s] = Current(s)
<1>1. out.manifest[s].data # NoSum
  BY DEF Unchanged
<1>2. NoDir.manifest[s].data = NoSum
  BY DEF NoDir, Dir, NoManifest, NoEntry
<1>3. QED
  BY <1>1, <1>2 DEF ServeInv, Unchanged

LEMMA WrittenIsAPage ==
  ASSUME TypeOK, NEW s \in Sections
  PROVE  Fresh(s) # NoPage
<1>1. Fresh(s).core \in 0..MaxLoads
  BY DEF Fresh, TypeOK
<1>2. QED
  BY <1>1, SiteAssumption DEF NoPage, NoSum

LEMMA ServeInit == Init => ServeInv
  BY DEF Init, ServeInv, NoBuild, UnderWay, Built

LEMMA ServeUnchanged == ServeInv /\ UNCHANGED <<out, project, build>> => ServeInv'
  BY DEF ServeInv, Whole

LEMMA ServeStep == TypeOK /\ ServeInv /\ [Next]_vars => ServeInv'
<1> SUFFICES ASSUME TypeOK, ServeInv, [Next]_vars PROVE ServeInv'
  OBVIOUS
<1> USE DEF Built, UnderWay
<1>1. CASE \/ Ingest \/ (\E s \in Sections : Load(s)) \/ (\E s \in Hashed : LoadUnlisted(s)) \/ EndRun \/ SourceFails \/ LoadsDone
           \/ (\E s \in Hashed : Checksum(s)) \/ ChecksumsDone \/ Refresh \/ RefreshFails
           \/ KillIngestion \/ Edit \/ UNCHANGED vars
  BY <1>1, ServeUnchanged DEF Ingest, Load, LoadUnlisted, EndRun, SourceFails, LoadsDone, Checksum,
     ChecksumsDone, Refresh, RefreshFails, KillIngestion, Edit, EditAll, EditOwn, EditUnlisted, vars, dirs
<1>2. CASE Begin
  BY <1>2 DEF Begin, NoBuild, ServeInv, dirs, Whole
<1>3. CASE NothingToDo \/ Refuse \/ Keep
  BY <1>3 DEF NothingToDo, Refuse, Keep, NoBuild, ServeInv, dirs, Whole
<1>4. CASE Prepare
  BY <1>4 DEF Prepare, Dir, ServeInv, Whole, TypeOK, Builds
<1>5. ASSUME NEW s \in Sections, WriteSection(s) PROVE ServeInv'
  <2>1. project'.pages[s] # NoPage
    <3>1. Fresh(s) # NoPage
      BY WrittenIsAPage
    <3>2. Unchanged(s) => out.pages[s] # NoPage
      BY CopiedFromASite DEF Whole
    <3>3. QED
      BY <1>5, <3>1, <3>2 DEF WriteSection, TypeOK, Directory
  <2>2. \A t \in Sections \ {s} : project'.pages[t] = project.pages[t]
    BY <1>5 DEF WriteSection, TypeOK, Directory
  <2>3. /\ build'.todo = build.todo \ {s} /\ build'.kind = build.kind /\ build'.pc = build.pc
        /\ At("pages") /\ project'.marker = project.marker /\ out' = out
    BY <1>5 DEF WriteSection, TypeOK, Directory, Builds
  <2>4. QED
    BY <2>1, <2>2, <2>3 DEF ServeInv, At, Whole
<1>6. CASE EndBuildAt
  BY <1>6 DEF EndBuildAt, Goto, At, ServeInv, Whole, TypeOK, Directory, Builds
<1>7. CASE ClearFormer \/ MoveOut
  BY <1>7 DEF ClearFormer, MoveOut, Publishable, Goto, At, ServeInv, Whole, TypeOK, Builds
<1>8. CASE MoveIn
  <2>1. Whole(project)
    BY <1>8 DEF MoveIn, At, ServeInv, Whole, TypeOK, Directory
  <2>2. QED
    BY <1>8, <2>1 DEF MoveIn, Goto, At, ServeInv, Whole, TypeOK, Builds
<1>9. CASE RemoveFormer \/ BuildFails \/ KillBuild
  BY <1>9 DEF RemoveFormer, BuildFails, KillBuild, NoBuild, ServeInv, Whole
<1>10. QED
  BY <1>1, <1>2, <1>3, <1>4, <1>5, <1>6, <1>7, <1>8, <1>9 DEF Next

\* What is served is always a site whose build ended, with every section written:
\* whatever failed or was killed, and wherever, setInPlace never shows another.
THEOREM WholeSite == Spec => []WholeSiteServed
<1>1. ServeInv => WholeSiteServed
  BY DEF ServeInv, WholeSiteServed, Whole
<1>2. QED
  BY <1>1, TypeInit, TypeStep, ServeInit, ServeStep, PTL DEF Spec

\* A served site leaves its place only to be kept aside, when its successor is whole:
\* between the two renames of setInPlace a kill leaves both on the disk.
THEOREM SafeSwap == Spec => SwapIsSafe
<1>1. TypeOK /\ ServeInv /\ [Next]_vars =>
         [Whole(out) => Whole(out') \/ (Whole(former') /\ Whole(project'))]_vars
  <2> SUFFICES ASSUME TypeOK, ServeInv, [Next]_vars, Whole(out), ~Whole(out')
               PROVE  Whole(former') /\ Whole(project')
    OBVIOUS
  <2>1. out' # out
    OBVIOUS
  <2>2. MoveOut \/ MoveIn
    BY <2>1 DEF Next, vars, dirs, Ingest, Load, LoadUnlisted, EndRun, SourceFails, LoadsDone, Checksum,
       ChecksumsDone, Refresh, RefreshFails, KillIngestion, Edit, EditAll, EditOwn, EditUnlisted, Begin, NothingToDo, Prepare,
       Refuse, WriteSection, EndBuildAt, Keep, ClearFormer, RemoveFormer, BuildFails, KillBuild
  <2>3. build.pc \in {"cleared", "moved"} => Whole(project)
    BY DEF ServeInv, Whole, UnderWay, Built, TypeOK, Directory
  <2>4. CASE MoveOut
    BY <2>3, <2>4 DEF MoveOut, At, Whole
  <2>5. CASE MoveIn
    BY <2>3, <2>5 DEF MoveIn, At, Whole
  <2>6. QED
    BY <2>2, <2>4, <2>5
<1>2. QED
  BY <1>1, TypeInit, TypeStep, ServeInit, ServeStep, PTL DEF Spec, SwapIsSafe
-----------------------------------------------------------------------------
(* The database between ingestions                                         *)

Summed == \A s \in Hashed : sums[s] = core[s]

\* Without overlap: the checksums are never ahead of the tables, and an ingestion
\* that ends as "all" has counted a fetch run and computed every one of them.
IngestionInv ==
    /\ build.pc # "idle" => Ing("idle")
    /\ Ing("idle") => ~ing.fetched
    /\ \A s \in Hashed : sums[s] <= core[s]
    /\ Ing("sums") => /\ ing.all /\ ing.ok /\ ing.fetched
                      /\ \A s \in Hashed \ ing.todo : sums[s] = core[s]
    /\ Ing("mv") /\ ing.all /\ ing.ok => ing.fetched /\ Summed
    /\ Ing("idle") /\ last = "all" => Summed

LEMMA IngestionInit == Init => IngestionInv
<1> SUFFICES ASSUME Init PROVE IngestionInv
  OBVIOUS
<1>1. \A s \in Hashed : core[s] = 0 /\ sums[s] = -1
  BY SectionNames DEF Init, NoSum
<1>2. QED
  BY <1>1 DEF Init, IngestionInv, NoIngestion, NoBuild, Ing

LEMMA Numbers ==
  ASSUME TypeOK
  PROVE  /\ \A s \in Sections : core[s] \in Nat /\ mv[s] \in Nat
         /\ \A s \in Hashed : sums[s] \in Int
         /\ runs \in Nat /\ style \in Nat /\ \A s \in Sections : code[s] \in Nat
         /\ \A d \in {out, project, former}, s \in Sections :
               /\ d.pages[s].core \in Int /\ d.pages[s].mv \in Int
               /\ d.pages[s].code \in Nat /\ d.pages[s].style \in Nat
               /\ d.manifest[s].data \in Int /\ d.manifest[s].code \in Nat /\ d.manifest[s].style \in Nat
         /\ \A s \in Sections :
               build.new[s].data \in Int /\ build.new[s].code \in Nat /\ build.new[s].style \in Nat
<1>1. \A p \in Page \union {NoPage} : p.core \in Int /\ p.mv \in Int /\ p.code \in Nat /\ p.style \in Nat
  BY SiteAssumption DEF Page, NoPage, NoSum
<1>2. \A e \in Entry \union {NoEntry} : e.data \in Int /\ e.code \in Nat /\ e.style \in Nat
  BY SiteAssumption DEF Entry, NoEntry, NoSum
<1>3. \A d \in {out, project, former}, s \in Sections :
         d.pages[s] \in Page \union {NoPage} /\ d.manifest[s] \in Entry \union {NoEntry}
  BY DEF TypeOK, Directory
<1>4. \A s \in Sections : build.new[s] \in Entry \union {NoEntry}
  BY DEF TypeOK, Builds, Fingerprints
<1>5. /\ \A s \in Sections : core[s] \in Nat /\ mv[s] \in Nat
      /\ \A s \in Hashed : sums[s] \in Int
      /\ runs \in Nat /\ style \in Nat /\ \A s \in Sections : code[s] \in Nat
  BY SiteAssumption DEF TypeOK, NoSum
<1>6. QED
  BY <1>1, <1>2, <1>3, <1>4, <1>5

\* The steps of an ingestion, and those of the database that are none.
DatabaseStep ==
    \/ Ingest \/ (\E s \in Sections : Load(s)) \/ (\E s \in Hashed : LoadUnlisted(s)) \/ EndRun \/ SourceFails \/ LoadsDone
    \/ (\E s \in Hashed : Checksum(s)) \/ ChecksumsDone \/ Refresh \/ RefreshFails
    \/ KillIngestion \/ Edit
BuildStep ==
    \/ Begin \/ NothingToDo \/ Prepare \/ Refuse \/ (\E s \in Sections : WriteSection(s))
    \/ EndBuildAt \/ Keep \/ ClearFormer \/ MoveOut \/ MoveIn \/ RemoveFormer
    \/ BuildFails \/ KillBuild

\* A build leaves the database alone and starts when no ingestion runs.
LEMMA BuildSteps ==
  ASSUME BuildStep
  PROVE  /\ UNCHANGED <<allowed, core, mv, sums, runs, code, style, aside, ing, last>>
         /\ Begin \/ build.pc # "idle"
<1> USE DEF db, sources
<1>1. CASE Begin \/ NothingToDo \/ Prepare \/ Refuse
  BY <1>1 DEF Begin, NothingToDo, Prepare, Refuse, At
<1>2. CASE \E s \in Sections : WriteSection(s)
  BY <1>2 DEF WriteSection, At
<1>3. CASE EndBuildAt \/ Keep \/ ClearFormer \/ MoveOut \/ MoveIn \/ RemoveFormer
  BY <1>3 DEF EndBuildAt, Keep, ClearFormer, MoveOut, MoveIn, RemoveFormer, At
<1>4. CASE BuildFails \/ KillBuild
  BY <1>4 DEF BuildFails, KillBuild, At
<1>5. QED
  BY <1>1, <1>2, <1>3, <1>4 DEF BuildStep

\* Without overlap an ingestion, and an edit, find no build; both leave the directories.
LEMMA DatabaseSteps ==
  ASSUME IngestionInv, ~May("overlap"), DatabaseStep
  PROVE  build.pc = "idle" /\ UNCHANGED <<out, project, former, build, allowed>>
<1> USE DEF dirs
<1>1. UNCHANGED <<out, project, former, build, allowed>>
  BY DEF DatabaseStep, Ingest, Load, LoadUnlisted, EndRun, SourceFails, LoadsDone, Checksum,
     ChecksumsDone, Refresh, RefreshFails, KillIngestion, Edit, EditAll, EditOwn, EditUnlisted
<1>2. Ing("idle") => Ingest \/ Edit
  BY DEF DatabaseStep, Ingest, Load, LoadUnlisted, EndRun, SourceFails, LoadsDone, Checksum,
     ChecksumsDone, Refresh, RefreshFails, KillIngestion, Edit, EditAll, EditOwn, EditUnlisted, Ing
<1>3. Ingest \/ Edit => build.pc = "idle"
  BY DEF Ingest, Edit, EditAll, EditOwn, EditUnlisted, NoBuildRuns
<1>4. QED
  BY <1>1, <1>2, <1>3 DEF IngestionInv

LEMMA IngestionInvStep == TypeOK /\ IngestionInv /\ ~May("overlap") /\ [Next]_vars => IngestionInv'
<1> SUFFICES ASSUME TypeOK, IngestionInv, ~May("overlap"), [Next]_vars PROVE IngestionInv'
  OBVIOUS
<1> USE DEF Ing
<1>1. CASE BuildStep
  <2>1. Begin => ing.pc = "idle"
    BY DEF Begin, NoIngestionRuns
  <2>2. ing.pc = "idle"
    BY <1>1, <2>1, BuildSteps DEF IngestionInv
  <2>3. QED
    BY <1>1, <2>2, BuildSteps DEF IngestionInv, Summed
<1>2. CASE UNCHANGED vars
  BY <1>2 DEF vars, db, sources, IngestionInv, Summed
<1>3. CASE DatabaseStep
  <2>1. build.pc = "idle" /\ build' = build
    BY <1>3, DatabaseSteps
  <2>2. CASE Ingest
    BY <2>1, <2>2 DEF Ingest, NoIngestion, db, sources, IngestionInv, Summed
  <2>3. ASSUME NEW s \in Sections, Load(s) PROVE IngestionInv'
    <3>1. \A t \in Hashed : sums[t] <= core'[t]
      BY <2>3, Numbers, SectionNames DEF Load, IngestionInv, TypeOK
    <3>2. QED
      BY <2>1, <2>3, <3>1 DEF Load, IngestionInv
  <2>4. CASE EndRun \/ SourceFails
    BY <2>1, <2>4 DEF EndRun, SourceFails, IngestionInv, db, sources, TypeOK, Ingestions
  <2>5. CASE LoadsDone
    <3>1. UNCHANGED <<core, sums>> /\ ing.pc = "load"
      BY <2>5 DEF LoadsDone, db, sources
    <3>2. CASE ing' = NoIngestion /\ last' = "failed"
      BY <2>1, <3>1, <3>2 DEF NoIngestion, IngestionInv
    <3>3. CASE ing' = [ing EXCEPT !.pc = IF ing.all /\ ing.ok THEN "sums" ELSE "mv", !.todo = Hashed]
      <4>1. /\ ing'.pc = IF ing.all /\ ing.ok THEN "sums" ELSE "mv"
            /\ ing'.todo = Hashed
            /\ ing'.all = ing.all /\ ing'.ok = ing.ok /\ ing'.fetched = ing.fetched
        BY <3>3 DEF TypeOK, Ingestions
      <4>2. ing.all /\ ing.ok => ing.fetched
        BY <2>5 DEF LoadsDone
      <4>3. QED
        BY <2>1, <3>1, <4>1, <4>2 DEF IngestionInv
    <3>4. QED
      BY <2>5, <3>2, <3>3 DEF LoadsDone, Ingested
  <2>6. ASSUME NEW s \in Hashed, Checksum(s) PROVE IngestionInv'
    <3>1. \A t \in Hashed : sums'[t] = IF t = s THEN core[s] ELSE sums[t]
      BY <2>6 DEF Checksum, TypeOK
    <3>2. ing' = [ing EXCEPT !.todo = @ \ {s}] /\ ing.pc = "sums" /\ core' = core
      BY <2>6 DEF Checksum
    <3>3. core[s] <= core[s]
      BY Numbers, SectionNames
    <3>4. QED
      BY <2>1, <3>1, <3>2, <3>3 DEF IngestionInv, TypeOK, Ingestions
  <2>7. CASE ChecksumsDone
    BY <2>1, <2>7 DEF ChecksumsDone, db, sources, IngestionInv, Summed, TypeOK, Ingestions
  <2>8. CASE Refresh
    BY <2>1, <2>8 DEF Refresh, Ingested, NoIngestion, IngestionInv, Summed
  <2>9. CASE RefreshFails \/ KillIngestion
    BY <2>1, <2>9 DEF RefreshFails, KillIngestion, Ingested, NoIngestion, db, sources, IngestionInv
  <2>10. CASE Edit
    BY <2>1, <2>10 DEF Edit, EditAll, EditOwn, EditUnlisted, db, sources, IngestionInv, Summed
  <2>11. ASSUME NEW s \in Hashed, LoadUnlisted(s) PROVE IngestionInv'
    BY <2>1, <2>11 DEF LoadUnlisted, db, IngestionInv, Summed
  <2>12. QED
    BY <1>3, <2>2, <2>3, <2>4, <2>5, <2>6, <2>7, <2>8, <2>9, <2>10, <2>11 DEF DatabaseStep
<1>4. QED
  BY <1>1, <1>2, <1>3 DEF Next, BuildStep, DatabaseStep
-----------------------------------------------------------------------------
(* The tables that a site shows                                            *)

\* What a manifest says of a section is never ahead of its pages, nor these of the
\* tables and the sources.
Bounds(pages, entries) ==
    \A s \in Sections :
        /\ pages[s].core <= core[s]
        /\ entries[s].code <= pages[s].code /\ pages[s].code <= code[s]
        /\ entries[s].style <= pages[s].style /\ pages[s].style <= style
        /\ s \in Hashed => entries[s].data <= pages[s].core

\* A manifest that names the last fetch run has pages of what that run loaded: a step
\* that fails later, or has no fetch run, leaves an ingestion that is not "all".
RestIsDated(d) ==
    /\ d.manifest[Rest].data <= runs
    /\ d.manifest[Rest].data = runs =>
          /\ ~ing.fetched
          /\ Ing("idle") /\ last = "all" => d.pages[Rest].core = core[Rest]

\* A node writes what it reads, or copies from the site before; only the hashed sections
\* are copied.
FreshOrCopied(p, s, site) == p = Fresh(s) \/ (s \in Hashed /\ p = site.pages[s])
WrittenOrCopied ==
    build.pc \in UnderWay /\ build.kind # "sections" => \A s \in Sections \ build.todo :
        FreshOrCopied(project.pages[s], s, IF At("moved") THEN former ELSE out)

TablesInv ==
    /\ Bounds(out.pages, out.manifest) /\ RestIsDated(out)
    /\ At("prepare") => build.new = NoManifest
    /\ At("pages") => Bounds(project.pages, build.new) /\ build.new[Rest] = NoEntry
    /\ build.pc \in Built => Bounds(project.pages, project.manifest) /\ RestIsDated(project)
    /\ WrittenOrCopied
    /\ build.pc \in UnderWay /\ build.kind = "full" /\ last = "all" =>
          \A s \in Sections \ build.todo :
              /\ project.pages[s].core = core[s]
              /\ project.pages[s].code = code[s] /\ project.pages[s].style = style

\* The rest is always written.
LEMMA RestIsFresh ==
  ASSUME TablesInv, build.pc \in UnderWay, build.kind # "sections", Rest \notin build.todo
  PROVE  project.pages[Rest] = Fresh(Rest)
<1>1. FreshOrCopied(project.pages[Rest], Rest, IF At("moved") THEN former ELSE out)
  BY SectionNames DEF TablesInv, WrittenOrCopied
<1>2. QED
  BY <1>1, SectionNames DEF FreshOrCopied

\* A directory without pages satisfies the bounds.
LEMMA EmptyBounds ==
  ASSUME TypeOK
  PROVE  /\ Bounds(NoPages, NoManifest)
         /\ NoManifest[Rest] = NoEntry /\ NoEntry.data = -1 /\ NoEntry.data < runs
<1>1. \A s \in Sections : /\ NoPages[s].core = -1 /\ NoPages[s].code = 0 /\ NoPages[s].style = 0
                          /\ NoManifest[s].data = -1 /\ NoManifest[s].code = 0
                          /\ NoManifest[s].style = 0
  BY DEF NoPages, NoPage, NoManifest, NoEntry, NoSum
<1>2. NoManifest[Rest] = NoEntry /\ NoEntry.data = -1
  BY SectionNames DEF NoManifest, NoEntry, NoSum
<1>3. QED
  BY <1>1, <1>2, Numbers DEF Bounds

LEMMA TablesInit == Init => TypeOK /\ TablesInv
<1> SUFFICES ASSUME Init PROVE TypeOK /\ TablesInv
  OBVIOUS
<1>1. TypeOK
  BY TypeInit
<1>2. out.pages = NoPages /\ out.manifest = NoManifest /\ build.pc = "idle"
  BY DEF Init, NoDir, Dir, NoBuild
<1>3. RestIsDated(out)
  BY <1>1, <1>2, EmptyBounds, Numbers DEF RestIsDated
<1>4. QED
  BY <1>1, <1>2, <1>3, EmptyBounds DEF TablesInv, WrittenOrCopied, At, Built, UnderWay

\* Loads, runs and edits only increase the counters that bound a directory.
LEMMA BoundsGrow ==
  ASSUME TypeOK, TypeOK', Bounds(out.pages, out.manifest), out' = out, style <= style',
         \A s \in Sections : core[s] <= core'[s] /\ code[s] <= code'[s]
  PROVE  Bounds(out.pages, out.manifest)'
<1> SUFFICES ASSUME NEW s \in Sections
             PROVE  /\ out.pages[s].core <= core'[s] /\ out.pages[s].code <= code'[s]
                    /\ out.manifest[s].code <= out.pages[s].code
                    /\ out.manifest[s].style <= out.pages[s].style /\ out.pages[s].style <= style'
                    /\ s \in Hashed => out.manifest[s].data <= out.pages[s].core
  BY DEF Bounds
<1>1. /\ core[s] \in Int /\ core'[s] \in Int /\ code[s] \in Int /\ code'[s] \in Int
      /\ style \in Int /\ style' \in Int
      /\ out.pages[s].core \in Int /\ out.pages[s].code \in Int /\ out.pages[s].style \in Int
  BY Numbers, SiteAssumption DEF TypeOK
<1>2. QED
  BY <1>1 DEF Bounds

\* An ingestion that ends as "all" counted a run: what is dated before it stays so.
LEMMA TablesOfDatabase ==
  ASSUME TypeOK, TypeOK', IngestionInv, ~May("overlap"), TablesInv, DatabaseStep
  PROVE  TablesInv'
<1>1. build.pc = "idle" /\ UNCHANGED <<out, project, build>>
  BY DatabaseSteps
<1>2. /\ runs \in Nat /\ runs' \in Nat /\ out.manifest[Rest].data \in Int
      /\ \A s \in Sections : core[s] \in Nat
  BY Numbers, SectionNames DEF TypeOK
<1>3. style <= style' /\ \A s \in Sections : core[s] <= core'[s] /\ code[s] <= code'[s]
  <2>1. style <= style /\ \A s \in Sections : core[s] <= core[s] /\ code[s] <= code[s]
    BY Numbers
  <2>2. CASE EditAll
    BY <2>1, <2>2, Numbers DEF EditAll, db
  <2>3. ASSUME NEW s \in Sections, EditOwn(s)
        PROVE  style <= style' /\ \A t \in Sections : core[t] <= core'[t] /\ code[t] <= code'[t]
    <3>1. \A t \in Sections : code'[t] = code[t] \/ code'[t] = code[t] + 1
      BY <2>3 DEF EditOwn
    <3>2. style' = style /\ core' = core
      BY <2>3 DEF EditOwn, db
    <3>3. QED
      BY <2>1, <3>1, <3>2, Numbers
  <2>4. ASSUME NEW s \in Sections, Load(s)
        PROVE  style <= style' /\ \A t \in Sections : core[t] <= core'[t] /\ code[t] <= code'[t]
    BY <2>1, <2>4, Numbers DEF Load, sources, TypeOK
  <2>5. CASE UNCHANGED <<core, code, style>>
    BY <2>1, <2>5
  <2>6. QED
    BY <2>2, <2>3, <2>4, <2>5 DEF DatabaseStep, Ingest, LoadUnlisted, EndRun, SourceFails, LoadsDone,
       Checksum, ChecksumsDone, Refresh, RefreshFails, KillIngestion, Edit, EditUnlisted, db, sources
<1>4. Bounds(out.pages, out.manifest)'
  BY <1>1, <1>3, BoundsGrow DEF TablesInv
<1>5. RestIsDated(out)'
  <2>1. CASE EndRun
    BY <1>1, <1>2, <2>1 DEF EndRun, TablesInv, RestIsDated
  <2>2. CASE ~EndRun
    <3>1. runs' = runs
      BY <2>2 DEF DatabaseStep, Ingest, Load, LoadUnlisted, SourceFails, LoadsDone, Checksum,
         ChecksumsDone, Refresh, RefreshFails, KillIngestion, Edit, EditAll, EditOwn, EditUnlisted, db, sources
    <3>2. SUFFICES ASSUME out.manifest[Rest].data = runs
                   PROVE  /\ ~ing'.fetched
                          /\ ing'.pc = "idle" /\ last' = "all" => out.pages[Rest].core = core'[Rest]
      BY <1>1, <3>1 DEF TablesInv, RestIsDated, Ing
    <3>3. ~ing.fetched
      BY <3>2 DEF TablesInv, RestIsDated
    <3>4. CASE \/ Ingest \/ (\E s \in Sections : Load(s)) \/ (\E s \in Hashed : LoadUnlisted(s)) \/ SourceFails
               \/ (\E s \in Hashed : Checksum(s)) \/ ChecksumsDone
      BY <3>3, <3>4 DEF Ingest, Load, LoadUnlisted, SourceFails, Checksum, ChecksumsDone, Ing, NoIngestion,
         TypeOK, Ingestions
    <3>5. CASE Refresh
      BY <3>3, <3>5 DEF Refresh, Ingested, NoIngestion, IngestionInv, Ing
    <3>6. CASE LoadsDone \/ RefreshFails \/ KillIngestion
      <4>1. CASE Ingested("failed")
        BY <4>1 DEF Ingested, NoIngestion
      <4>2. CASE ing' = [ing EXCEPT !.pc = IF ing.all /\ ing.ok THEN "sums" ELSE "mv", !.todo = Hashed]
        <5>1. ing'.fetched = ing.fetched /\ ing'.pc # "idle"
          BY <4>2 DEF TypeOK, Ingestions
        <5>2. QED
          BY <3>3, <5>1
      <4>3. QED
        BY <3>6, <4>1, <4>2 DEF LoadsDone, RefreshFails, KillIngestion
    <3>7. CASE Edit
      BY <3>2, <3>3, <3>7 DEF Edit, EditAll, EditOwn, EditUnlisted, db, sources, TablesInv, RestIsDated, Ing
    <3>8. QED
      BY <2>2, <3>4, <3>5, <3>6, <3>7 DEF DatabaseStep
  <2>3. QED
    BY <2>1, <2>2
<1>6. QED
  BY <1>1, <1>4, <1>5 DEF TablesInv, WrittenOrCopied, At, Built, UnderWay

\* Writing a section keeps the bounds: what is copied is what its manifest entry dates.
LEMMA WriteKeepsBounds ==
  ASSUME TypeOK, IngestionInv, TablesInv, NEW s \in Sections, WriteSection(s)
  PROVE  /\ Bounds(project'.pages, build'.new) /\ build'.new[Rest] = NoEntry
         /\ s \in Hashed /\ Unchanged(s) =>
               /\ sums[s] <= out.pages[s].core /\ out.pages[s].core <= core[s]
               /\ out.pages[s].code = code[s] /\ out.pages[s].style = style
<1>1. /\ At("pages") /\ Bounds(project.pages, build.new) /\ build.new[Rest] = NoEntry
      /\ Bounds(out.pages, out.manifest)
  BY DEF WriteSection, TablesInv
<1>2. /\ project'.pages = [project.pages EXCEPT ![s] =
            IF s \in Hashed /\ Fresh(s).whole /\ Unchanged(s) THEN out.pages[s] ELSE Fresh(s)]
      /\ build'.new = [build.new EXCEPT ![s] = IF s \in Hashed THEN Recorded(s) ELSE NoEntry]
  BY DEF WriteSection, TypeOK, Directory, Builds
<1>3. /\ project.pages \in [Sections -> Page \union {NoPage}]
      /\ build.new \in Fingerprints
  BY DEF TypeOK, Directory, Builds
<1>4. s \in Hashed /\ Unchanged(s) =>
         /\ sums[s] <= out.pages[s].core /\ out.pages[s].core <= core[s]
         /\ out.pages[s].code = code[s] /\ out.pages[s].style = style
  <2> SUFFICES ASSUME s \in Hashed, Unchanged(s)
               PROVE  /\ sums[s] <= out.pages[s].core /\ out.pages[s].core <= core[s]
                      /\ out.pages[s].code = code[s] /\ out.pages[s].style = style
    OBVIOUS
  <2>1. out.manifest[s].data = sums[s] /\ out.manifest[s].code = code[s] /\ out.manifest[s].style = style
    BY SectionNames DEF Unchanged, Current
  <2>2. QED
    BY <1>1, <2>1, Numbers DEF Bounds
<1>5. /\ Fresh(s).core = core[s] /\ Fresh(s).code = code[s] /\ Fresh(s).style = style
      /\ core[s] \in Nat /\ code[s] \in Nat /\ style \in Nat /\ (s \in Hashed => sums[s] \in Int)
  BY Numbers DEF Fresh
<1>6. s \in Hashed => /\ Recorded(s) \in {out.manifest[s], Current(s)}
                      /\ Recorded(s) = out.manifest[s] /\ Recorded(s) # Current(s) => ~Fresh(s).whole
                      /\ Current(s).data = sums[s] /\ Current(s).code = code[s] /\ Current(s).style = style
  BY SectionNames DEF Recorded, Fresh, Current
<1>7. ASSUME NEW t \in Sections
      PROVE  /\ project'.pages[t].core <= core[t]
             /\ build'.new[t].code <= project'.pages[t].code /\ project'.pages[t].code <= code[t]
             /\ build'.new[t].style <= project'.pages[t].style /\ project'.pages[t].style <= style
             /\ t \in Hashed => build'.new[t].data <= project'.pages[t].core
  <2>1. CASE t # s
    BY <1>1, <1>2, <1>3, <2>1 DEF Bounds, Fingerprints
  <2>2. CASE t = s /\ s \notin Hashed
    <3>1. project'.pages[t] = Fresh(s) /\ build'.new[t] = NoEntry
      BY <1>2, <1>3, <2>2 DEF Fingerprints
    <3>2. QED
      BY <1>5, <2>2, <3>1 DEF NoEntry
  <2>3. CASE t = s /\ s \in Hashed
    <3>1. build'.new[t] = Recorded(s)
      BY <1>2, <1>3, <2>3 DEF Fingerprints
    <3>2. CASE Fresh(s).whole /\ Unchanged(s)
      <4>1. project'.pages[t] = out.pages[s]
        BY <1>2, <1>3, <2>3, <3>2
      <4>2. out.manifest[s] = Current(s)
        BY <3>2 DEF Unchanged
      <4>3. Recorded(s) = Current(s)
        BY <1>6, <2>3, <4>2
      <4>4. QED
        BY <1>4, <1>5, <1>6, <2>3, <3>1, <3>2, <4>1, <4>3, Numbers
    <3>3. CASE ~(Fresh(s).whole /\ Unchanged(s))
      <4>1. project'.pages[t] = Fresh(s)
        BY <1>2, <1>3, <2>3, <3>3
      <4>2. out.manifest[s].code <= code[s] /\ out.manifest[s].style <= style /\ out.manifest[s].data <= core[s]
        BY <1>1, <2>3, Numbers DEF Bounds
      <4>3. sums[s] <= core[s]
        BY <2>3 DEF IngestionInv
      <4>4. QED
        BY <1>5, <1>6, <2>3, <3>1, <4>1, <4>2, <4>3
    <3>4. QED
      BY <3>2, <3>3
  <2>4. QED
    BY <2>1, <2>2, <2>3
<1>8. Bounds(project'.pages, build'.new)
  BY <1>7 DEF Bounds
<1>9. build'.new[Rest] = NoEntry
  BY <1>1, <1>2, <1>3, SectionNames DEF Fingerprints
<1>10. QED
  BY <1>4, <1>8, <1>9

LEMMA TablesOfBuild ==
  ASSUME TypeOK, TypeOK', ServeInv, IngestionInv, TablesInv, ~May("overlap"), BuildStep
  PROVE  TablesInv'
<1>1. UNCHANGED <<allowed, core, mv, sums, runs, code, style, aside, ing, last>>
  BY BuildSteps
<1>2. ASSUME out' = out
      PROVE  Bounds(out.pages, out.manifest)' /\ RestIsDated(out)'
  BY <1>1, <1>2 DEF TablesInv, Bounds, RestIsDated, Ing
<1>3. ASSUME out' = out, build'.pc \notin UnderWay \union {"prepare"} PROVE TablesInv'
  BY <1>2, <1>3 DEF TablesInv, WrittenOrCopied, At, UnderWay, Built
<1>4. CASE Begin
  <2>1. out' = out /\ build'.pc \in {"nothing", "prepare"} /\ build'.new = NoManifest
    BY <1>4 DEF Begin, NoBuild, dirs
  <2>2. QED
    BY <1>2, <2>1 DEF TablesInv, WrittenOrCopied, At, UnderWay, Built
<1>5. CASE NothingToDo \/ Refuse \/ Keep
  BY <1>3, <1>5 DEF NothingToDo, Refuse, Keep, NoBuild, UnderWay, dirs
<1>6. CASE RemoveFormer \/ BuildFails \/ KillBuild
  BY <1>3, <1>6 DEF RemoveFormer, BuildFails, KillBuild, NoBuild, UnderWay
<1>7. CASE Prepare
  <2>1. /\ project'.pages = NoPages /\ out' = out /\ build'.pc = "pages"
        /\ build'.new = NoManifest /\ build'.kind = build.kind
        /\ build.kind # "sections" => build'.todo = Sections
    BY <1>7 DEF Prepare, Dir, TypeOK, Builds, TablesInv, At
  <2>2. Bounds(project.pages, build.new)' /\ build'.new[Rest] = NoEntry
    BY <1>1, <2>1, EmptyBounds DEF Bounds
  <2>3. WrittenOrCopied'
    BY <2>1 DEF WrittenOrCopied
  <2>4. build'.kind = "full" => Sections \ build'.todo = {}
    BY <2>1
  <2>5. QED
    BY <1>2, <2>1, <2>2, <2>3, <2>4 DEF TablesInv, At, Built
<1>8. ASSUME NEW s \in Sections, WriteSection(s) PROVE TablesInv'
  <2>1. /\ out' = out /\ build'.pc = "pages" /\ build.pc = "pages" /\ build'.kind = build.kind
        /\ build'.todo = build.todo \ {s}
    BY <1>8 DEF WriteSection, At, TypeOK, Builds
  <2>2. Bounds(project.pages, build.new)' /\ build'.new[Rest] = NoEntry
    BY <1>1, <1>8, WriteKeepsBounds DEF Bounds
  <2>3. \A t \in Sections : project'.pages[t] =
           IF t # s THEN project.pages[t]
           ELSE IF s \in Hashed /\ Fresh(s).whole /\ Unchanged(s) THEN out.pages[s] ELSE Fresh(s)
    BY <1>8 DEF WriteSection, TypeOK, Directory
  <2>4. Fresh(s).core = core[s] /\ Fresh(s).code = code[s] /\ Fresh(s).style = style
         /\ \A t \in Sections : Fresh(t)' = Fresh(t)
    BY <1>1, <2>1 DEF Fresh, sources
  <2>5. WrittenOrCopied'
    BY <2>1, <2>3, <2>4 DEF WrittenOrCopied, FreshOrCopied, TablesInv, UnderWay, At
  <2>6. ASSUME last = "all", build.kind = "full", NEW t \in Sections \ build'.todo
        PROVE  project'.pages[t].core = core[t] /\ project'.pages[t].code = code[t] /\ project'.pages[t].style = style
    <3>1. CASE t # s
      BY <2>1, <2>3, <2>6, <3>1 DEF TablesInv, UnderWay
    <3>2. CASE t = s /\ ~(s \in Hashed /\ Unchanged(s))
      BY <2>3, <2>4, <3>2
    <3>3. CASE t = s /\ s \in Hashed /\ Unchanged(s)
      <4>1. sums[s] = core[s]
        BY <2>1, <2>6, <3>3 DEF IngestionInv, Summed
      <4>2. out.pages[s].core = core[s] /\ out.pages[s].code = code[s] /\ out.pages[s].style = style
        BY <1>8, <3>3, <4>1, WriteKeepsBounds, Numbers
      <4>3. QED
        BY <2>3, <2>4, <3>3, <4>2
    <3>4. QED
      BY <3>1, <3>2, <3>3
  <2>7. QED
    BY <1>1, <1>2, <2>1, <2>2, <2>5, <2>6 DEF TablesInv, At, Built
<1>9. CASE EndBuildAt
  <2>1. /\ out' = out /\ build.pc = "pages" /\ build'.pc = "ended" /\ build.todo = {}
        /\ build'.todo = {} /\ build'.kind = build.kind /\ project'.pages = project.pages
        /\ project'.manifest = IF build.kind = "full" THEN [build.new EXCEPT ![Rest] = Current(Rest)]
                               ELSE build.new
    BY <1>9 DEF EndBuildAt, Goto, At, TypeOK, Builds, Directory
  <2>2. /\ Bounds(project.pages, build.new) /\ build.new[Rest] = NoEntry
    BY <2>1 DEF TablesInv, At
  <2>3. build.kind = "full" => /\ project.pages[Rest].core = core[Rest]
                              /\ project.pages[Rest].code = code[Rest]
                              /\ project.pages[Rest].style = style
    BY <2>1, RestIsFresh DEF UnderWay, Fresh
  <2>3a. /\ Current(Rest).data = runs /\ Current(Rest).code = code[Rest]
         /\ Current(Rest).style = style
    BY DEF Current
  <2>4. \A s \in Sections : project'.manifest[s] =
           IF s = Rest /\ build.kind = "full" THEN Current(Rest) ELSE build.new[s]
    BY <2>1 DEF TypeOK, Builds, Fingerprints
  <2>5. Bounds(project.pages, project.manifest)'
    BY <1>1, <2>1, <2>2, <2>3, <2>3a, <2>4, Numbers, SectionNames DEF Bounds
  <2>6. RestIsDated(project)'
    <3>1. ~ing.fetched
      BY <2>1 DEF IngestionInv
    <3>2. CASE build.kind = "full"
      BY <1>1, <2>1, <2>3, <2>3a, <2>4, <3>1, <3>2, Numbers, SectionNames DEF RestIsDated
    <3>3. CASE build.kind # "full"
      BY <1>1, <2>2, <2>4, <3>3, EmptyBounds, Numbers, SectionNames DEF RestIsDated
    <3>4. QED
      BY <3>2, <3>3
  <2>7. WrittenOrCopied'
    BY <1>1, <2>1 DEF TablesInv, WrittenOrCopied, FreshOrCopied, UnderWay, Fresh, sources, At
  <2>8. QED
    BY <1>1, <1>2, <2>1, <2>5, <2>6, <2>7 DEF TablesInv, At, UnderWay, Built
<1>10. CASE ClearFormer
  <2>1. /\ out' = out /\ project' = project /\ build.pc = "ended" /\ build'.pc = "cleared"
        /\ build'.todo = build.todo /\ build'.kind = build.kind
    BY <1>10 DEF ClearFormer, Goto, At, TypeOK, Builds
  <2>2. QED
    BY <1>1, <2>1 DEF TablesInv, WrittenOrCopied, FreshOrCopied, Bounds, RestIsDated, Ing, Fresh, sources,
       At, UnderWay, Built
<1>11. CASE MoveOut
  <2>1. /\ out'.pages = NoPages /\ out'.manifest = NoManifest /\ project' = project /\ former' = out
        /\ build.pc = "cleared" /\ build'.pc = "moved"
        /\ build'.todo = build.todo /\ build'.kind = build.kind
    BY <1>11 DEF MoveOut, Goto, At, TypeOK, Builds, NoDir, Dir
  <2>2. Bounds(out.pages, out.manifest)' /\ RestIsDated(out)'
    BY <1>1, <2>1, EmptyBounds, Numbers DEF Bounds, RestIsDated
  <2>3. QED
    BY <1>1, <2>1, <2>2 DEF TablesInv, WrittenOrCopied, FreshOrCopied, Bounds, RestIsDated, Ing, Fresh,
       sources, At, UnderWay, Built
<1>12. CASE MoveIn
  <2>1. out' = project /\ build.pc = "moved" /\ build'.pc = "placed"
    BY <1>12 DEF MoveIn, Goto, At, TypeOK, Builds
  <2>2. QED
    BY <1>1, <2>1 DEF TablesInv, WrittenOrCopied, Bounds, RestIsDated, Ing, At, UnderWay, Built
<1>13. QED
  BY <1>4, <1>5, <1>6, <1>7, <1>8, <1>9, <1>10, <1>11, <1>12 DEF BuildStep

-----------------------------------------------------------------------------
\* What the checksums and the manifests say is only kept when no build runs during an
\* ingestion: a build that reads the tables in the middle of one dates them too late.
Kept == ~May("overlap") => IngestionInv /\ TablesInv
IInv == TypeOK /\ ServeInv /\ Kept

LEMMA InvInit == Init => IInv
  BY TypeInit, ServeInit, IngestionInit, TablesInit DEF IInv, Kept

LEMMA ScenarioStays == [Next]_vars => allowed' = allowed
<1> SUFFICES ASSUME [Next]_vars PROVE allowed' = allowed
  OBVIOUS
<1>1. CASE BuildStep
  BY <1>1, BuildSteps
<1>2. CASE DatabaseStep \/ UNCHANGED vars
  BY <1>2 DEF DatabaseStep, Ingest, Load, LoadUnlisted, EndRun, SourceFails, LoadsDone, Checksum,
     ChecksumsDone, Refresh, RefreshFails, KillIngestion, Edit, EditAll, EditOwn, EditUnlisted, vars
<1>3. QED
  BY <1>1, <1>2 DEF Next, BuildStep, DatabaseStep

LEMMA InvStep == IInv /\ [Next]_vars => IInv'
<1> SUFFICES ASSUME IInv, [Next]_vars PROVE IInv'
  OBVIOUS
<1>1. TypeOK' /\ ServeInv' /\ allowed' = allowed
  BY TypeStep, ServeStep, ScenarioStays DEF IInv
<1>2. ASSUME ~May("overlap") PROVE IngestionInv' /\ TablesInv'
  <2>1. IngestionInv /\ TablesInv
    BY <1>2 DEF IInv, Kept
  <2>2. IngestionInv'
    BY <1>2, <2>1, IngestionInvStep DEF IInv
  <2>3. CASE BuildStep
    BY <1>1, <1>2, <2>1, <2>2, <2>3, TablesOfBuild DEF IInv
  <2>4. CASE DatabaseStep
    BY <1>1, <1>2, <2>1, <2>2, <2>4, TablesOfDatabase DEF IInv
  <2>5. CASE UNCHANGED vars
    BY <2>1, <2>2, <2>5 DEF vars, db, sources, dirs, TablesInv, WrittenOrCopied, FreshOrCopied, Bounds, RestIsDated, Ing, Fresh, At
  <2>6. QED
    BY <2>2, <2>3, <2>4, <2>5 DEF Next, BuildStep, DatabaseStep
<1>3. QED
  BY <1>1, <1>2 DEF IInv, Kept, May

\* A site that nothing has changed is the one in place.
LEMMA UnchangedIsFresh ==
  ASSUME TypeOK, IngestionInv, TablesInv, Ing("idle"), last = "all",
         NEW s \in Sections, Unchanged(s)
  PROVE  out.pages[s].core = core[s] /\ out.pages[s].code = code[s] /\ out.pages[s].style = style
<1>1. out.manifest[s] = Current(s)
  BY DEF Unchanged
<1>2. out.manifest[s].code = code[s] /\ out.manifest[s].style = style /\ out.manifest[s].data = IF s = Rest THEN runs ELSE sums[s]
  BY <1>1 DEF Current
<1>3. out.pages[s].code = code[s] /\ out.pages[s].style = style
  BY <1>2, Numbers DEF TablesInv, Bounds
<1>4. CASE s = Rest
  BY <1>2, <1>3, <1>4 DEF TablesInv, RestIsDated
<1>5. CASE s \in Hashed
  BY <1>2, <1>3, <1>5, Numbers, SectionNames DEF TablesInv, Bounds, IngestionInv, Summed
<1>6. QED
  BY <1>4, <1>5 DEF Sections

\* What a full build leaves in place, built, copied or found unchanged.
LEMMA SettlesSteps ==
  ASSUME TypeOK, [Next]_vars, Settles
  PROVE  \/ /\ build.pc = "moved" /\ build.kind = "full" /\ out' = project
         \/ /\ ing.pc = "idle" \/ May("overlap")
            /\ build.pc = "idle" /\ out' = out /\ \A s \in Sections : Unchanged(s)
<1>1. CASE At("moved") /\ build'.pc = "placed" /\ build.kind = "full"
  <2>1. build' # build /\ At("moved") /\ build'.pc # "idle"
    BY <1>1 DEF At
  <2>2. BuildStep
    BY <2>1 DEF Next, BuildStep, vars, dirs, Ingest, Load, LoadUnlisted, EndRun, SourceFails, LoadsDone, Checksum,
       ChecksumsDone, Refresh, RefreshFails, KillIngestion, Edit, EditAll, EditOwn, EditUnlisted
  <2>3. MoveIn
    BY <2>1, <2>2 DEF BuildStep, Begin, NothingToDo, Prepare, Refuse, WriteSection, EndBuildAt, Keep,
       ClearFormer, MoveOut, RemoveFormer, BuildFails, KillBuild, At, NoBuild
  <2>4. QED
    BY <1>1, <2>3 DEF MoveIn, At
<1>2. CASE At("idle") /\ build'.pc = "nothing"
  <2>1. build' # build /\ At("idle") /\ build'.pc # "idle" /\ build'.pc # "prepare"
    BY <1>2 DEF At
  <2>2. BuildStep
    BY <2>1 DEF Next, BuildStep, vars, dirs, Ingest, Load, LoadUnlisted, EndRun, SourceFails, LoadsDone, Checksum,
       ChecksumsDone, Refresh, RefreshFails, KillIngestion, Edit, EditAll, EditOwn, EditUnlisted
  <2>3. Begin
    BY <2>1, <2>2 DEF BuildStep, NothingToDo, Prepare, Refuse, WriteSection, EndBuildAt, Keep,
       ClearFormer, MoveOut, MoveIn, RemoveFormer, BuildFails, KillBuild, At
  <2>4. QED
    BY <1>2, <2>3 DEF Begin, NoBuild, NoIngestionRuns, dirs, At
<1>3. QED
  BY <1>1, <1>2 DEF Settles

\* After a complete ingestion no page of a full build shows other listed tables, or other
\* listed sources, than the last ones, even when a view was left behind or a build
\* truncated; and what is put in place is, section by section, what would be written
\* now or the page of the site before, the rest always being written.
THEOREM FreshTablesHold == Spec => FreshTables
<1>1. IInv /\ [Next]_vars =>
         [Settles /\ last = "all" /\ ~May("overlap") => \A s \in Sections :
             /\ out'.pages[s].core = core[s] /\ out'.pages[s].code = code[s] /\ out'.pages[s].style = style
             /\ At("moved") => out'.pages[s] = Fresh(s) \/ (s \in Hashed /\ out'.pages[s] = former.pages[s])
             ]_vars
  <2> SUFFICES ASSUME IInv, [Next]_vars, Settles, last = "all", ~May("overlap"), NEW s \in Sections
               PROVE  /\ out'.pages[s].core = core[s] /\ out'.pages[s].code = code[s]
                      /\ out'.pages[s].style = style
                      /\ At("moved") => out'.pages[s] = Fresh(s) \/ (s \in Hashed /\ out'.pages[s] = former.pages[s])
    OBVIOUS
  <2>1. TypeOK /\ ServeInv /\ IngestionInv /\ TablesInv
    BY DEF IInv, Kept
  <2>2. CASE build.pc = "moved" /\ build.kind = "full" /\ out' = project
    BY <2>1, <2>2 DEF ServeInv, TablesInv, WrittenOrCopied, FreshOrCopied, UnderWay, Built, At
  <2>3. CASE Ing("idle") /\ build.pc = "idle" /\ out' = out /\ \A t \in Sections : Unchanged(t)
    BY <2>1, <2>3, UnchangedIsFresh DEF At
  <2>4. QED
    BY <2>1, <2>2, <2>3, SettlesSteps DEF Ing
<1>2. QED
  BY <1>1, InvInit, InvStep, PTL DEF Spec, FreshTables
-----------------------------------------------------------------------------
(* The materialized views that a site shows                                *)

ViewsBelow(pages, entries) ==
    \A s \in Sections :
        /\ pages[s] = NoPage \/ pages[s].whole
        /\ pages[s].mv <= core[s]
        /\ s \in Hashed => entries[s].data <= pages[s].mv

RestIsShown(d) ==
    d.manifest[Rest].data = runs /\ Ing("idle") /\ last = "all" => d.pages[Rest].mv = core[Rest]

\* When the views are refreshed at the end of every ingestion and no build is
\* truncated, a checksum that was computed is not ahead of the views either, and what
\* the manifest says of a section holds of what its pages show of them.
ViewsInv ==
    /\ build.kind # "truncated"
    /\ \A s \in Sections : mv[s] <= core[s]
    /\ Ing("idle") \/ Ing("load") => \A s \in Hashed : sums[s] <= mv[s]
    /\ Ing("idle") /\ last = "all" => \A s \in Sections : mv[s] = core[s]
    /\ ViewsBelow(out.pages, out.manifest) /\ RestIsShown(out)
    /\ At("pages") => ViewsBelow(project.pages, build.new)
    /\ build.pc \in Built => ViewsBelow(project.pages, project.manifest) /\ RestIsShown(project)
    /\ build.pc \in UnderWay /\ build.kind = "full" /\ last = "all" =>
          \A s \in Sections \ build.todo : project.pages[s].mv = core[s]

LEMMA RegularScenarios == Regular => ~May("overlap") /\ ~May("matviews") /\ ~May("truncated")
  BY DEF Regular, May

LEMMA EmptyViews ==
  ASSUME TypeOK
  PROVE  ViewsBelow(NoPages, NoManifest)
<1> SUFFICES ASSUME NEW s \in Sections
             PROVE  /\ NoPages[s] = NoPage /\ NoPages[s].mv <= core[s]
                    /\ NoManifest[s].data <= NoPages[s].mv
  BY DEF ViewsBelow
<1>1. NoPages[s] = NoPage /\ NoPages[s].mv = -1 /\ NoManifest[s].data = -1
  BY DEF NoPages, NoPage, NoManifest, NoEntry, NoSum
<1>2. core[s] \in Nat
  BY Numbers
<1>3. QED
  BY <1>1, <1>2

LEMMA ViewsInit == Init => ViewsInv
<1> SUFFICES ASSUME Init PROVE ViewsInv
  OBVIOUS
<1>1. TypeOK
  BY TypeInit
<1>2. out.pages = NoPages /\ out.manifest = NoManifest /\ build = NoBuild /\ last = "failed"
  BY DEF Init, NoDir, Dir
<1>3. \A s \in Sections : mv[s] = 0 /\ core[s] = 0
  BY DEF Init
<1>4. \A s \in Hashed : sums[s] = -1
  BY DEF Init, NoSum
<1>5. ViewsBelow(out.pages, out.manifest) /\ RestIsShown(out)
  BY <1>1, <1>2, EmptyViews DEF RestIsShown
<1>6. (\A s \in Sections : mv[s] <= core[s]) /\ (\A s \in Hashed : sums[s] <= mv[s])
  BY <1>3, <1>4, SectionNames
<1>7. build.kind = "full" /\ build.pc = "idle"
  BY <1>2 DEF NoBuild
<1>8. QED
  BY <1>2, <1>5, <1>6, <1>7 DEF ViewsInv, At, Built, UnderWay

\* An ingestion that ends as "all" counted a run after every manifest was written.
LEMMA DatedBefore ==
  ASSUME TypeOK, IngestionInv, TablesInv, DatabaseStep,
         out.manifest[Rest].data = runs', ing'.pc = "idle", last' = "all"
  PROVE  UNCHANGED <<core, mv, runs, ing, last>>
<1>1. out.manifest[Rest].data <= runs /\ runs \in Nat
  BY Numbers DEF TablesInv, RestIsDated
<1>2. CASE Edit
  BY <1>2 DEF Edit, EditAll, EditOwn, EditUnlisted, db, sources
<1>3. CASE EndRun
  BY <1>1, <1>3 DEF EndRun
<1>4. CASE Refresh
  BY <1>4 DEF Refresh, Ingested, IngestionInv, TablesInv, RestIsDated, Ing
<1>5. CASE LoadsDone
  <2>1. ~Ingested("failed")
    BY DEF Ingested
  <2>2. ing' = [ing EXCEPT !.pc = IF ing.all /\ ing.ok THEN "sums" ELSE "mv", !.todo = Hashed]
    BY <1>5, <2>1 DEF LoadsDone
  <2>3. ing'.pc # "idle"
    BY <2>2 DEF TypeOK, Ingestions
  <2>4. QED
    BY <2>3
<1>6. CASE RefreshFails \/ KillIngestion
  BY <1>6 DEF RefreshFails, KillIngestion, Ingested
<1>7. CASE Ingest \/ (\E s \in Sections : Load(s)) \/ (\E s \in Hashed : LoadUnlisted(s)) \/ SourceFails \/ ChecksumsDone
  BY <1>7 DEF Ingest, Load, LoadUnlisted, SourceFails, ChecksumsDone, NoIngestion, Ing, TypeOK, Ingestions
<1>8. CASE \E s \in Hashed : Checksum(s)
  BY <1>8 DEF Checksum, Ing, TypeOK, Ingestions
<1>9. QED
  BY <1>2, <1>3, <1>4, <1>5, <1>6, <1>7, <1>8 DEF DatabaseStep

LEMMA ViewsOfDatabase ==
  ASSUME TypeOK, TypeOK', IngestionInv, TablesInv, ViewsInv, Regular, DatabaseStep
  PROVE  ViewsInv'
<1>1. build.pc = "idle" /\ UNCHANGED <<out, project, build>>
  BY DatabaseSteps, RegularScenarios
<1>2. \A s \in Sections : core[s] \in Nat /\ mv[s] \in Nat /\ core'[s] \in Nat
  BY Numbers DEF TypeOK
<1>3. \A s \in Hashed : sums[s] \in Int
  BY Numbers
<1>4. \A s \in Sections : core[s] <= core'[s]
  <2>1. ASSUME NEW s \in Sections, Load(s) PROVE \A t \in Sections : core[t] <= core'[t]
    BY <1>2, <2>1 DEF Load, TypeOK
  <2>2. CASE UNCHANGED core
    BY <1>2, <2>2
  <2>3. QED
    BY <2>1, <2>2 DEF DatabaseStep, Ingest, LoadUnlisted, EndRun, SourceFails, LoadsDone, Checksum,
       ChecksumsDone, Refresh, RefreshFails, KillIngestion, Edit, EditAll, EditOwn, EditUnlisted, db, sources
<1>5. ViewsBelow(out.pages, out.manifest)'
  <2> SUFFICES ASSUME NEW s \in Sections PROVE out.pages[s].mv <= core'[s]
    BY <1>1 DEF ViewsInv, ViewsBelow
  <2>1. out.pages[s].mv <= core[s] /\ out.pages[s].mv \in Int
    BY Numbers DEF ViewsInv, ViewsBelow
  <2>2. QED
    BY <1>2, <1>4, <2>1
<1>6. RestIsShown(out)'
  <2> SUFFICES ASSUME out.manifest[Rest].data = runs', ing'.pc = "idle", last' = "all"
               PROVE  out.pages[Rest].mv = core'[Rest]
    BY <1>1 DEF RestIsShown, Ing
  <2>1. UNCHANGED <<core, mv, runs, ing, last>>
    BY DatedBefore
  <2>2. QED
    BY <2>1 DEF ViewsInv, RestIsShown, Ing
<1>7. \A s \in Sections : mv'[s] <= core'[s]
  <2>1. CASE Refresh
    BY <1>2, <2>1 DEF Refresh
  <2>2. CASE UNCHANGED mv
    BY <1>2, <1>4, <2>2 DEF ViewsInv
  <2>3. QED
    BY <2>1, <2>2 DEF DatabaseStep, Ingest, Load, LoadUnlisted, EndRun, SourceFails, LoadsDone, Checksum,
       ChecksumsDone, RefreshFails, KillIngestion, Edit, EditAll, EditOwn, EditUnlisted, db, sources
<1>8. /\ ing'.pc \in {"idle", "load"} => \A s \in Hashed : sums'[s] <= mv'[s]
      /\ ing'.pc = "idle" /\ last' = "all" => \A s \in Sections : mv'[s] = core'[s]
  <2> USE DEF Ing
  <2>1. CASE Ingest \/ (\E s \in Sections : Load(s)) \/ (\E s \in Hashed : LoadUnlisted(s)) \/ EndRun \/ SourceFails
    BY <2>1 DEF Ingest, Load, LoadUnlisted, EndRun, SourceFails, NoIngestion, db, sources, ViewsInv, TypeOK, Ingestions
  <2>2. CASE LoadsDone
    <3>1. ing.pc = "load" /\ UNCHANGED <<sums, mv>>
      BY <2>2 DEF LoadsDone, db, sources
    <3>2. CASE Ingested("failed")
      BY <3>1, <3>2 DEF Ingested, ViewsInv
    <3>3. CASE ing' = [ing EXCEPT !.pc = IF ing.all /\ ing.ok THEN "sums" ELSE "mv", !.todo = Hashed]
      <4>1. ing'.pc \notin {"idle", "load"}
        BY <3>3 DEF TypeOK, Ingestions
      <4>2. QED
        BY <4>1
    <3>4. QED
      BY <2>2, <3>2, <3>3 DEF LoadsDone
  <2>3. CASE (\E s \in Hashed : Checksum(s)) \/ ChecksumsDone
    BY <2>3 DEF Checksum, ChecksumsDone, TypeOK, Ingestions
  <2>4. CASE Refresh
    BY <2>4 DEF Refresh, IngestionInv
  <2>5. CASE RefreshFails \/ KillIngestion
    BY <2>5, RegularScenarios DEF RefreshFails, KillIngestion, Ingested, db, sources, ViewsInv
  <2>6. CASE Edit
    BY <2>6 DEF Edit, EditAll, EditOwn, EditUnlisted, db, sources, ViewsInv
  <2>7. QED
    BY <2>1, <2>2, <2>3, <2>4, <2>5, <2>6 DEF DatabaseStep
<1>9. QED
  BY <1>1, <1>5, <1>6, <1>7, <1>8 DEF ViewsInv, At, Ing, Built, UnderWay

\* What a node writes shows the views of the moment; what it copies, the views that
\* its checksum was computed with.
LEMMA WriteKeepsViews ==
  ASSUME TypeOK, ServeInv, IngestionInv, ViewsInv, NEW s \in Sections, WriteSection(s)
  PROVE  /\ ViewsBelow(project'.pages, build'.new)
         /\ last = "all" => project'.pages[s].mv = core[s]
<1>1. /\ project'.pages = [project.pages EXCEPT ![s] =
            IF s \in Hashed /\ Fresh(s).whole /\ Unchanged(s) THEN out.pages[s] ELSE Fresh(s)]
      /\ build'.new = [build.new EXCEPT ![s] = IF s \in Hashed THEN Recorded(s) ELSE NoEntry]
      /\ At("pages")
  BY DEF WriteSection, TypeOK, Directory, Builds
<1>2. /\ project.pages \in [Sections -> Page \union {NoPage}]
      /\ build.new \in Fingerprints
  BY DEF TypeOK, Directory, Builds
<1>3. Ing("idle") /\ build.kind # "truncated"
  BY <1>1 DEF IngestionInv, ViewsInv, At
<1>4. /\ mv[s] <= core[s] /\ (s \in Hashed => sums[s] <= mv[s])
      /\ last = "all" => mv[s] = core[s] /\ (s \in Hashed => sums[s] = core[s])
  BY <1>3 DEF ViewsInv, IngestionInv, Summed
<1>5. /\ core[s] \in Nat /\ mv[s] \in Nat /\ (s \in Hashed => sums[s] \in Int)
      /\ out.pages[s].mv \in Int
  BY Numbers
<1>6. Fresh(s).mv = mv[s] /\ Fresh(s).whole
  BY <1>3 DEF Fresh
<1>7. s \in Hashed => Recorded(s) = Current(s) /\ Current(s).data = sums[s]
  BY <1>3, SectionNames DEF Recorded, Current
<1>8. s \in Hashed /\ Unchanged(s) =>
         /\ sums[s] <= out.pages[s].mv /\ out.pages[s].mv <= core[s]
         /\ out.pages[s].whole
  <2> SUFFICES ASSUME s \in Hashed, Unchanged(s)
               PROVE  /\ sums[s] <= out.pages[s].mv /\ out.pages[s].mv <= core[s]
                      /\ out.pages[s].whole
    OBVIOUS
  <2>1. Whole(out) /\ out.manifest[s].data = sums[s]
    BY <1>7, CopiedFromASite
  <2>2. QED
    BY <2>1 DEF ViewsInv, ViewsBelow, Whole
<1>9. /\ project'.pages[s].whole /\ project'.pages[s].mv <= core[s]
      /\ s \in Hashed => build'.new[s].data <= project'.pages[s].mv
      /\ last = "all" => project'.pages[s].mv = core[s]
  <2>1. CASE s \in Hashed /\ Unchanged(s)
    <3>1. project'.pages[s] = out.pages[s] /\ build'.new[s] = Current(s)
      BY <1>1, <1>2, <1>6, <1>7, <2>1 DEF Fingerprints
    <3>2. QED
      BY <1>4, <1>5, <1>7, <1>8, <2>1, <3>1
  <2>2. CASE ~(s \in Hashed /\ Unchanged(s))
    <3>1. project'.pages[s] = Fresh(s) /\ (s \in Hashed => build'.new[s] = Current(s))
      BY <1>1, <1>2, <1>7, <2>2 DEF Fingerprints
    <3>2. QED
      BY <1>4, <1>5, <1>6, <1>7, <3>1
  <2>3. QED
    BY <2>1, <2>2
<1>10. \A t \in Sections \ {s} : project'.pages[t] = project.pages[t] /\ build'.new[t] = build.new[t]
  BY <1>1, <1>2 DEF Fingerprints
<1>11. ViewsBelow(project'.pages, build'.new)
  BY <1>1, <1>9, <1>10 DEF ViewsInv, ViewsBelow
<1>12. QED
  BY <1>9, <1>11

LEMMA ViewsOfBuild ==
  ASSUME TypeOK, TypeOK', ServeInv, IngestionInv, TablesInv, ViewsInv, Regular, BuildStep
  PROVE  ViewsInv'
<1>1. UNCHANGED <<allowed, core, mv, sums, runs, code, style, aside, ing, last>>
  BY BuildSteps
<1>2. /\ \A s \in Sections : mv'[s] <= core'[s]
      /\ Ing("idle")' \/ Ing("load")' => \A s \in Hashed : sums'[s] <= mv'[s]
      /\ Ing("idle")' /\ last' = "all" => \A s \in Sections : mv'[s] = core'[s]
  BY <1>1 DEF ViewsInv, Ing
<1>3. ASSUME out' = out PROVE ViewsBelow(out.pages, out.manifest)' /\ RestIsShown(out)'
  BY <1>1, <1>3 DEF ViewsInv, ViewsBelow, RestIsShown, Ing
<1>4. ASSUME out' = out, build'.pc \notin UnderWay, build'.kind # "truncated" PROVE ViewsInv'
  BY <1>2, <1>3, <1>4 DEF ViewsInv, At, UnderWay, Built
<1>5. CASE Begin
  <2>1. out' = out /\ build'.pc \in {"nothing", "prepare"} /\ build'.kind # "truncated"
    BY <1>5, RegularScenarios DEF Begin, NoBuild, dirs
  <2>2. QED
    BY <1>4, <2>1 DEF UnderWay
<1>6. CASE NothingToDo \/ Refuse \/ Keep
  BY <1>4, <1>6 DEF NothingToDo, Refuse, Keep, NoBuild, UnderWay, dirs
<1>7. CASE RemoveFormer \/ BuildFails \/ KillBuild
  BY <1>4, <1>7 DEF RemoveFormer, BuildFails, KillBuild, NoBuild, UnderWay
<1>8. CASE Prepare
  <2>1. /\ project'.pages = NoPages /\ out' = out /\ build'.pc = "pages"
        /\ build'.new = NoManifest /\ build'.kind = build.kind
        /\ build.kind # "sections" => build'.todo = Sections
    BY <1>8 DEF Prepare, Dir, TypeOK, Builds, TablesInv, At
  <2>2. ViewsBelow(project.pages, build.new)'
    BY <1>1, <2>1, EmptyViews DEF ViewsBelow
  <2>3. build'.kind = "full" => Sections \ build'.todo = {}
    BY <2>1
  <2>4. QED
    BY <1>2, <1>3, <2>1, <2>2, <2>3 DEF ViewsInv, At, Built
<1>9. ASSUME NEW s \in Sections, WriteSection(s) PROVE ViewsInv'
  <2>1. /\ out' = out /\ build'.pc = "pages" /\ build.pc = "pages" /\ build'.kind = build.kind
        /\ build'.todo = build.todo \ {s}
    BY <1>9 DEF WriteSection, At, TypeOK, Builds
  <2>2. ViewsBelow(project.pages, build.new)'
    BY <1>1, <1>9, WriteKeepsViews DEF ViewsBelow
  <2>3. \A t \in Sections \ {s} : project'.pages[t] = project.pages[t]
    BY <1>9 DEF WriteSection, TypeOK, Directory
  <2>4. ASSUME last = "all", build.kind = "full", NEW t \in Sections \ build'.todo
        PROVE  project'.pages[t].mv = core[t]
    <3>1. CASE t # s
      BY <2>1, <2>3, <2>4, <3>1 DEF ViewsInv, UnderWay
    <3>2. CASE t = s
      BY <1>9, <2>4, <3>2, WriteKeepsViews
    <3>3. QED
      BY <3>1, <3>2
  <2>5. QED
    BY <1>1, <1>2, <1>3, <2>1, <2>2, <2>4 DEF ViewsInv, At, Built
<1>10. CASE EndBuildAt
  <2>1. /\ out' = out /\ build.pc = "pages" /\ build'.pc = "ended" /\ build.todo = {}
        /\ build'.todo = {} /\ build'.kind = build.kind /\ project'.pages = project.pages
        /\ project'.manifest = IF build.kind = "full" THEN [build.new EXCEPT ![Rest] = Current(Rest)]
                               ELSE build.new
    BY <1>10 DEF EndBuildAt, Goto, At, TypeOK, Builds, Directory
  <2>2. \A s \in Hashed : project'.manifest[s] = build.new[s]
    BY <2>1, SectionNames DEF TypeOK, Builds, Fingerprints
  <2>3. ViewsBelow(project.pages, project.manifest)'
    BY <1>1, <2>1, <2>2 DEF ViewsInv, ViewsBelow, At
  <2>4. RestIsShown(project)'
    <3>1. CASE build.kind = "full"
      <4>1. project.pages[Rest].mv = mv[Rest]
        BY <2>1, <3>1, RestIsFresh DEF UnderWay, Fresh
      <4>2. QED
        BY <1>1, <2>1, <4>1, SectionNames DEF ViewsInv, RestIsShown, Ing
    <3>2. CASE build.kind # "full"
      <4>1. project'.manifest[Rest] = NoEntry
        BY <2>1, <3>2 DEF TablesInv, At
      <4>2. QED
        BY <1>1, <4>1, EmptyBounds, Numbers DEF RestIsShown
    <3>3. QED
      BY <3>1, <3>2
  <2>5. QED
    BY <1>1, <1>2, <1>3, <2>1, <2>3, <2>4 DEF ViewsInv, At, UnderWay, Built
<1>11. CASE ClearFormer
  <2>1. /\ out' = out /\ project' = project /\ build.pc = "ended" /\ build'.pc = "cleared"
        /\ build'.todo = build.todo /\ build'.kind = build.kind
    BY <1>11 DEF ClearFormer, Goto, At, TypeOK, Builds
  <2>2. QED
    BY <1>1, <1>2, <1>3, <2>1 DEF ViewsInv, ViewsBelow, RestIsShown, Ing, At, UnderWay, Built
<1>12. CASE MoveOut
  <2>1. /\ out'.pages = NoPages /\ out'.manifest = NoManifest /\ project' = project
        /\ build.pc = "cleared" /\ build'.pc = "moved"
        /\ build'.todo = build.todo /\ build'.kind = build.kind
    BY <1>12 DEF MoveOut, Goto, At, TypeOK, Builds, NoDir, Dir
  <2>2. ViewsBelow(out.pages, out.manifest)' /\ RestIsShown(out)'
    BY <1>1, <2>1, EmptyBounds, EmptyViews, Numbers DEF ViewsBelow, RestIsShown
  <2>3. QED
    BY <1>1, <1>2, <2>1, <2>2 DEF ViewsInv, ViewsBelow, RestIsShown, Ing, At, UnderWay, Built
<1>13. CASE MoveIn
  <2>1. out' = project /\ build.pc = "moved" /\ build'.pc = "placed" /\ build'.kind = build.kind
    BY <1>13 DEF MoveIn, Goto, At, TypeOK, Builds
  <2>2. QED
    BY <1>1, <1>2, <2>1 DEF ViewsInv, ViewsBelow, RestIsShown, Ing, At, UnderWay, Built
<1>14. QED
  BY <1>5, <1>6, <1>7, <1>8, <1>9, <1>10, <1>11, <1>12, <1>13 DEF BuildStep

ViewsKept == Regular => ViewsInv

LEMMA ViewsStep == IInv /\ ViewsKept /\ [Next]_vars => ViewsKept'
<1> SUFFICES ASSUME IInv, ViewsKept, [Next]_vars, Regular' PROVE ViewsInv'
  BY DEF ViewsKept
<1> Regular
  BY ScenarioStays DEF Regular
<1>1. TypeOK /\ TypeOK' /\ ServeInv /\ IngestionInv /\ TablesInv /\ ViewsInv
  BY InvStep, RegularScenarios DEF IInv, Kept, ViewsKept
<1>2. CASE BuildStep
  BY <1>1, <1>2, ViewsOfBuild
<1>3. CASE DatabaseStep
  BY <1>1, <1>3, ViewsOfDatabase
<1>4. CASE UNCHANGED vars
  BY <1>1, <1>4 DEF vars, db, sources, dirs, ViewsInv, ViewsBelow, RestIsShown, Ing, At
<1>5. QED
  BY <1>2, <1>3, <1>4 DEF Next, BuildStep, DatabaseStep

\* After a complete ingestion, with no view left behind and no truncated build, a full
\* build leaves a site whose every page shows the listed tables, the views and the listed
\* sources of the moment, whatever failed, was killed or was partial before.
THEOREM FreshSiteHolds == Spec => FreshSite
<1>1. IInv /\ ViewsKept /\ [Next]_vars =>
         [Settles /\ last = "all" /\ Regular => UpToDate(out')]_vars
  <2> SUFFICES ASSUME IInv, ViewsKept, [Next]_vars, Settles, last = "all", Regular, NEW s \in Sections
               PROVE  /\ out'.pages[s].core = core[s] /\ out'.pages[s].mv = core[s] /\ out'.pages[s].whole
                      /\ out'.pages[s].code = code[s] /\ out'.pages[s].style = style
    BY DEF UpToDate
  <2>1. TypeOK /\ TypeOK' /\ ServeInv /\ ServeInv' /\ IngestionInv /\ TablesInv /\ ViewsInv
    BY InvStep, RegularScenarios DEF IInv, Kept, ViewsKept
  <2>2. /\ out'.pages[s].core = core[s] /\ out'.pages[s].mv = core[s]
        /\ out'.pages[s].code = code[s] /\ out'.pages[s].style = style
        /\ out'.pages[s] = NoPage \/ out'.pages[s].whole
    <3>1. CASE build.pc = "moved" /\ build.kind = "full" /\ out' = project
      BY <2>1, <3>1 DEF ServeInv, TablesInv, ViewsInv, ViewsBelow, UnderWay, Built
    <3>2. CASE Ing("idle") /\ out' = out /\ \A t \in Sections : Unchanged(t)
      <4>1. out.pages[s].core = core[s] /\ out.pages[s].code = code[s] /\ out.pages[s].style = style
        BY <2>1, <3>2, UnchangedIsFresh
      <4>2. out.manifest[s] = Current(s)
        BY <3>2 DEF Unchanged
      <4>3. CASE s = Rest
        BY <2>1, <3>2, <4>1, <4>2, <4>3 DEF Current, ViewsInv, ViewsBelow, RestIsShown
      <4>4. CASE s \in Hashed
        <5>1. out.manifest[s].data = sums[s] /\ sums[s] = core[s]
          BY <2>1, <3>2, <4>2, <4>4, SectionNames DEF Current, IngestionInv, Summed
        <5>2. out.pages[s].mv = core[s]
          BY <2>1, <4>4, <5>1, Numbers DEF ViewsInv, ViewsBelow
        <5>3. QED
          BY <2>1, <3>2, <4>1, <5>2 DEF ViewsInv, ViewsBelow
      <4>5. QED
        BY <4>3, <4>4 DEF Sections
    <3>3. QED
      BY <2>1, <3>1, <3>2, SettlesSteps, RegularScenarios DEF Ing
  <2>3. out'.pages[s] # NoPage
    BY <2>1, <2>2, Numbers DEF NoPage, NoSum
  <2>4. QED
    BY <2>2, <2>3
<1>2. Init => ViewsKept
  BY ViewsInit DEF ViewsKept
<1>3. QED
  BY <1>1, <1>2, InvInit, InvStep, ViewsStep, PTL DEF Spec, FreshSite
-----------------------------------------------------------------------------
(* The build on its graph                                                *)

\* A step changes neither what was asked nor the plan.
LEMMA PlanIsRigid == BuildNext => UNCHANGED plan
BY DEF BuildNext, Launch, Quote, Succeed, Fail, Arrival, buildVars, plan

\* A node launched was ready, and there was a slot for it.
LEMMA LaunchStep ==
    ASSUME Launch
    PROVE  \E n \in Needed :
              /\ n \notin running \union results \union failed
              /\ graph[n].deps \subseteq results
              /\ Cardinality(running) < Limit
              /\ running' = running \union {n}
              /\ UNCHANGED <<plan, results, failed, quoted>>
BY DEF Launch, Startable, Ready

LEMMA BuildTypeInit == BuildInit => BuildTypeOK
<1> SUFFICES ASSUME BuildInit PROVE BuildTypeOK
  OBVIOUS
<1>1. PICK needed \in {Closure(Declared, ResolveTargets(request))} :
        graph = [n \in needed |-> Declared[CHOOSE i \in DOMAIN Declared : Declared[i].name = n]]
  BY Zenon DEF BuildInit
<1>2. needed \subseteq NodeNames
  BY <1>1 DEF Closure
<1>3. ASSUME NEW n \in needed
      PROVE  Declared[CHOOSE i \in DOMAIN Declared : Declared[i].name = n] \in ToSet(Declared)
  BY <1>2, BuildGraphAssumption DEF NodeNames, ToSet
<1>4. graph \in [Needed -> ToSet(Declared)]
  BY <1>1, <1>3 DEF Needed
<1>5. IsFiniteSet({}) /\ Cardinality({}) = 0
  BY FS_EmptySet
<1> QED
  BY <1>4, <1>5, BuildGraphAssumption DEF BuildInit, BuildTypeOK

LEMMA BuildTypeStep == BuildTypeOK /\ [BuildNext]_buildVars => BuildTypeOK'
<1> SUFFICES ASSUME BuildTypeOK, [BuildNext]_buildVars PROVE BuildTypeOK'
  OBVIOUS
<1> USE BuildGraphAssumption
<1>1. UNCHANGED plan
  BY PlanIsRigid DEF buildVars
<1>2. CASE Launch
  <2>1. PICK n \in Needed :
          /\ n \notin running \union results \union failed
          /\ Cardinality(running) < Limit
          /\ running' = running \union {n}
          /\ UNCHANGED <<plan, results, failed, quoted>>
    BY <1>2, LaunchStep
  <2>2. IsFiniteSet(running') /\ Cardinality(running') = Cardinality(running) + 1
    BY <2>1, FS_AddElement DEF BuildTypeOK
  <2>3. Cardinality(running) \in Nat
    BY FS_CardinalityType DEF BuildTypeOK
  <2> QED
    BY <2>1, <2>2, <2>3 DEF BuildTypeOK, Needed, plan
<1>3. ASSUME NEW n \in running, Succeed(n) \/ Fail(n) PROVE BuildTypeOK'
  <2>1. IsFiniteSet(running') /\ Cardinality(running') = Cardinality(running) - 1
    BY <1>3, FS_RemoveElement DEF BuildTypeOK, Succeed, Fail, Arrival
  <2>2. Cardinality(running) \in Nat
    BY FS_CardinalityType DEF BuildTypeOK
  <2> QED
    BY <1>3, <2>1, <2>2 DEF BuildTypeOK, Succeed, Fail, Arrival, Needed, plan
<1>4. CASE Quote
  BY <1>4 DEF Quote, BuildTypeOK, Needed, plan
<1>5. CASE UNCHANGED buildVars
  BY <1>5 DEF buildVars, plan, BuildTypeOK, Needed
<1> QED
  BY <1>2, <1>3, <1>4, <1>5 DEF BuildNext

\* The state of a build keeps its type, the number of nodes in flight included.
THEOREM BuildTypeCorrect == BuildSpec => []BuildTypeOK
<1>1. BuildInit => BuildTypeOK
  BY BuildTypeInit
<1>2. BuildTypeOK /\ [BuildNext]_buildVars => BuildTypeOK'
  BY BuildTypeStep
<1> QED
  BY <1>1, <1>2, PTL DEF BuildSpec
----------------------------------------------------------------------------
(* A result is never taken back, so what a node found when it was launched   *)
(* is there as long as it runs.                                             *)

\* The plan holds the declarations of the nodes it needs, and what they depend on.
PlanInv ==
    /\ request \in Requests
    /\ \A i \in DOMAIN Declared : Declared[i].name \in Needed =>
          graph[Declared[i].name] = Declared[i] /\ Declared[i].deps \subseteq Needed
    /\ ResolveTargets(request) \subseteq NodeNames => ResolveTargets(request) \subseteq Needed
    /\ \A n \in Needed : \E i \in DOMAIN Declared : Declared[i].name = n

DepsAreDone == \A n \in running \union results : graph[n].deps \subseteq results

LEMMA PlanInitially == BuildInit => PlanInv
<1> SUFFICES ASSUME BuildInit PROVE PlanInv
  OBVIOUS
<1>1. PICK needed \in {Closure(Declared, ResolveTargets(request))} :
        graph = [n \in needed |-> Declared[CHOOSE i \in DOMAIN Declared : Declared[i].name = n]]
  BY Zenon DEF BuildInit
<1>2. request \in Requests /\ Needed = Closure(Declared, ResolveTargets(request))
  BY <1>1 DEF BuildInit, Needed
<1>3. Needed \subseteq NodeNames
  BY <1>2 DEF Closure
<1>4. \A n \in Needed : graph[n] = Declared[CHOOSE i \in DOMAIN Declared : Declared[i].name = n]
  BY <1>1, <1>2
<1>5. ASSUME NEW i \in DOMAIN Declared, Declared[i].name \in Needed
      PROVE  graph[Declared[i].name] = Declared[i]
  <2>1. (CHOOSE k \in DOMAIN Declared : Declared[k].name = Declared[i].name) = i
    BY BuildGraphAssumption
  <2>2. QED
    BY <1>4, <1>5, <2>1
<1>6. /\ ResolveTargets(request) \subseteq NodeNames => ResolveTargets(request) \subseteq Needed
      /\ \A i \in DOMAIN Declared : Declared[i].name \in Needed => Declared[i].deps \subseteq Needed
  BY <1>2, PathAssumption
<1>7. QED
  BY <1>2, <1>3, <1>5, <1>6 DEF PlanInv, NodeNames

LEMMA PlanStays == PlanInv /\ [BuildNext]_buildVars => PlanInv'
<1> SUFFICES ASSUME PlanInv, UNCHANGED plan PROVE PlanInv'
  BY PlanIsRigid DEF buildVars
<1>1. request' = request /\ graph' = graph /\ Needed' = Needed
  BY DEF plan, Needed
<1>2. QED
  BY <1>1 DEF PlanInv

LEMMA DepsStep == DepsAreDone /\ [BuildNext]_buildVars => DepsAreDone'
<1> SUFFICES ASSUME DepsAreDone, [BuildNext]_buildVars PROVE DepsAreDone'
  OBVIOUS
<1>1. CASE Launch
  BY <1>1, LaunchStep DEF DepsAreDone, plan
<1>2. ASSUME NEW n \in running, Succeed(n) \/ Fail(n) PROVE DepsAreDone'
  BY <1>2 DEF DepsAreDone, Succeed, Fail, Arrival, plan
<1>3. CASE Quote
  BY <1>3 DEF Quote, DepsAreDone, plan
<1>4. CASE UNCHANGED buildVars
  BY <1>4 DEF buildVars, plan, DepsAreDone
<1> QED
  BY <1>1, <1>2, <1>3, <1>4 DEF BuildNext

BuildInv == BuildTypeOK /\ PlanInv /\ DepsAreDone

\* The invariant of a build: its plan is complete, and a node that was launched finds
\* all the results that it depends on.
THEOREM BuildInductive == BuildSpec => []BuildInv
<1>1. BuildInit => BuildInv
  BY BuildTypeInit, PlanInitially DEF BuildInv, BuildInit, DepsAreDone
<1>2. BuildInv /\ [BuildNext]_buildVars => BuildInv'
  BY BuildTypeStep, PlanStays, DepsStep DEF BuildInv
<1> QED
  BY <1>1, <1>2, PTL DEF BuildSpec

\* No body takes a zero from dep, if it only names the dependencies of its node: the
\* plan and the dispatcher leave no other way, whatever the graph and the limit.
THEOREM BodiesFindTheirResults == AsksAreDeclared /\ BuildSpec => []NothingIsZero
<1>1. AsksAreDeclared /\ BuildInv => NothingIsZero
  BY DEF AsksAreDeclared, BuildInv, BuildTypeOK, DepsAreDone, NothingIsZero
<1>2. AsksAreDeclared => []AsksAreDeclared
  <2>1. AsksAreDeclared => AsksAreDeclared'
    BY DEF AsksAreDeclared
  <2> QED
    BY <2>1, PTL
<1> QED
  BY <1>1, <1>2, BuildInductive, PTL
----------------------------------------------------------------------------
(* The data that nodes share                                                *)

\* A node waits for another, at any distance: no set of nodes that holds what its nodes
\* depend on has the one without the other.
HoldsItsDeps(S) == \A i \in DOMAIN Declared : Declared[i].name \in S => Declared[i].deps \subseteq S
WaitsFor(n, m) == \A S : n \in S /\ HoldsItsDeps(S) => m \in S

\* The nodes that read or write what another one writes are ordered by dependencies, the
\* named pairs excepted.
SharersWait ==
    \A d, e \in ToSet(Declared) :
        \/ d.name = e.name
        \/ {d.name, e.name} \in Unordered
        \/ /\ d.reads \intersect e.writes # {} => WaitsFor(d.name, e.name)
           /\ d.writes \intersect e.writes # {} =>
                 WaitsFor(d.name, e.name) \/ WaitsFor(e.name, d.name)

\* What a running node waits for has succeeded.
LEMMA WaitedFor ==
  ASSUME BuildInv, NEW n \in running, NEW m, m # n, WaitsFor(n, m)
  PROVE  m \in results
<1>1. running \subseteq Needed /\ results \subseteq Needed
  BY DEF BuildInv, BuildTypeOK
<1>2. ASSUME NEW i \in DOMAIN Declared, Declared[i].name \in results \union {n}
      PROVE  Declared[i].deps \subseteq results \union {n}
  <2>1. Declared[i].name \in Needed /\ Declared[i].name \in running \union results
    BY <1>1, <1>2
  <2>2. graph[Declared[i].name] = Declared[i]
    BY <2>1 DEF BuildInv, PlanInv
  <2>3. QED
    BY <2>1, <2>2 DEF BuildInv, DepsAreDone
<1>3. m \in results \union {n}
  BY <1>2 DEF WaitsFor, HoldsItsDeps
<1>4. QED
  BY <1>3

\* What a node reads through a pointer is complete and nobody writes it at the same
\* time, on any graph where who reads or writes shared data waits for who writes it.
THEOREM SharedDataHolds == SharersWait /\ BuildSpec => []SharedDataIsComplete
<1>1. ASSUME SharersWait, BuildInv PROVE SharedDataIsComplete
  <2>1. SUFFICES ASSUME NEW n \in running, NEW d \in Writers, d.name # n, {n, d.name} \notin Unordered
                 PROVE  /\ graph[n].reads \intersect d.writes # {} => d.name \in results
                        /\ graph[n].writes \intersect d.writes # {} => d.name \notin running
    BY DEF SharedDataIsComplete
  <2>2. running \subseteq Needed /\ running \intersect results = {}
    BY <1>1 DEF BuildInv, BuildTypeOK
  <2>3. PICK i \in DOMAIN Declared : Declared[i].name = n
    BY <1>1, <2>2 DEF BuildInv, PlanInv
  <2>4. graph[n] = Declared[i] /\ Declared[i] \in ToSet(Declared) /\ d \in ToSet(Declared)
    BY <1>1, <2>2, <2>3 DEF BuildInv, PlanInv, ToSet, Writers
  <2>5. /\ graph[n].reads \intersect d.writes # {} => WaitsFor(n, d.name)
        /\ graph[n].writes \intersect d.writes # {} => WaitsFor(n, d.name) \/ WaitsFor(d.name, n)
    BY <1>1, <2>1, <2>3, <2>4 DEF SharersWait
  <2>6. WaitsFor(n, d.name) => d.name \in results
    BY <1>1, <2>1, WaitedFor
  <2>7. d.name \in running /\ WaitsFor(d.name, n) => n \in results
    BY <1>1, <2>1, WaitedFor
  <2>8. QED
    BY <2>2, <2>5, <2>6, <2>7
<1>2. SharersWait => []SharersWait
  <2>1. SharersWait => SharersWait'
    BY DEF SharersWait, WaitsFor, HoldsItsDeps
  <2> QED
    BY <2>1, PTL
<1> QED
  BY <1>1, <1>2, BuildInductive, PTL
----------------------------------------------------------------------------
(* The end of a build                                                       *)

LEMMA LeastIndex ==
  ASSUME NEW S \in SUBSET Nat, S # {}
  PROVE  \E m \in S : \A n \in S : m <= n
<1> DEFINE R == OpToRel(<, Nat)
<1>1. IsWellFoundedOn(R, Nat)
  BY NatLessThanWellFounded
<1>2. PICK m \in S : \A n \in S : ~(<<n, m>> \in R)
  BY <1>1, WFMin
<1>3. \A n \in S : <<n, m>> \in R <=> n < m
  BY DEF OpToRel
<1> HIDE DEF R
<1>4. \A n \in S : ~(n < m)
  BY <1>2, <1>3
<1>5. QED
  BY <1>4

\* A build that nothing stopped has run its whole plan: nodes are declared after what
\* they depend on, so the first one that is left could start.
LEMMA NothingIsLeft ==
  ASSUME BuildInv, Over, failed = {}
  PROVE  results = Needed
<1>1. results \subseteq Needed /\ running = {} /\ Startable = {}
  BY DEF BuildInv, BuildTypeOK, Over
<1>2. SUFFICES ASSUME Needed \ results # {} PROVE FALSE
  BY <1>1
<1> DEFINE Left == {i \in 1..Len(Declared) : Declared[i].name \in Needed \ results}
<1>3. DOMAIN Declared = 1..Len(Declared)
  BY BuildGraphAssumption
<1>4. Left # {}
  BY <1>2, <1>3 DEF BuildInv, PlanInv
<1>5. PICK i \in Left : \A k \in Left : i <= k
  <2>1. Left \in SUBSET Nat
    OBVIOUS
  <2> HIDE DEF Left
  <2>2. QED
    BY <1>4, <2>1, LeastIndex
<1>6. i \in DOMAIN Declared /\ i \in Nat /\ Declared[i].name \in Needed /\ Declared[i].name \notin results
  BY <1>3, <1>5
<1>7. graph[Declared[i].name] = Declared[i] /\ Declared[i].deps \subseteq Needed
  BY <1>6 DEF BuildInv, PlanInv
<1>8. ASSUME NEW m \in Declared[i].deps PROVE m \in results
  <2>1. PICK k \in 1..(i - 1) : m = Declared[k].name
    BY <1>6, BuildGraphAssumption
  <2>2. k \in 1..Len(Declared) /\ ~(i <= k)
    BY <1>3, <1>6, <2>1
  <2>3. k \notin Left
    BY <1>5, <2>2
  <2>4. QED
    BY <1>7, <2>1, <2>2, <2>3
<1>9. Cardinality(running) < Limit
  BY <1>1, FS_EmptySet, BuildGraphAssumption
<1>10. Declared[i].name \in Startable
  BY <1>1, <1>6, <1>7, <1>8, <1>9 DEF Startable, Ready
<1>11. QED
  BY <1>1, <1>10

\* The table of sections names every node that writes pages of a section.
SectionsAreListed ==
    /\ \A d \in ToSet(Declared) : \A s \in d.sections :
          s \in DOMAIN SectionNodes /\ d.name \in SectionNodes[s]
    /\ "comprendre" \in DOMAIN SectionNodes /\ "comprendre" \in SectionNodes["comprendre"]

\* What writes a page that was asked for is a target of the build.
LEMMA WritersAreTargets ==
  ASSUME SectionsAreListed, NEW d \in ToSet(Declared), WritesAskedPages(d)
  PROVE  d.name \in ResolveTargets(request)
<1>1. CASE request = {} /\ d.sections # {}
  BY <1>1 DEF ResolveTargets, SectionsAreListed
<1>2. CASE d.sections \intersect request # {}
  <2>1. PICK s \in request : s \in d.sections
    BY <1>2
  <2>2. s \in DOMAIN SectionNodes /\ d.name \in SectionNodes[s]
    BY <2>1 DEF SectionsAreListed
  <2>3. QED
    BY <2>1, <2>2 DEF ResolveTargets
<1>3. CASE d.name = "comprendre" /\ ~(request \subseteq DOMAIN SectionNodes)
  <2>1. PICK s \in request : s \notin DOMAIN SectionNodes
    BY <1>3
  <2>2. QED
    BY <1>3, <2>1 DEF ResolveTargets, SectionsAreListed
<1>4. QED
  BY <1>1, <1>2, <1>3 DEF WritesAskedPages

LEMMA TargetsAreNodes == "comprendre" \in DOMAIN SectionNodes => ResolveTargets(request) \subseteq NodeNames
<1> SUFFICES ASSUME "comprendre" \in DOMAIN SectionNodes, NEW n \in ResolveTargets(request)
             PROVE  n \in NodeNames
  OBVIOUS
<1>1. \A s \in DOMAIN SectionNodes : SectionNodes[s] \subseteq NodeNames
  BY BuildGraphAssumption
<1>2. QED
  BY <1>1 DEF ResolveTargets

\* A build that succeeds has run every node that writes pages of what it was asked for,
\* on any graph whose sections are listed with all their nodes.
THEOREM SectionsAreWhole == SectionsAreListed /\ BuildSpec => []SectionIsWhole
<1>1. ASSUME SectionsAreListed, BuildInv PROVE SectionIsWhole
  <2>1. SUFFICES ASSUME Over, failed = {}, NEW i \in DOMAIN Declared, WritesAskedPages(Declared[i])
                 PROVE  Declared[i].name \in results
    BY DEF SectionIsWhole
  <2>2. Declared[i] \in ToSet(Declared)
    BY DEF ToSet
  <2>3. Declared[i].name \in ResolveTargets(request)
    BY <1>1, <2>1, <2>2, WritersAreTargets
  <2>4. ResolveTargets(request) \subseteq Needed
    BY <1>1, TargetsAreNodes DEF SectionsAreListed, BuildInv, PlanInv
  <2>5. QED
    BY <1>1, <2>1, <2>3, <2>4, NothingIsLeft
<1>2. SectionsAreListed => []SectionsAreListed
  <2>1. SectionsAreListed => SectionsAreListed'
    BY DEF SectionsAreListed
  <2> QED
    BY <2>1, PTL
<1> QED
  BY <1>1, <1>2, BuildInductive, PTL
==============================================================================

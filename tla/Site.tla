--------------------------------- MODULE Site ---------------------------------
(***************************************************************************)
(* From ingestion to the published site: what internal/ingest leaves in the *)
(* database (tables, materialized views, section checksums, fetch runs),    *)
(* how a build decides what to copy from the site before it                 *)
(* (internal/sitegen/cache.go), and how it takes its place (main.go), with   *)
(* failures and kills at every step.                                        *)
(*                                                                         *)
(* What a section reads is numbers that each change increases.  core and    *)
(* code stand for the tables and the sources that hand-written lists name    *)
(* (checksum.Sections, filesSection), and for their fingerprints; aside for  *)
(* what the pages show that no list of their section names, such as          *)
(* core.dossier_promulgation, raw.retrieval or data/seuils.csv.              *)
(***************************************************************************)
EXTENDS Integers

CONSTANTS
    Hashed,      \* checksum.Sections: the sections that may be copied
    MaxLoads,    \* bound: changes of the listed tables of a section
    MaxRuns,     \* bound: fetch runs that end in SUCCESS
    MaxCode,     \* bound: changes of the listed sources of a section, and of those in all lists
    MaxAside,    \* bound: changes of what a section reads that no list names
    Scenarios    \* what may happen in a behaviour: sets of Events

\* failure: a step, a checksum or a node fails; kill: a process is killed; some: an
\* ingestion is not of all sources; matviews: the views are not refreshed;
\* truncated: a build has -max-scrutins; overlap: a build runs during an ingestion;
\* own: a source is edited that not all lists name; unlisted: what no list names changes.
Events == {"failure", "kill", "some", "matviews", "truncated", "overlap", "own", "unlisted"}

ASSUME SiteAssumption ==
    /\ Hashed \subseteq {"communes", "scrutin"}
    /\ MaxLoads \in Nat /\ MaxRuns \in Nat /\ MaxCode \in Nat /\ MaxAside \in Nat
    /\ Scenarios \subseteq SUBSET Events

VARIABLES
    core,        \* per section, the content of the tables its list names (all, for the rest)
    mv,          \* per section, the content its materialized views derive from
    sums,        \* core.section_checksum
    runs,        \* footprintIngestion: the last fetch run ended in SUCCESS
    code,        \* per section, the sources that its list names and not all lists do
    style,       \* the sources in every list: base.gohtml, style.css, site.js, main.go...
    aside,       \* per section, the tables and files it reads that its lists omit
    ing,         \* the running ingestion
    last,        \* how the last ingestion ended
    out,         \* the published directory
    project,     \* <out>.construction
    former,      \* <out>.precedent
    build,       \* the running build
    allowed      \* which of the Events may happen

db == <<core, mv, sums, runs>>
dirs == <<out, project, former>>
sources == <<code, style>>
vars == <<db, sources, aside, ing, last, dirs, build, allowed>>

Rest == "reste"
Sections == Hashed \union {Rest}
NoSum == -1

Page == [core : 0..MaxLoads, mv : 0..MaxLoads, code : 0..MaxCode, style : 0..MaxCode,
         aside : 0..MaxAside, whole : BOOLEAN]
NoPage == [core |-> NoSum, mv |-> NoSum, code |-> 0, style |-> 0, aside |-> 0, whole |-> FALSE]
Entry == [data : (0..MaxLoads) \union (0..MaxRuns) \union {NoSum},
          code : 0..MaxCode, style : 0..MaxCode]
NoEntry == [data |-> NoSum, code |-> 0, style |-> 0]
NoManifest == [s \in Sections |-> NoEntry]
NoPages == [s \in Sections |-> NoPage]

\* A directory: absent, empty, the debris of another one, or the work of buildAt;
\* ended when buildAt returned, with its manifest written.
Directory == [is : {"absent", "empty", "debris", "site"}, marker : BOOLEAN,
              ended : BOOLEAN, pages : [Sections -> Page \union {NoPage}],
              manifest : [Sections -> Entry \union {NoEntry}]]
Dir(is, marker) == [is |-> is, marker |-> marker, ended |-> FALSE,
                    pages |-> NoPages, manifest |-> NoManifest]
NoDir == Dir("absent", FALSE)

NoBuild == [pc |-> "idle", kind |-> "full", new |-> NoManifest, todo |-> {}]
NoIngestion == [pc |-> "idle", all |-> TRUE, ok |-> TRUE, fetched |-> FALSE, todo |-> {}]

Init ==
    /\ core = [s \in Sections |-> 0]
    /\ mv = core
    /\ sums = [s \in Hashed |-> NoSum]
    /\ runs = 0
    /\ code = [s \in Sections |-> 0] /\ style = 0
    /\ aside = [s \in Sections |-> 0]
    /\ ing = NoIngestion
    /\ last = "failed"
    /\ out = NoDir /\ project = NoDir /\ former = NoDir
    /\ build = NoBuild
    /\ allowed \in Scenarios

May(event) == event \in allowed
NoBuildRuns == build.pc = "idle" \/ May("overlap")
NoIngestionRuns == ing.pc = "idle" \/ May("overlap")
-----------------------------------------------------------------------------
(* Ingestion                                                               *)

Ing(pc) == ing.pc = pc
Ingested(how) == ing' = NoIngestion /\ last' = how

\* RunAll, or RunSource, RunSources and RunCategorie, which have no checksums step.
Ingest ==
    /\ Ing("idle") /\ NoBuildRuns /\ runs < MaxRuns
    /\ \E all \in BOOLEAN :
        /\ all \/ May("some")
        /\ ing' = [NoIngestion EXCEPT !.pc = "load", !.all = all]
    /\ UNCHANGED <<allowed, db, sources, aside, last, dirs, build>>

\* A step changes tables, in transactions of its own: tables that the list of a section
\* names, or others that its pages show. The rest has no list: the last run dates it.
Load(s) ==
    /\ Ing("load") /\ core[s] < MaxLoads
    /\ core' = [core EXCEPT ![s] = @ + 1]
    /\ UNCHANGED <<allowed, mv, sums, runs, sources, aside, ing, last, dirs, build>>

LoadUnlisted(s) ==
    /\ Ing("load") /\ May("unlisted") /\ aside[s] < MaxAside
    /\ aside' = [aside EXCEPT ![s] = @ + 1]
    /\ UNCHANGED <<allowed, db, sources, ing, last, dirs, build>>

\* EndRun(SUCCESS): most steps have a fetch run, normalize and carto have none.
EndRun ==
    /\ Ing("load") /\ ~ing.fetched /\ runs < MaxRuns
    /\ runs' = runs + 1
    /\ ing' = [ing EXCEPT !.fetched = TRUE]
    /\ UNCHANGED <<allowed, core, mv, sums, sources, aside, last, dirs, build>>

SourceFails ==
    /\ Ing("load") /\ May("failure")
    /\ ing' = [ing EXCEPT !.ok = FALSE]
    /\ UNCHANGED <<allowed, db, sources, aside, last, dirs, build>>

\* The graph is over. Only RunAll ends it by the checksums, which depend on every
\* step; RunSource alone returns without refreshing when its step failed.
LoadsDone ==
    /\ Ing("load")
    /\ ing.all /\ ing.ok => ing.fetched
    /\ \/ ing' = [ing EXCEPT !.pc = IF ing.all /\ ing.ok THEN "sums" ELSE "mv", !.todo = Hashed]
          /\ UNCHANGED last
       \/ ~ing.all /\ ~ing.ok /\ Ingested("failed")
    /\ UNCHANGED <<allowed, db, sources, aside, dirs, build>>

\* recalculerEmpreintes, one section after the other; it may fail on the way.
Checksum_bug(s) ==        \* the checksum of what the views were refreshed with
    /\ Ing("sums") /\ s \in ing.todo
    /\ sums' = [sums EXCEPT ![s] = mv[s]]
    /\ ing' = [ing EXCEPT !.todo = @ \ {s}]
    /\ UNCHANGED <<allowed, core, mv, runs, sources, aside, last, dirs, build>>
Checksum(s) ==
    /\ Ing("sums") /\ s \in ing.todo
    /\ sums' = [sums EXCEPT ![s] = core[s]]
    /\ ing' = [ing EXCEPT !.todo = @ \ {s}]
    /\ UNCHANGED <<allowed, core, mv, runs, sources, aside, last, dirs, build>>

ChecksumsDone ==
    /\ Ing("sums")
    /\ ing.todo = {} \/ May("failure")
    /\ ing' = [ing EXCEPT !.pc = "mv", !.ok = (ing.todo = {})]
    /\ UNCHANGED <<allowed, db, sources, aside, last, dirs, build>>

\* actualiserMatviews, whatever failed before.
Refresh ==
    /\ Ing("mv")
    /\ mv' = core
    /\ Ingested(IF ~ing.ok THEN "failed" ELSE IF ing.all THEN "all" ELSE "some")
    /\ UNCHANGED <<allowed, core, sums, runs, sources, aside, dirs, build>>

RefreshFails ==
    /\ Ing("mv") /\ May("matviews")
    /\ Ingested("failed")
    /\ UNCHANGED <<allowed, db, sources, aside, dirs, build>>

\* A kill during the graph; a later one is the same as a refresh that fails.
KillIngestion ==
    /\ May("kill") /\ ~Ing("idle")
    /\ Ing("load") \/ May("matviews")
    /\ Ingested("failed")
    /\ UNCHANGED <<allowed, db, sources, aside, dirs, build>>

\* The sources change: a file that every list names (EditAll), one that the globs of the
\* rest find and at most one list names, or one that no list of a section names.
EditAll ==
    /\ style < MaxCode /\ build.pc = "idle"
    /\ style' = style + 1
    /\ UNCHANGED <<allowed, db, code, aside, ing, last, dirs, build>>
EditOwn(s) ==
    /\ May("own") /\ build.pc = "idle"
    /\ code[s] < MaxCode /\ code[Rest] < MaxCode
    /\ code' = [t \in Sections |-> IF t \in {s, Rest} THEN code[t] + 1 ELSE code[t]]
    /\ UNCHANGED <<allowed, db, style, aside, ing, last, dirs, build>>
EditUnlisted(s) ==
    /\ May("unlisted") /\ build.pc = "idle" /\ aside[s] < MaxAside
    /\ aside' = [aside EXCEPT ![s] = @ + 1]
    /\ UNCHANGED <<allowed, db, sources, ing, last, dirs, build>>
Edit == EditAll \/ \E s \in Sections : EditOwn(s) \/ EditUnlisted(s)
-----------------------------------------------------------------------------
(* A build                                                                 *)

At(pc) == build.pc = pc
Goto(pc) == build' = [build EXCEPT !.pc = pc]

\* The fingerprint of a section: its checksum or the last run, and the sources of its
\* list (the globs, for the rest). Nothing in it speaks of what the lists omit.
Current(s) == [data |-> IF s = Rest THEN runs ELSE sums[s], code |-> code[s], style |-> style]
\* The manifest read by loadManifest is the one of out until setInPlace.
Unchanged_bug(s) == Current(s).data # NoSum /\ out.manifest[s].data = Current(s).data
Unchanged(s) == Current(s).data # NoSum /\ out.manifest[s] = Current(s)

\* loadManifest, and the short circuit when nothing has changed at all.
Begin ==
    /\ At("idle") /\ NoIngestionRuns
    /\ \E kind \in {"full", "sections", "truncated"} :
        /\ kind = "truncated" => May("truncated")
        /\ build' = IF kind = "full" /\ \A s \in Sections : Unchanged(s)
                    THEN [NoBuild EXCEPT !.pc = "nothing"]
                    ELSE [NoBuild EXCEPT !.pc = "prepare", !.kind = kind]
    /\ UNCHANGED <<allowed, db, sources, aside, ing, last, dirs>>

NothingToDo ==
    /\ At("nothing")
    /\ build' = NoBuild
    /\ UNCHANGED <<allowed, db, sources, aside, ing, last, dirs>>

\* prepareOutput erases what carries the marker, and refuses the rest.
Erasable == project.is \in {"absent", "empty"} \/ project.marker
Prepare ==
    /\ At("prepare") /\ Erasable
    /\ project' = Dir("site", TRUE)
    /\ \E asked \in SUBSET Sections :
        /\ (asked = Sections) = (build.kind # "sections")
        /\ build' = [build EXCEPT !.pc = "pages", !.todo = asked]
    /\ UNCHANGED <<allowed, db, sources, aside, ing, last, out, former>>
Refuse ==
    /\ At("prepare") /\ ~Erasable
    /\ build' = NoBuild
    /\ UNCHANGED <<allowed, db, sources, aside, ing, last, dirs>>

\* What a node of the graph writes from the database.
Fresh(s) == [core |-> core[s], mv |-> mv[s], code |-> code[s], style |-> style, aside |-> aside[s],
             whole |-> ~(build.kind = "truncated" /\ s = "scrutin")]

\* What the manifest says of a section: its fingerprint, unless the site is
\* truncated, where the entry of the votes is the one of the site before.
Recorded(s) == IF build.kind = "truncated" /\ s = "scrutin" THEN out.manifest[s] ELSE Current(s)

\* buildMunicipalitiesAndEPCI and buildBallotSection copy or build; every other
\* node builds, and its entry is written at the end.
WriteSection(s) ==
    /\ At("pages") /\ s \in build.todo
    /\ project' = [project EXCEPT !.pages[s] =
           IF s \in Hashed /\ Fresh(s).whole /\ Unchanged(s)
           THEN out.pages[s] ELSE Fresh(s)]
    /\ build' = [build EXCEPT !.todo = @ \ {s},
           !.new[s] = IF s \in Hashed THEN Recorded(s) ELSE NoEntry]
    /\ UNCHANGED <<allowed, db, sources, aside, ing, last, out, former>>

\* checkAssetReferences: every page names the style sheet of this build.
AssetsAgree == \A s \in Sections :
    project.pages[s] # NoPage => project.pages[s].style = style

\* The end of buildAt: the entry of the rest, and the manifest.
EndBuildAt ==
    /\ At("pages") /\ build.todo = {} /\ AssetsAgree
    /\ project' = [project EXCEPT !.ended = TRUE,
           !.manifest = IF build.kind = "full" THEN [build.new EXCEPT ![Rest] = Current(Rest)]
                        ELSE build.new]
    /\ Goto("ended")
    /\ UNCHANGED <<allowed, db, sources, aside, ing, last, out, former>>

\* Only a build of every section is put in place.
Publishable_bug == TRUE
Publishable == build.kind # "sections"
Keep ==
    /\ At("ended") /\ ~Publishable
    /\ build' = NoBuild
    /\ UNCHANGED <<allowed, db, sources, aside, ing, last, dirs>>

\* setInPlace: RemoveAll(former), out to former, project to out, RemoveAll(former).
ClearFormer ==
    /\ At("ended") /\ Publishable
    /\ former' = NoDir
    /\ Goto("cleared")
    /\ UNCHANGED <<allowed, db, sources, aside, ing, last, out, project>>
MoveOut_bug ==     \* erases the site instead of renaming it
    /\ At("cleared") /\ (out = NoDir \/ out.marker)
    /\ out' = NoDir
    /\ Goto("moved")
    /\ UNCHANGED <<allowed, db, sources, aside, ing, last, former, project>>
MoveOut ==
    /\ At("cleared") /\ (out = NoDir \/ out.marker)
    /\ former' = out /\ out' = NoDir
    /\ Goto("moved")
    /\ UNCHANGED <<allowed, db, sources, aside, ing, last, project>>
MoveIn ==
    /\ At("moved")
    /\ out' = project /\ project' = NoDir
    /\ Goto("placed")
    /\ UNCHANGED <<allowed, db, sources, aside, ing, last, former>>
RemoveFormer ==
    /\ At("placed")
    /\ former' = NoDir
    /\ build' = NoBuild
    /\ UNCHANGED <<allowed, db, sources, aside, ing, last, out, project>>

\* A node or a check fails and run returns its error. What is in project stays,
\* with its marker; nothing will read it again, it is debris.
Abandoned == Dir("debris", TRUE)
BuildFails ==
    /\ At("pages")
    /\ May("failure") \/ (build.todo = {} /\ ~AssetsAgree)
    /\ project' = Abandoned
    /\ build' = NoBuild
    /\ UNCHANGED <<allowed, db, sources, aside, ing, last, out, former>>

\* What a kill leaves of a directory that RemoveAll was erasing.
Remains(dir) == {dir, NoDir} \union
    IF dir = NoDir THEN {} ELSE {Dir("debris", dir.marker), Dir("debris", FALSE)}
Unprepared == {project, Dir("empty", FALSE)} \union
    IF project.marker THEN Remains(project) ELSE {}
KillBuild ==
    /\ build.pc \notin {"idle", "nothing"} /\ May("kill")
    /\ project' \in IF At("prepare") /\ Erasable THEN Unprepared
                    ELSE IF At("pages") THEN {Abandoned} ELSE {project}
    /\ former' \in IF (At("ended") /\ Publishable) \/ At("placed") THEN Remains(former) ELSE {former}
    /\ build' = NoBuild
    /\ UNCHANGED <<allowed, db, sources, aside, ing, last, out>>
-----------------------------------------------------------------------------
Next ==
    \/ Ingest \/ (\E s \in Sections : Load(s)) \/ (\E s \in Hashed : LoadUnlisted(s)) \/ EndRun \/ SourceFails \/ LoadsDone
    \/ (\E s \in Hashed : Checksum(s)) \/ ChecksumsDone \/ Refresh \/ RefreshFails
    \/ KillIngestion \/ Edit
    \/ Begin \/ NothingToDo \/ Prepare \/ Refuse \/ (\E s \in Sections : WriteSection(s))
    \/ EndBuildAt \/ Keep \/ ClearFormer \/ MoveOut \/ MoveIn \/ RemoveFormer
    \/ BuildFails \/ KillBuild

Spec == Init /\ [][Next]_vars
-----------------------------------------------------------------------------
(* Properties                                                              *)

Fingerprints == [Sections -> Entry \union {NoEntry}]
TypeOK ==
    /\ allowed \in Scenarios
    /\ core \in [Sections -> 0..MaxLoads] /\ mv \in [Sections -> 0..MaxLoads]
    /\ sums \in [Hashed -> (0..MaxLoads) \union {NoSum}]
    /\ runs \in 0..MaxRuns
    /\ code \in [Sections -> 0..MaxCode] /\ style \in 0..MaxCode
    /\ aside \in [Sections -> 0..MaxAside]
    /\ ing \in [pc : {"idle", "load", "sums", "mv"}, all : BOOLEAN, ok : BOOLEAN, fetched : BOOLEAN,
              todo : SUBSET Hashed]
    /\ last \in {"failed", "some", "all"}
    /\ {out, project, former} \subseteq Directory
    /\ build \in [pc : {"idle", "nothing", "prepare", "pages", "ended", "cleared", "moved", "placed"},
                  kind : {"full", "sections", "truncated"}, new : Fingerprints, todo : SUBSET Sections]

\* The pages of a directory show the listed tables and sources, and the views, of now.
UpToDate(dir) == \A s \in Sections :
    /\ dir.pages[s].core = core[s] /\ dir.pages[s].mv = core[s] /\ dir.pages[s].whole
    /\ dir.pages[s].code = code[s] /\ dir.pages[s].style = style

\* A full build ends here: it was put in place, or found nothing to do.
Settles == \/ At("moved") /\ build'.pc = "placed" /\ build.kind = "full"
           \/ At("idle") /\ build'.pc = "nothing"

\* No view was left behind and no build was truncated; builds and ingestions do
\* not overlap.
Regular == allowed \cap {"matviews", "truncated", "overlap"} = {}

\* After a complete ingestion, a full build leaves a site whose every page, copied or
\* built, shows the last content of the tables and of the sources that the lists of its
\* section name, and the views of these tables, whatever failed or was killed before:
\* cache.go copies a section only when neither has changed. Of what the lists omit, a
\* copied page may show an older content (sections.go:13-14, cache.go:31): nothing is
\* claimed of it here.
FreshSite == [][Settles /\ last = "all" /\ Regular => UpToDate(out')]_vars

\* Even when the views could not be refreshed or a build was truncated, no page of
\* a full build shows other listed tables, or other listed sources, than the last ones.
\* And a build that is put in place holds, per section, exactly what it would write now,
\* unlisted tables, files and views included, or the page of the site before: only a
\* copy of communes or scrutin is stale in anything, never a page of the rest.
FreshTables == [][Settles /\ last = "all" /\ ~May("overlap") => \A s \in Sections :
    /\ out'.pages[s].core = core[s] /\ out'.pages[s].code = code[s] /\ out'.pages[s].style = style
    /\ At("moved") => out'.pages[s] = Fresh(s) \/ (s \in Hashed /\ out'.pages[s] = former.pages[s])
    ]_vars

\* What is served is a site whose build ended, all its sections written: never a
\* construction in progress, a partial one, or the debris of one.
WholeSiteServed ==
    out # NoDir => out.ended /\ \A s \in Sections : out.pages[s] # NoPage

\* The served site only leaves its place to be kept aside, and when its successor
\* is whole: a kill between the two renames leaves both.
Whole(d) == d.ended /\ d.marker /\ \A s \in Sections : d.pages[s] # NoPage
SwapIsSafe == [][Whole(out) => Whole(out') \/ (Whole(former') /\ Whole(project'))]_vars
==============================================================================

# faits-politiques.fr in TLA+

Specifications of the machinery of this repository: how `fpctl` runs a graph of
steps, downloads and seals documents, loads its sources into one database
through a bounded pool, refreshes its materialized views, keeps its party map
reproducible, orders the construction of a site and puts it in place. The parsing of the documents, the
statistics and the wording of the pages are data here; the order in which
things are read, locked, written, retried, cancelled and published is the
subject.

TLC runs every `.cfg`; TLAPS checks the `*Proofs` modules. `PROJECT.json` maps
every definition to the lines it translates and lists runs, theorems, hazards
and findings.

## 1. The system

`fpctl ingest` downloads public documents to `raw/` (an archive addressed by
SHA-256, described by `raw.*` tables), parses them into `core.*` tables, then
refreshes the materialized views `mv.*`. `fpctl verify` checks assertions in
SQL. `fpctl build site` writes static pages to a construction directory, copies
from the site before what has not changed, and swaps the two. The Makefile's
`site: ingest verify build` chains them; `install` is an `rsync`.

| Component (code) | State | Operations | What is hard | What makes it correct | Module |
|---|---|---|---|---|---|
| Step graph and dispatcher (`pipeline/pipeline.go`) | registered steps; per run: launched, results, failed, omitted, in flight, one cancel | `Add`, `closure`, `Levels`, `Run` | goroutines, a channel read by one loop, cancellation, two failure modes | a step sees all its inputs; exact slots; failures contained; `Run` ends and its answer is complete | `StepGraph`, `Pipeline`, `GraphExecution`, `PipelineRefinement`, proofs |
| Source registry, prefetch (`ingest/*.go`) | the prefetch future, the waiters, a second graph | `RunAll`, `RunSources`, `RunCategorie`, `RunSource` | waiters inside slots, two contexts, one error for all | a connector starts on its files; what needs none is not affected; the command returns | `Prefetch`, proofs |
| Catalogue (`ingest/catalogue.go`, `ingest.go`) | every source, its dependencies, its connectors | `Executer` of each source; `RunAll`'s graph | one table written by several sources, composite sources | those that write the same rows never meet, but for composites and their parts | `Catalogue` |
| Connectors (one package per source) | rows of `core.*`, a run, a watermark | about 230 `Ingest…` functions | several transactions and statements, a failure or a crash between any two, errors handled in five ways | a success is whole, as far as its loader can tell; a failure loses nothing | `Scripts`, `ParliamentConnectors`, `EconomyConnectors`, `TerritoryConnectors` |
| Connections and locks (`store.go`, `bulkload.go`) | pool, transactions, table locks, lock queue | acquire, begin, drop constraints, fetch through a second connection | waiting that spans Go and PostgreSQL | no wait PostgreSQL cannot see; an ingestion ends unless the pool is exhausted | `Ingestion`, `Schema`, proofs |
| JORF copy (`jorf/copie.go`) | channels of files and lines, four COPY, `jo_staging` | read the archive, copy, merge | one reader, many workers, four consumers, a pool of four, panics | what is merged is the archive; it ends | `JorfCopy`, proofs |
| Assemblée normalisation (`an`, `watermark`) | watermark per scope | extract, diff, rebuild, record | ids that commit out of order, crashes between transactions | nothing is skipped that should not be | `Normalize`, proofs |
| Download (`archive.downloadBody`) | temporary file, size announced, attempt | GET, Range, copy, retry | cut connections, a document that changes, bodies without a size | what is sealed is one whole body | `Download`, proofs |
| Archive (`archive.Fetch`, `fetchOnce`) | files of `raw/`, `raw.document`, `raw.retrieval`, ETags | fetch, 304, prefetched replay, retries | file and two rows written in three steps, crashes, two fetches of one URL | a row has its file; the attestation is true | `Archive`, proofs |
| Materialized views (`matview`) | views, `mv.etat` | `Actualiser`, `registre`, `RefreshAllConcurrency` | a hash read outside the transaction; a snapshot older than the lock; two commands | a view marked fresh is fresh; `mv` follows `core`; refreshes end | `Matview`, proofs |
| Party map (`carto.Ingest`, migration 0011) | revisions, their links, hash, freeze, citations | ingest in a transaction; freeze, cite, edit | READ COMMITTED statements and triggers | frozen is read-only; cited is frozen and unchanged | `Mapping`, proofs |
| Section checksums, site cache and swap (`ingest`, `sitegen/cache.go`, `main.go`) | checksums, manifest, three directories, marker | ingest, build, copy, erase, swap | kills between two renames, ingestion during a build, builds of three kinds | what is served is whole, and fresh in what the lists name | `Site`, proofs |
| Build graph (`sitegen/graphe*.go`, `sujets.go`) | 105 nodes, their results, data shared by pointers, the directory of the build | `buildRegistry`, `ResolveTargets`, `Run` | results taken by name, pointers changed in place, pages read back, partial builds | a body finds what it takes; shared data is complete and has one writer; a section is whole | `SiteGraph`, `BuildGraph`, proofs |
| Published topology, external programs and signals, migrations, object store, preregistration, views' export, page contents, verify, dossiers, media, statistics, command line | – | – | – | – | not modelled, section 6 |

How they interact: a command builds a `Registry` and runs it, beside a second
registry that downloads; each step runs the connectors of one source, which call
`archive.Fetch` (network, `raw/`, `raw.*`) on one connection and write `core.*`
in a transaction on another; a complete ingestion ends by a step that writes
`core.section_checksum`; the views follow, through a third registry; a build
reads the checksums, the last fetch run and the manifest of the site in place, and
runs the nodes of its pages through one more registry.

## 2. The modules

**StepGraph** – `Registry.Add`, `closure` and `Levels`: a graph is a set of
dependencies per step, of strictly lower numbers (`Add` panics on an unknown
dependency, so that registration order is a topological order). `closure` is the
least closed set; its depth-first search is not modelled.

**Pipeline** – `Registry.Run`. One action per step of the loop and of the
goroutines: the read of an arrival and what it implies (cancel, omit
downstream), the launch loop, the wait, a goroutine's start, body, send, and the
end of the run with its journal. Actors: the dispatcher and one goroutine per
launched step. `Init` chooses any graph of `N` steps and any wanted set.

**GraphExecution** – what `Run` promises, without loop, channel or goroutine:
steps start when their dependencies have succeeded, at most `Limit` at once, end
with or without a result. **PipelineRefinement** maps the one to the other.

**Prefetch** – an ingestion command: `Pipeline`, whose bodies are refined into
"wait for the downloads, then call the connector", beside the download run of
`prefetch.go`, which appears as what `Pipeline` is shown to implement:
`GraphExecution`, in stop mode, without dependencies. They share the future
(`waveOver`, `download`) and nothing else.

**Scripts** – what a connector does to the database, as data: the sequence of
its operations (source, run, download, transaction, dropped foreign keys,
writes, watermark) and what it does of an error. Five ways exist in the code:
the closure `fail` closes the run *before* the deferred rollback (`holding`), a
wrapper closes it after (`released`), only a failed download closes it
(`leaves`), nothing does (`silent`), there is no run (`no run`). A write has the
scope of its `WHERE`: a statement that replaces the rows of one chamber leaves
the others'.

**ParliamentConnectors**, **EconomyConnectors**, **TerritoryConnectors** – one
definition per `Ingest…` function, named `package_Function`: its script, read
from the function's own sequence of calls. A loop (a file per
year, a page per region) goes round twice. Parsing, checks and returns with an
error are what `Ingestion` makes of every operation: it may refuse to go on.

**Catalogue** – the sources with their dependencies and the connectors their
`Executer` calls, and `registreComplet`, the graph of the default chain, which
adds dependencies of its own.

**Schema** – the foreign keys of the migrations: which tables a `DROP
CONSTRAINT` locks besides its own, and which a write checks.

**Ingestion** – a crew of sources on that graph, each operation of their scripts
one action: the launch under the slots, the pool, the statements' connections
beside the transactions', PostgreSQL's lock queue, `WithoutFKConstraints` and
its `lock_timeout`, the deadlock detector, a commit whose answer is lost,
watermarks, each way to fail, a crash and a second command on the same documents
or on new ones. A load of a group of `CutShort` may leave a part of it and go on: the
loops that take an error for the end of what they read. Seven `ASSUME`s say what holds of every script and every crew of the
catalogue, and are all that the proofs know of it:
- `StepsAssumption`: a transaction ends with a commit and is not skipped half-way,
  constraints are dropped in one;
- `StatementsAssumption`: watermarks are recorded, runs ended and loads skipped
  outside transactions, a script has one watermark, and its skips go to it;
- `ReplacementAssumption`: what a source removes is filled again before the end of
  the same transaction, but for the groups of `ErasedFirst`;
- `RefillAssumption`: what a source writes and later removes, it fills before its next
  watermark, skip or end of run; nothing of a run that is ended is removed; what can be
  skipped is removed only by what is skipped with it;
- `WritersAssumption`: sources that write the same rows depend one on the other, twins
  apart: two entries of the catalogue that run one same connector (`Twins`: `numerique` and
  `numerique-cnil`, `fiscalite` and `fiscalite-ide`...);
- `OwnRowsAssumption`: no source of a crew removes the rows that another one fills, twins
  apart;
- `OtherConnectionAssumption`: what is sent on another connection while a transaction
  is open (the fetches of `bulkload.go:49-51`) meets no table that someone of the crew
  locks exclusively.

**JorfCopy** – `CopierArchive` and `IngestComplet`: the reader, the channel of
files, the workers, four channels of lines and their COPY streams on a
connection each, a stream that fails and goes on emptying its channel (with its
connection after an error, without it after a panic), the closes, the merge
statement by statement, the end of the run, a crash and a second reading.

**Normalize** – `an.Extract` and `an.Normalize`: extractions that begin in an
order and commit in another, the watermarks per scope, the decision to keep the
votes, and the chain of transactions that rebuilds them, with a crash between
any two.

**Download** – `downloadBody` chunk by chunk. The server replaces its document
between and during attempts, cuts the connection, answers 200, 206, 304, 4xx,
5xx or 416, with or without sizes.

**Archive** – `Fetch` and `fetchOnce` over `Download`'s result: the prefetched
replay, conditional headers, 304, the file, `raw.document`, `raw.retrieval`, the
retries of the whole, crashes between the three writes, files that disappear,
the day in the path.

**Matview** – commands that load tables, then refresh every view: `registre`'s
order, the two hashes, the skip, and the transaction `REFRESH` + `mv.etat`,
whose snapshot PostgreSQL takes before it waits for the lock of the view. A
table's content is the number of its last change (generated ids and dates keep a
reloaded table from coming back to a former content); a view's content is what
it was computed from. `Declarations` holds the catalogue as it is and one that
forgot a view that another reads: what `registre` and the hash know is the
declared list, what the SELECT reads is `Reads`. `sql_hash` is left out: the
deployed definitions do not change during a behaviour.

**Mapping** – `carto.Ingest` statement by statement, with the snapshot each
statement reads, the lock of the lineage, the two triggers of migration 0011,
and everyone else's SQL: freezing, citing, editing, moving a link, reopening.
What the others may do in a behaviour is settled by `others`, so that a property
names the interferences it excludes (`Never({"race", "move"}) => ...`).

**Site** – from ingestions to the served directory. What a section reads is numbers
that changes increase: `core` for the tables that `checksum.Sections` names, `code` and
`style` for the files of `filesSection` (those of one list, those of all), and `aside`
for what its pages show and no list names, which no fingerprint sees. Ingestions of every kind end as the code
ends them; a build checks, erases, writes or copies each section, records its
manifest, verifies its assets and swaps; kills fall between any two steps.
`allowed` names what may happen in a behaviour, as in `Mapping`.

**SiteGraph** – the nodes of `buildRegistry` in the order of their declaration: the
dependencies of each, the results its body takes with `dep`, the sections it
writes, and what it reads and writes beside results, through pointers that its
predecessors returned (the mandates and votes of persons, the families of topics,
the manifest). `sectionNodes` and the pages that topics quote are in it too. What
a load returns is not.

**BuildGraph** – a build on such a graph: the request, its targets (`ResolveTargets`,
which takes a name for a section's before it takes it for a topic's),
the plan (`Closure`, `NeededOrder`, which are `closure` and `Levels` written as
bounded passes), the launch by priority under the slots, arrivals, failures in
stop mode, and the pages that `sujets-data` reads back one by one. The dispatcher is
`Pipeline`'s without channels and goroutines, whose interleavings `Pipeline` checks.

`Ingestion`, `Catalogue` and `Schema` meet in `MCIngestion`, `SiteGraph` and
`BuildGraph` in `MCBuild`; the modules share no
variable otherwise. What one component takes from another is the other's
promise: `Prefetch` takes `GraphExecution`, `Archive` takes an outcome of
`Download`, `Ingestion` takes a download as an operation that succeeds or fails,
`Site` takes an ingestion as the way it ends.

Theorems and proofs are in `PipelineProofs` (with `Prefetch`'s), `SiteProofs`
(with `BuildGraph`'s), `JorfCopyProofs`, `NormalizeProofs`, `ArchiveProofs` (with
`Download`'s), `MatviewProofs`, `MappingProofs` and `IngestionProofs`: section 4.

Beside some definitions stands a mutated form (`..._bug`): a plausible bug in
the code the definition translates, with which a property of the module was
shown to be falsifiable. No specification uses them.

## 3. What the runs show

| Run | Expected | What it shows |
|---|---|---|
| `pipeline_stop` | pass | Stop mode, all graphs of 4 steps, 2 slots: no step runs on partial inputs, the slot count is exact, the answer is all or nothing, fewer than `Limit` steps start after a failure, and `Pipeline` implements `GraphExecution` |
| `prefetch` | pass | `ContinueOnError` beside the downloads, all graphs of 3 steps: a failed download costs the waiters and what is downstream of them only; a failure is contained and the report complete; the command returns if the bodies do; a step without a file is held back by the slots only |
| `ingestion` | pass | every source of the catalogue, run twice with a crash anywhere and a failure of any operation, the crews that meet in rows or locks, composites beside their parts included, and four sources on four connections: what a run calls a success is whole, but for the named groups that a loader may cut short; a failure loses nothing but what is named; no two transactions write the same rows, unless they run one same connector; no wait goes through the clients; an ingestion ends unless transactions keep every connection and each asks for another |
| `jorf_copy` | pass | an archive whole or damaged, one fault anywhere, a crash and a second reading, beside a step that uses a connection: what is merged is the archive, no block without its act at any moment, every reading ends |
| `normalize` | pass | four documents extracted and committed in any order, three runs, forced or not, a crash anywhere: a run that ends leaves the votes of `raw.record`; watermarks that would let the next one skip them are deserved |
| `download` | pass | every kind of server: what is sealed of one version is all of it, failures are earned, every download ends |
| `archive_sealed` | pass | two goroutines, crashes, lost files, a midnight: what `Fetch` returns is readable, what is attested was served, a sealed row keeps its file |
| `mapping` | pass | two transactions and everyone else: one CSV per revision, frozen is read-only, cited is reproducible, each under the conditions it names |
| `matview` | pass | two commands, two views, two catalogues: `mv.etat` claims nothing a view has not reached; a command that ends well leaves no view older than its loads; every refresh ends |
| `site` | pass | after a complete ingestion a full build serves no page older than the tables, files and views that the lists of its section lead to, and only copied pages are stale in anything; only whole sites are served, and the served one leaves its place for a whole one, whatever is killed |
| `build` | pass | the graph of the site whole, for the whole site and for parts of it, any node failing: no body is handed a zero, shared data is complete and has one writer but for three named pairs, a section asked for, under one of the nine names it shares with a topic too, is written by all its nodes |
| `build_pages` | violation | the topics read pages of data that the same build has not written yet |

The violation run checks what a comment of the code says; `PROJECT.json`,
`findings`, quotes it. Section 5 lists other disagreements, which no run
exhibits.

### Bounds, and why they are enough

- Pipeline: 4 steps cover every shape that matters (diamond, chain, fork with
  an unrelated branch, a failure beside a success that waits to be read); 2
  slots keep one ready step waiting. The proofs remove the bound. Prefetch: 3
  steps, because of its liveness properties; no file, one, or two: two are
  needed for a file that arrived beside one that failed.
- Ingestion: the catalogue is the real one. What a source does alone, and what
  its own crash leaves to its second run, is checked for each; two sources can
  only disturb each other in a table or in a lock, so the crews of two are every
  pair of the default chain or of the catalogue that writes a same table, and pairs
  of each kind of lock (drop against drop, drop against reference, two referenced
  tables in two orders). The pairs of the catalogue are those that a category or `full`
  launches in one wave, composites beside their parts; of the ten parts of `fiscalite`,
  alike, two are beside the whole. `Limit` and `MinPool` are 4, the code's from `-j 4` on
  (a larger `-j` has a larger pool, of as many connections as slots): a crew of four that open
  transactions and fetch in them fills the pool, and does exhaust it. A crew of one starts
  twice (`MaxStarts`), one of several once: what a second start would meet, a crew of
  one meets too, since a crash ends everyone's sessions together. `MaxParts`: a source
  alone may leave one group in part at a time, which several groups in part would
  not change for any property, and which is nothing to another source. The run has
  809 519 states. Rows are folded into the groups that a statement writes or
  replaces as a whole. Locks are those on tables that someone of the crew locks
  exclusively, the others never block; a plain read has none. The documents of
  `raw.document` are one group: their keys never collide. Groups that some
  connector deletes in a transaction of its own before it loads them again are
  named one by one in `MCErasedFirst`, and those that a loop may cut short in
  `MCCutShort`, so that a new one is a violation.
- JORF: two files of two and three lines for four tables, two workers and
  channels of one place: with fewer places more waits happen, not fewer. A pool of
  four, which is the code's for `-j` up to 4, and one other step that holds a
  connection. One fault, two readings: the second meets what the first left in
  `jo_staging`. A damaged archive stops the reader at a file (`Cuts`).
- Normalize: two documents of actors and bodies, two of roll calls, of which the
  second corrects the first: the smallest set in which a document that commits
  late has an older and a newer neighbour. Three runs: one that loads, one that
  dies, one that decides what to keep.
- Download: three versions of lengths 3, 2 and 3, and 8 attempts (the code's
  constant): a resumption meets a longer, a shorter or an equal document.
- Archive: one URL, two contents, two goroutines, two days, two tries: a race
  needs two of each.
- Mapping: two revisions, two links, two transactions: one holds the
  lineage while the other waits for it. The proofs remove these bounds.
- Matview: two commands, a table changed twice, a view of it (`person_actif`) and
  a view of both (`mandate_actif`): the shortest chain on which the order
  matters. `CoreThenMv` says nothing of overlapping commands (`overlapped`);
  section 5 says why.
- Build: the graph is the code's. Two slots: of two nodes that nothing orders, one
  may stay in its slot while the other slot runs whatever is not downstream of it,
  so that both run at once in some schedule; no property speaks of three. `MaxPath` 8
  for paths of at most 6 nodes, which `Needed` and the plan would be too short
  without. The sixteen loads that are declared in the random order of a Go map are
  in one order, as none is told from another. Requests: the whole site, a section of each
  kind of `sectionNodes`, a topic, the nine names that are both, with one beside a topic,
  and pairs that share data.
- Site: one change of the listed tables, two runs, one change of the listed files of a
  section and one of those of all, one of what no list names, one hashed section
  beside the rest: staleness needs one change and a copy on either side of it.
  `MaxLoads`, `MaxRuns`, `MaxCode`, `MaxAside` guard the actions they bound. Four scenarios:
  whatever fails or is killed with partial ingestions; views left behind and truncated
  builds with kills; a build during an ingestion; what the lists do not see.

Deadlock is checked in every run of a module that states as a step of its own
where it may stop. `Ingestion`, `JorfCopy` and `Normalize` describe commands
that end: their runs say `CHECK_DEADLOCK FALSE`, and the first two find a system
that stops too early by their liveness property instead.

### Fairness

- `Pipeline`'s `PromptFairness` is weak fairness of the dispatcher and of the
  plumbing of the goroutines: the Go scheduler runs a ready goroutine, and the
  channel is buffered to the number of steps. `FairSpecPrefetch` adds the select of
  `attendre` and the start of the downloads. No fairness of the bodies: in
  `ReturnsAnyway` "connectors return" and "downloads end" are hypotheses of the
  property, which connectors owe to HTTP and SQL timeouts, and `NotBehindAFile`
  holds without them.
- `Ingestion` assumes weak fairness of all its progress together: as long as some
  source can go on, some source does. Statements and the ten minutes of
  `lock_timeout` end, PostgreSQL looks for deadlocks, the pool serves its waiters.
  `EveryIngestionEnds` needs no more, because scripts have no loop: an
  ingestion that does not end has stopped.
- `JorfCopy` assumes strong fairness of the program as a whole, whose goroutines
  are enabled and disabled by connections others take and give back (the pool
  serves its waiters in their order), and that the other step gives its
  connection back. No fault, crash or second reading is assumed.
- `Download` assumes that a request is answered or times out (the client's
  timeout).
- `Matview` assumes strong fairness of each command: a wait for a lock is disabled
  and enabled again as others take and release it, and PostgreSQL's lock queue is
  first come, first served; statements end. A crash is never assumed.
- The other specifications, `BuildGraph` among them, need none: `PagesAreWritten` is a
  safety property.

## 4. What is proved

For every value of the constants, under the named `ASSUME`s only. Each module
proves one inductive invariant, a conjunction of named parts, and draws its
theorems from it; `PROJECT.json`, `theorems`, lists them.

**`PipelineProofs`** – the dispatcher, then an ingestion command.
- `TypeCorrect`; `CompleteInputs` (a step runs with the value of every
  dependency); `FailuresAreContained` (nothing downstream of a failed step, at
  any distance, is ever started). The invariant: a launched step's dependencies
  are arrived and succeeded; `omitted` is closed downstream of `failed`; what
  runs is neither. Distance needs no induction: closure is expressed on the set
  of steps with a failed ancestor, which the code's propagation keeps closed.
- `SlotsAreExact`, `LateStartsAreBounded` and `Implements` (the refinement of
  `GraphExecution`): `EndInv` counts `inFlight` as the cardinality of the
  launched steps whose arrival is unread and says that, between two rounds, no
  ready step is forgotten.
- `AllOrNothing` and `CompleteReport`: `RunInv` relates what is returned to what
  happened (the error is that of a failure that ended, a success has its row in
  the journal, the results are those of started steps, `echouees` is the failures
  whose arrival was read). That nothing is left over takes a least-index
  argument: of a closed set without failures, the first step in the order of
  declaration that never started would be ready.
- `RunsThePipeline` (`SpecPrefetch => Spec`: the waits never make the dispatcher do
  what `Pipeline` cannot), hence `PrefetchFailuresAreContained` and
  `PrefetchReportIsComplete`; `FilesComeFirst`, from an invariant on the second run
  (once it is over nothing runs in it, and either it failed or every file is
  there); `OnlyWaitersAreLost` (`LostInv`: who ended without entering its connector
  waited for a wave that failed, and such a failure is final);
  `PrefetchTypeCorrect`.

**`SiteProofs`**, on `Site` – for any number of loads, runs and changes of code.
`SiteTypeCorrect`; `WholeSite` and `SafeSwap` from `ServeInv` (what is served is whole
or absent, and so is, from the end of its build, what will take its place);
`FreshTablesHold` from `IngestionInv` and `TablesInv` (what a manifest, a checksum
and a page say of each other at each point of an ingestion and of a build, a kill
included), and from the fact that a section under construction is what would be
written now or a copy, of a section with a checksum; `FreshSiteHolds` adds `ViewsInv`,
the same as `TablesInv` for what derives from views. The last two hold in the
scenarios that their properties name, and of what the lists of the code name: no theorem
says that a copied page shows the last `aside`, and none could (section 5).

**`JorfCopyProofs`** – any archive, any number of workers, any capacities.
`JorfTypeCorrect` includes the bounds of the channels and of the pool.
`MergesTheArchive`: `NoLineIsLost` says that each line of a table whose stream goes
well is still on its way (in a file to read, with a worker, in a channel, in the
COPY) or committed once; `Control` says which parts have stopped when, and that
nothing is left in the channels when a reading starts. `BlocksReferToActs`
assumes `ReferenceAssumption`: `analyze` sends the line of an act before those of its
blocks (`copie.go:402-435`), and `bloc_texte_fk` (migration 0061) holds before.

**`NormalizeProofs`** – any sequence of documents and of runs.
`NormalizeTypeCorrect`, `VotesAreRight` and `WatermarksAreEarned`. Records are only
ever added, so that one watermark stands for one set of records (`WaterInv`);
`ReadInv` and `VotesInv` follow the scope that a run is rebuilding; `DerivedInv`
says what a watermark written down promises. Assumed of the documents: they are
finite, actors come with bodies, a group votes once in a roll call (the primary
key of `ballot_group`).

**`ArchiveProofs`** – any number of goroutines, URLs, contents, days and tries,
then the body of one download.
- `ArchiveTypeCorrect`, `ReadableResult`, `HonestAttestation` and
  `SealedAfterItsFile`. `ArchiveInv` joins what the database holds (a key that is
  given names a content, the ETag of a row is that of its document) and what each
  call knows between two of its writes (`CallInv`), which no other call disturbs
  because files are only added, and keys given once, while a call is under way.
- On `Download`: `DownloadTypeCorrect`; `WholeBodies`,
  where `FileInv`, `RespInv` and `AnnouncedInv` say that chunk `i` of the file is byte
  `i` of some version already published, that an answer goes on where the file
  ends, and that the size announced is that of a version not older than the first
  chunk; `FailuresAreEarned`, where `BudgetInv` keeps an account: a fault pays for two
  attempts, a publication for one, and a resumption that may still end in a 416
  has one attempt in hand.

**`MatviewProofs`** – any catalogue, any number of commands.
`TypeCorrect` and `TableClaimsAreTrue`: for a view that reads tables only,
`mv.etat` never claims what the view has not reached, whatever overlaps, fails or
is killed. `TablesInv` orders three versions of each table: the one hashed, the
one of the snapshot, the present one; it is the order of reads in `Actualiser` that
keeps it. `ViewClaimsAreTrue` and `CoreBeforeViews`, for views of views, hold as long
as one command refreshes at a time: `AloneInv` says what the views refreshed so
far, in the order of `registre`, have reached.

**`MappingProofs`** – any number of transactions and revisions. `MappingTypeCorrect`
and `OneCsv`; `ReadOnly` and `Reproducible`, under the conditions their properties
name: without a freeze under a transaction and without a link moved, a frozen
revision never changes; if besides none is reopened, a cited revision keeps the
content of its hash. `NumberInv` strengthens the type: a transaction that holds
the lineage is the only one to write a head, and the revision it creates is the
next.

**`SiteProofs`**, on `BuildGraph` – any graph declared in the order of its dependencies,
each name once (`Registry.Add` refuses others). `BuildTypeCorrect` (never more than
`Limit` nodes at once); `BuildInductive`: the plan is closed under dependencies and
a node is launched after all of its own. Then three theorems whose hypothesis is
a rule on the declarations alone, without states:
- `BodiesFindTheirResults`: if bodies ask only for what their node depends on
  directly (`AsksAreDeclared`, the rule that `graphe.go:1070` recalls), none is
  handed a zero;
- `SharedDataHolds`: if those who share data wait for one another through
  dependencies, the named pairs excepted (`SharersWait`), what they read is
  complete and nobody else writes it;
- `SectionsAreWhole`: if the table of sections names every node that writes pages of
  them (`SectionsAreListed`), a build that succeeds has run all those of what was
  asked for.

`build` checks the three conclusions on the graph of the site itself. What a fold
computes is out of the provers' reach, so that the plan is closed is assumed
(`PathAssumption`) and evaluated by TLC for each request.

**`IngestionProofs`** – any catalogue of sources, any crew, limit and pool, whatever
fails, is killed or is run again. `IngestionInductive` is proved source by source:
`OthersStay` says that a step of one source is seen by the others in the tables and
the queue only, so that each action is left with what it does to its own
(`SourceInv`). Its parts: only what runs, or closes its run, holds or waits for
something (`HoldingInv`); between `begin` and `commit` a transaction is open and a
commit is to come (`TransactionInv`); locks taken outside it are of the statement
under way, which is why a `begin` takes a connection that is counted (`LockInv`);
what an open transaction removed is filled before it commits (`RowsInv`). From it:
- `IngestionTypeCorrect`: a source that ended holds no lock, no request and no
  connection, and no more connections are in use than the pool has;
- `WritersNeverMeet`: of two sources that write a same group, twins apart, one was
  launched when the other was done (`LaunchInv`);
- `RowsStay`: what is committed at once removes nothing that stays, and what a
  transaction removes is there again when it commits.

`SuccessSaysTheTruth` and `NoCycleIsHidden` need more, `Whole` (`WholeInductive`), a second
invariant that rests on the first. `WrittenInv` is its core: whatever a source has
passed – executed, or skipped – is there as its own transaction sees it (`Effect`), or
is filled before the next watermark, skip or end of run (`Due`). It is not inductive
alone. A commit publishes what a transaction removed: `RemovedInv` says which operation
did, and that nothing was recorded or ended since, so that `RefillAssumption` applies
to it. A watermark of an earlier run vouches for rows that this run may be writing
again: `RecordedInv` says that the watermark is not recorded while its source goes
through what it covers. `EndedInv` and `DoneInv` keep what an end of run and a source that
is done have said, against the source itself and, by `OwnRowsAssumption`, against the
others (`OthersStayWhole`): these two parts are for a source that is with none of its
twins (`Apart`), while `OwnInv`, what a source knows of its own transaction and
watermarks, holds beside a twin too. What was written is `Loaded`: whole, or a part for
the groups of `CutShort`. Each is `Settled` at the one point where it is
established: there, no transaction is open and nothing is due. From them:
- `SuccessSaysTheTruth`: wherever earlier processes were killed between a transaction,
  its watermark and the end of the run, and whatever was skipped since, what a source
  that is done or a run in SUCCESS has written is served as the documents of the day
  say, as far as its loader has read them, if none of its twins is in the crew;
- `NoCycleIsHidden`: with a transaction open (`OpenInv`), the statement that its source
  sends on another connection waits for no lock.

The `ASSUME`s on the catalogue are evaluated by TLC in the run `ingestion` for every
source and every crew: a connector that empties the scope of another, that loads
outside a transaction what it deleted, or that ends its run before it commits, makes
one of them false, and so does a migration that links `raw.document` to a table whose
constraints are dropped.

The type invariants proved, the inductive invariants and `FilesBeforeConnector` are
not among the runs' properties: the theorem says more.

Only model-checked:
- liveness (`ReturnsAnyway`, `NotBehindAFile`, `EveryIngestionEnds`,
  `EveryReadingEnds`, `Terminates`, `EveryRefreshEnds`): fairness and ENABLED are out of
  the provers' reach. So is induction over data; where a proof needs some, it
  takes a least element (`WFMin`), or the model states closure on sets;
- `PagesAreWritten`, which is false.

## 5. Divergences that no run exhibits

Met while modelling. Where a model holds the code concerned, its properties are
conditioned on the absence of the divergence, or say the weaker thing that holds.

Steps and downloads:

- `pipeline.go:399`: in stop mode steps do start after a failure, while its arrival
  is unread; the comment at 235-237 says none does. `LateStartsBounded` is what holds.
- `prefetch.go:68`: one file that fails is the error of every waiter, whatever file it
  waits for (`OnlyDependantsAreLost` says who).
- `prefetch.go:150`: a connector that waited goes on with the context of the download
  run, which is the command's: in stop mode the failure of a peer no longer reaches it.
  `ingest.go:146`: the download run may outlive the command and find its pool closed.
  `ingest.go:414-418`: `RunSource` says that prefetching more than needed is "jamais une
  incorrection", yet a failing URL of a source nobody asked for fails the one
  requested. `ingest.go:714-716`: a source without files "ne patiente jamais", yet it
  does when the waiters hold all the launch slots (one, by default).
- `archive.go:369`: a resumption takes the size announced by the new answer; two
  versions of one length join into a document nobody served (`SealedIsWhole` speaks
  of what is of one version). `archive.go:409`: a 2xx that is neither 200 nor 206
  (204, 203) seals whatever the temporary file holds, a partial body included.
- `archive.go:611`: a file lost from `raw/` and fetched again on another day is
  written at a new path, while the `ON CONFLICT` row keeps the old `storage_key`.
  `archive.go:458`: the `raw.retrieval` row of a prefetched replay carries no ETag;
  as the latest row, it makes the next fetch unconditional.

Loading:

- `ingest.go:466`: a category, or `fpctl ingest full`, puts `numerique` in one wave with
  the sources it is made of (`numerique-cnil`...), `fiscalite` with `fiscalite-*`, `dossiers`
  with `dossiers-*`: two transactions erase and fill the same tables at once. The
  comment of `catalogue.go:498-504` tells of the same defect in `aides-nominatives`
  ("l'un des deux échouait sur la clé primaire"); `catalogue.go:275` says of the `communes-*`
  sources that "la chaîne doit rester strictement linéaire". `MCCrews` has these pairs, and
  `OneWriter` and `SuccessIsWhole` leave out such twins: without `Twins`, TLC finds
  `WritersAssumption` false of them and, without the assumption, `OneWriter` violated by
  `{"numerique", "numerique-cnil"}`. The other properties hold of them.
- `ingest.go:353`: the pool has as many connections as launch slots, but a connector
  that holds one in its transaction takes another to fetch, or to end its run after an
  error ("chaque connecteur écrit sa provenance [...] par une AUTRE connexion du pool,
  pendant que sa propre transaction reste ouverte", `bulkload.go:49-51`). With a
  transaction in every slot, everyone waits for a connection that nobody gives back,
  which no `lock_timeout` ends. The run `ingestion` has a crew that comes to it
  (`controle-fiscal`, `ecart-prix-dom`, `francophonie`, `accord-paris`, four slots, four connections),
  and `EveryIngestionEnds` names it, `PoolExhausted`: in the run, no ingestion
  stays unended in any other way.
- `jorf/copie.go:353-362`: when reading the archive fails, `CopierArchive` returns
  without closing its channels: the workers and the four COPY streams wait for ever with
  their connections, `EndRun` then asks a pool of four for a fifth, and the command
  does not end. `EveryReadingEnds` therefore only says, of a damaged archive, that the
  copy is left. A neighbour that holds one connection and asks for a second while four
  streams ask for theirs freezes the same pool; the neighbours of `JorfCopy` hold at
  most one.
- `ingest.go:765`: the archives of the Assemblée are extracted in the order of a Go map,
  so that the record of the latest extraction is not always that of the latest
  document. A document that comes back to a former content is not extracted again
  (`extract.go`, "déjà déplié"): the latest record stays that of the content between.
- `an/scrutins.go:442`: the upsert of a roll call updates its `objet` only; its tally and
  result stay those of the first load, where `normalize.go:955` says "on reconstruit,
  on ne complète pas". `VotesAreThoseOfRaw` speaks of the votes.
- Two `Normalize` at once are not excluded by anything but the graph of one command.
- `senat.go:265`: senators merged into another person by `MergePersons` are created again
  under their `sen-…` slug by the next ingestion, and merged again.
- `europe.go:225-229`, `ches.go:133-136`, the reader of PopuList and others: an error in
  the middle of a file ends the loop as its end does, and the run ends SUCCESS with a
  part of the rows, after the old ones were deleted. Loops on `rows.Next` that never ask
  `rows.Err` do the same with an answer of the database (`an/normalize.go:152`, 418, 642,
  `an/scrutins.go:168`, `an/dossiers.go:229`, 453, 651, `an/deports.go:50`, `an/exposes.go:93`,
  260, `jorf/membres.go:39`, `fiscalite/filiales.go:378`, `fiscalite/marches.go:75`,
  `partis/cnccfp.go:71`, `presidentielle/proclamation.go:102`, `eau/eptb_epage.go:229`). `MCCutShort`
  names the groups they load; `SuccessIsWhole` allows a part of these, and of no other.
  `ches.go:189` and `populist.go:162` ignore the error of the INSERT of an identifier.
- The European Parliament, CHES, PopuList, media and CEDH connectors leave their run
  RUNNING when they fail. `geo/europe_1940.go:179` ends its run with "OK", which the CHECK
  of `0002_raw.sql:44-45` refuses; `EndRun` ignores the error. `cedh.Ingest` is never called.

Views, map, site:

- `matview.go:677`: a refresh whose snapshot is older than that of the refresh before it
  leaves a view out of date under a hash that every later refresh skips; two commands
  have to overlap.
- `0011_mapping.sql:187`: the trigger looks at the revision a link goes to, not at the one
  it leaves: an UPDATE takes a link out of a frozen revision. `0011_mapping.sql:188`: a
  freeze that commits under a running transaction lets it write in a revision already
  frozen. `0011_mapping.sql:291`: a cited revision may be reopened, edited and frozen
  under another hash.
- `0009_topics_preregistration.sql:164`: "La liste des indicateurs est close au
  scellement": nothing enforces it.
- `ingest.go:736-740`: checksums are written before the views are refreshed; if the
  refresh fails, later builds copy pages made from the older views. `FreshSite` excludes
  it (`Regular`), `FreshTables` says what is left. `ingest.go:239`: an ingestion of some
  sources writes no checksum at all: the next build copies pages that are stale.
- `checksum/sections.go:9-11` says that a table missing from its list "ne fait jamais servir
  une page fausse : au pire, une section reconstruite alors que rien n'a changé", and
  `cmd/fpctl/build.go:163-165` that "le cache par empreinte de internal/sitegen s'en assure
  déjà"; `sections.go:13-15` and `cache.go:31` say the contrary, which is what the code does:
  what a list omits leaves the fingerprint unchanged, and the next full build, after
  a complete ingestion, copies pages that are stale. The list of `scrutin` omits
  `core.dossier_promulgation` (read at `dossiers.go:183-188`, shown at
  `scrutin.gohtml:124-128`), its files omit `data/seuils.csv` (`graphe.go:284`); the
  sources, the coverage and the date of the last ingestion that the layout of every page
  shows (`main.go:365-373`, from `raw.retrieval` and others) are in no list; the globs of the
  rest do not reach the packages that `sitegen` imports (`internal/partis`...), so that
  the short circuit of a build ignores them. `aside` is all of this: `FreshSite`
  and `FreshTables` claim nothing of it in a copied page.
- `graphe_sections.go:1115`: a truncated build records its sections in the manifest
  like a full one. `sitegen/main.go:447`: the fingerprint of a build is read after its
  pages, so that an ingestion in between is recorded as built. `main.go:502`: a
  kill during the erasing of a directory leaves it without its marker.
  `main.go:223`: a kill between the two renames leaves no site in place until the next
  build.

Construction of the pages:

- `graphe.go:717-728` (`lieux`) rewrites the mandates of the persons that `identite` returned
  while `candidats` and `recherche`, which do not wait for it, show them: unsynchronized
  memory, and what they show depends on the schedule (`load.go:76` sets a lower-case type,
  `locateTerms` a label, and `recherche.go:54` looks for the prefix "depute").
  `graphe_sections.go:103` and `1115`: `communes` and `scrutin` write one Go map at
  once. `SharedDataIsComplete` names these pairs (`Unordered`).
- `cmd/fpctl/build.go:110`: `fpctl build topic dette` ("Reconstruit un seul sujet de
  campagne") never runs `comprendre`: nine topics have the name of a section (chomage,
  richesse, jeunesse, recherche, securite-civile, collectivites, agriculture, budget,
  dette), which `ResolveTargets` prefers. `MCRequests` asks for all nine; `SectionIsWhole` takes
  such a name for the section's, as the code does, and does not say that the topic's page
  is written.
- `graphe.go:962`: sixteen nodes are declared in the random order of a map, where
  `pipeline.go:264-267` promises "un plan reproductible d'un lancement à l'autre".

## 6. Not modelled, and why

- Inside a connector, what is between two statements: decoding, selection of rows,
  arithmetic, the keys of a row. An operation that refuses to go on stands for all of
  its errors.
- Row locks: two transactions that write the same rows are what `OneWriter` excludes; of
  twins, which it does not, the waits for each other's rows are not modelled.
- What a page shows, `verify`, dossiers, bulletins, statistics, markup, media: functions
  from tables or documents to text, without a protocol.
- External programs and signals (`toolrun`, `logs`): processes that share no state with
  the components modelled.
- Migrations: one transaction per file before every command; every model starts from
  the schema they leave. Object store: a copy of `raw/` that nothing reads back
  while a command runs. Published topology: two queries of an administrator's page.
- Preregistration and selections: triggers on rows edited by hand, one statement each;
  the revision triggers of migrations 0013 and 0024 are those that `Mapping` models.
- The CI export of the views: a flat copy into a throw-away schema, restarted from
  `DROP SCHEMA`. The CLI and CI: argument parsing and the order of commands, which
  is what `Site`'s environment does. The preliminary `HEAD` of a download feeds a log
  line.

## 7. Plan

1. (done) Pipeline, Prefetch, Mapping, Matview and their first proofs; Download, Archive,
   Site.
2. (done) Connections, locks, the catalogue and its connectors (`Scripts` to `Ingestion`);
   `JorfCopy`; `Normalize`; the graph of the site (`SiteGraph`, `BuildGraph`, proofs).
3. (done) The inductive invariants and theorems of `Prefetch` (who is lost), `Site`,
   `JorfCopy`, `Archive`, `Download`, `Matview` (views of views), `Normalize` and
   `BuildGraph` (shared data, sections).
4. (done) `Ingestion`: its types, the connections of the pool and every safety property of
   its run, on any catalogue that follows its assumptions.
5. Liveness stays with TLC. What could still be modelled is in section 6.

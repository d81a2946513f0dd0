------------------------------ MODULE Ingestion ------------------------------
(****************************************************************************)
(* fpctl ingest: the connectors of internal/ingest running together against *)
(* one PostgreSQL database.  A crew of sources runs on the graph of their   *)
(* dependencies; each runs the scripts of its connectors, one operation     *)
(* after the other, with two kinds of sessions: one connection of the pool  *)
(* for its transaction, kept from Begin to the end, and one more, for the   *)
(* time of a statement, for everything that it writes outside it            *)
(* (raw.source, raw.fetch_run, the sealed documents, the watermark).  The   *)
(* sessions meet in the table locks of internal/bulkload and in the pool.   *)
(*                                                                          *)
(* Locks are those that can block: on a table whose foreign keys some       *)
(* member of the crew drops.  Rows are the groups that a statement writes   *)
(* or replaces as a whole.                                                  *)
(****************************************************************************)
EXTENDS Scripts, Integers, FiniteSets, FiniteSetsExt, SequencesExt, Functions

CONSTANTS
    Chain,            \* the sources: name -> [needs, runs]
    Crews,            \* the sets of sources that are asked for
    Limit,            \* Options.Concurrency
    MinPool,          \* the size below which the pool never goes
    ForeignKeys(_),   \* table -> the tables that its foreign keys reference
    ErasedFirst,      \* the groups that some connector deletes before it loads
    CutShort,         \* the groups whose loader takes an error of what it reads for the end
    MaxParts(_),      \* bound: crew -> how many groups are left in part at a time
    MaxStarts(_)      \* bound: crew -> how often the command is run

ASSUME IngestionAssumption ==
    /\ \A c \in Crews : c \subseteq DOMAIN Chain /\ IsFiniteSet(c)
    /\ \A s \in DOMAIN Chain : Chain[s].needs \subseteq DOMAIN Chain
    /\ Limit \in Nat \ {0}
    /\ MinPool \in Nat \ {0}
    /\ \A c \in Crews : MaxParts(c) \in Nat

VARIABLES
    crew,       \* the sources of this command                          (rigid)
    contended,  \* the tables that one of them locks exclusively         (rigid)
    phase,      \* source -> "waiting", "running", "closing", "done", "failed"
    pc,         \* source -> its next operation
    tx,         \* the sources that have a transaction open
    locks,      \* the table locks held: records [step, session, table, mode]
    queue,      \* the lock requests that wait, in their order of arrival
    pending,    \* source -> what its open transaction does to the rows
    served,     \* groups of rows -> "before" (as they were), "new" (those of
                \* the documents of today), "part" (some of those) or "gone" (deleted)
    recorded,   \* the scripts whose watermark is that of the documents
    status,     \* source -> its last run: "none", "RUNNING", "SUCCESS", "FAILED"
    starts        \* how often the command was started

command == <<crew, contended>>
sessions == <<tx, locks, queue, pending>>
database == <<served, recorded, status>>
vars == <<command, phase, pc, sessions, database, starts>>

----------------------------------------------------------------------------
\* The operations of a source, one script after the other.

Step(op, script, onError) ==
    [do |-> op.do, table |-> op.table, scope |-> op.scope, script |-> script, onError |-> onError]
Sequenced(runs) ==
    FlattenSeq([i \in DOMAIN runs |->
        [k \in DOMAIN runs[i].ops |-> Step(runs[i].ops[k], i, runs[i].onError)]])
Steps == [s \in DOMAIN Chain |-> Sequenced(Chain[s].runs)]

\* The operations j..k of s follow each other: no commit, nothing that is skipped.
Follow(s, j, k) ==
    \A i \in j..k : Steps[s][i].do \notin {"begin", "commit", "record", "skip if recorded"}
\* Operation k of s is made in a transaction.
InTransaction(s, k) == \E j \in 1..(k - 1) : Steps[s][j].do = "begin" /\ Follow(s, j + 1, k)

\* The transaction that a begin before operation k opened has not ended.
Open(s, k) ==
    \E j \in 1..(k - 1) : Steps[s][j].do = "begin" /\ \A i \in (j + 1)..(k - 1) : Steps[s][i].do # "commit"
\* A skip at operation q goes round everything up to operation m.
Spans(s, q, m) ==
    /\ Steps[s][q].do = "skip if recorded" /\ q < m /\ Steps[s][m].do = "record"
    /\ \A i \in (q + 1)..(m - 1) : Steps[s][i].do # "record"
\* The operations that say something of what was written before them.
Statements == {"record", "end run", "skip if recorded"}

\* What is skipped ends with a watermark, a transaction ends with a commit and
\* is not skipped half-way, constraints are dropped in a transaction.
ASSUME StepsAssumption ==
    \A s \in DOMAIN Chain :
        /\ Len(Steps[s]) \in Nat /\ DOMAIN Steps[s] = 1..Len(Steps[s])
        /\ \A k \in DOMAIN Steps[s] :
              /\ Steps[s][k].script \in DOMAIN Chain[s].runs
              /\ Steps[s][k].do = "skip if recorded" =>
                    \E m \in (k + 1)..Len(Steps[s]) : Steps[s][m].do = "record"
              /\ Steps[s][k].do = "begin" =>
                    \E m \in (k + 1)..Len(Steps[s]) :
                        /\ Steps[s][m].do = "commit"
                        /\ \A i \in k..m : Steps[s][i].do # "skip if recorded"
              /\ Steps[s][k].do = "unlink" => InTransaction(s, k)

\* the operation that s has under way
Current(s) ==
    IF phase[s] = "running" /\ pc[s] <= Len(Steps[s]) THEN {Steps[s][pc[s]]} ELSE {}

\* what a source waits for, directly or not: no path has more than 16 dependencies
Prerequisites ==
    [s \in DOMAIN Chain |->
        FoldSet(LAMBDA i, found : found \union UNION {Chain[d].needs : d \in found},
                Chain[s].needs, 1..16)]

----------------------------------------------------------------------------
\* Rows: a statement of scope All replaces the groups of the whole table.

Replacing == {"sync", "erase"}
Writes == {"upsert", "sync", "erase", "fill"}
GroupOf(s, op) == <<op.table, IF op.do = "upsert" THEN s ELSE op.scope>>
OpsOf(s) == Range(Steps[s])
GroupsOf(s) == {GroupOf(s, op) : op \in {o \in OpsOf(s) : o.do \in Writes}}

Replaces(op, group) ==
    op.do \in Replacing /\ op.table = group[1] /\ op.scope \in {group[2], All}
Touches(s, g) == \E op \in OpsOf(s) : op.do \in Writes /\ (g = GroupOf(s, op) \/ Replaces(op, g))
Fills(s, k, g) == Steps[s][k].do \in Writes \ {"erase"} /\ GroupOf(s, Steps[s][k]) = g
Groups(c) == UNION {GroupsOf(s) : s \in c}

Removes(s, k, g) == Replaces(Steps[s][k], g) /\ ~Fills(s, k, g)

\* Watermarks and runs are for what is committed; a script has one watermark.
ASSUME StatementsAssumption ==
    \A s \in DOMAIN Chain : \A k \in DOMAIN Steps[s] :
        /\ Open(s, k) => Steps[s][k].do \notin Statements
        /\ \A m \in DOMAIN Steps[s] :
              /\ Spans(s, k, m) => Steps[s][m].script = Steps[s][k].script
              /\ Steps[s][k].do = "record" /\ Steps[s][m].do = "record" /\ k # m =>
                    Steps[s][m].script # Steps[s][k].script
\* What a source writes and later removes, it fills before it says anything of
\* it, and it removes nothing of a run that is ended.  What can be skipped is
\* removed by what is skipped with it.
ASSUME RefillAssumption ==
    \A s \in DOMAIN Chain : \A j, k \in DOMAIN Steps[s] : \A g \in GroupsOf(s) :
        Removes(s, j, g) /\ Fills(s, k, g) =>
            /\ k < j =>
                  /\ \E m \in (j + 1)..Len(Steps[s]) :
                        Fills(s, m, g) /\ \A i \in j..m : Steps[s][i].do \notin Statements
                  /\ \A e \in k..j : Steps[s][e].do # "end run"
            /\ \A q, m \in DOMAIN Steps[s] : Spans(s, q, m) /\ k \in q..m => j \in q..m

\* Two entries of the catalogue that run one and the same connector, a whole and
\* its part: a category or the full command launches both, in one wave unless
\* one is declared to wait for the other (ingest.go:166-213, 466).
TwinsOf ==
    [s \in DOMAIN Chain |->
        {t \in DOMAIN Chain \ {s} : Range(Chain[s].runs) \intersect Range(Chain[t].runs) # {}}]
Twins(a, b) == b \in TwinsOf[a]
\* s is with none of its twins.
Apart(s) == \A t \in crew : ~Twins(s, t)

\* No source of a crew removes the rows that another one fills, twins apart.
ASSUME OwnRowsAssumption ==
    \A c \in Crews : \A a, b \in c : \A k \in DOMAIN Steps[a] : \A g \in GroupsOf(a) :
        a # b /\ ~Twins(a, b) /\ Fills(a, k, g) => \A j \in DOMAIN Steps[b] : ~Removes(b, j, g)
\* Sources that write the same rows depend one on the other, twins apart.
ASSUME WritersAssumption ==
    \A c \in Crews : \A a, b \in c :
        a # b /\ ~Twins(a, b) /\ (\E g \in Groups(c) : Touches(a, g) /\ Touches(b, g)) =>
            a \in Prerequisites[b] \/ b \in Prerequisites[a]
\* What a source removes is filled again before the end of the same transaction.
ASSUME ReplacementAssumption ==
    \A c \in Crews : \A s \in c : \A k \in DOMAIN Steps[s] : \A g \in Groups(c) \ ErasedFirst :
        Replaces(Steps[s][k], g) /\ ~Fills(s, k, g) =>
            \E j \in 1..(k - 1), m \in (k + 1)..Len(Steps[s]) :
                Steps[s][j].do = "begin" /\ Follow(s, j + 1, m) /\ Fills(s, m, g)

\* A loop that takes an error for the end of what it reads (europe.go:225-229,
\* ches.go:133-136, rows.Next without rows.Err at an/normalize.go:152, ...) loads
\* the part that it has read, and its connector goes on: no error is returned.
Loaded(g) == IF g \in CutShort THEN {"new", "part"} ELSE {"new"}
InPart(rows) == {g \in DOMAIN rows : rows[g] = "part"}
Parts == InPart(served) \union UNION {InPart(pending[s]) : s \in crew}
LoadedBy(s, op) ==
    {value \in Loaded(GroupOf(s, op)) :
        value = "part" => Cardinality(Parts \ {GroupOf(s, op)}) < MaxParts(crew)}

Changes_bug(s, op, value) ==                \* a DELETE that forgets its scope
    [g \in {h \in DOMAIN served : h[1] = op.table} |->
        IF g = GroupOf(s, op) /\ op.do # "erase" THEN value ELSE "gone"]
Changes(s, op, value) ==
    [g \in {h \in DOMAIN served : h = GroupOf(s, op) \/ Replaces(op, h)} |->
        IF g = GroupOf(s, op) /\ op.do # "erase" THEN value ELSE "gone"]
With(rows, changes) == [g \in DOMAIN rows |-> IF g \in DOMAIN changes THEN changes[g] ELSE rows[g]]
Plus(changes, more) ==
    [g \in DOMAIN changes \union DOMAIN more |-> IF g \in DOMAIN more THEN more[g] ELSE changes[g]]
NoChange == [g \in {} |-> "new"]

----------------------------------------------------------------------------
\* Table locks.

\* tables that a DROP CONSTRAINT leaves linked, because everyone writes them
Provenance == {"raw.source", "raw.document"}
DroppedParents(t) == ForeignKeys(t) \ Provenance

Exclusive(op) == IF op.do = "unlink" THEN {op.table} \union DroppedParents(op.table) ELSE {}
\* a write checks its foreign keys, and locks their tables for the check
Shared(op) ==
    CASE op.do \in Writes           -> {op.table} \union ForeignKeys(op.table)
      [] op.do = "ensure source"    -> {"raw.source"}
      [] op.do = "start run"        -> {"raw.fetch_run", "raw.source"}
      [] op.do = "fetch"            -> {"raw.retrieval", "raw.document", "raw.source"}
      [] OTHER                      -> {}

\* What a crew locks against everyone.
Contended(c) == UNION {UNION {Exclusive(op) : op \in OpsOf(s)} : s \in c}

\* What is sent on another connection while a transaction is open meets none of
\* the tables that somebody locks exclusively.
ASSUME OtherConnectionAssumption ==
    \A c \in Crews : \A s \in c : \A k \in DOMAIN Steps[s] :
        Open(s, k) /\ Steps[s][k].do \notin Writes \union {"unlink", "commit"} =>
            Shared(Steps[s][k]) \intersect Contended(c) = {}

Session_bug(s, op) == IF s \in tx /\ op.do \in {"unlink", "commit"}   \* a write sent to the pool
              THEN "transaction" ELSE "statement"
Session(s, op) == IF s \in tx /\ op.do \in Writes \union {"unlink", "commit"}
              THEN "transaction" ELSE "statement"
Lock(s, session, t, mode) == [step |-> s, session |-> session, table |-> t, mode |-> mode]
NeededLocks(s, op) ==
    {Lock(s, Session(s, op), t, "exclusive") : t \in Exclusive(op) \intersect contended}
    \union {Lock(s, Session(s, op), t, "share") : t \in Shared(op) \intersect contended}
Holds(l) == l \in locks \/ [l EXCEPT !.mode = "exclusive"] \in locks
MissingLocks(s, op) == {l \in NeededLocks(s, op) : ~Holds(l)}
\* a statement takes the lock of its own table first
NextLock(s, op) ==
    LET own == {l \in MissingLocks(s, op) : l.table = op.table}
    IN  IF own # {} THEN CHOOSE l \in own : TRUE ELSE CHOOSE l \in MissingLocks(s, op) : TRUE

Conflict(a, b) ==
    /\ a.table = b.table
    /\ <<a.step, a.session>> # <<b.step, b.session>>
    /\ "exclusive" \in {a.mode, b.mode}
Ahead(l) == IF l \in Range(queue) THEN {queue[i] : i \in 1..(CHOOSE i \in DOMAIN queue : queue[i] = l) - 1}
            ELSE Range(queue)
Blockers(l) == {b \in locks \union Ahead(l) : Conflict(l, b)}
Queued(s) == {l \in Range(queue) : l.step = s}
\* a source waits for one lock at a time
Dequeued(s) == IF Queued(s) = {} THEN queue
               ELSE RemoveAt(queue, CHOOSE i \in DOMAIN queue : queue[i].step = s)

----------------------------------------------------------------------------
\* The pool.

Larger(a, b) == IF a > b THEN a ELSE b
\* concurrenceDuPool: -j, and never fewer than the historical number
PoolSize == Larger(MinPool, Limit)
InStatement(s) == \E l \in locks \union Range(queue) : l.step = s /\ l.session = "statement"
UsedConnections == Cardinality(tx) + Cardinality({s \in crew : InStatement(s)})
\* the statement has a connection, or gets one
HasConnection(s, op) ==
    Session(s, op) = "transaction" \/ InStatement(s) \/ UsedConnections < PoolSize

----------------------------------------------------------------------------
Ready(s) == \A d \in Prerequisites[s] \intersect crew : phase[d] = "done"
Cut(s) == phase[s] = "waiting" /\ \E d \in Prerequisites[s] \intersect crew : phase[d] = "failed"
Over(s) == phase[s] \in {"done", "failed"} \/ Cut(s)

Init ==
    /\ crew \in Crews
    /\ contended = Contended(crew)
    /\ phase = [s \in crew |-> "waiting"]
    /\ pc = [s \in crew |-> 1]
    /\ tx = {}
    /\ locks = {}
    /\ queue = <<>>
    /\ pending = [s \in crew |-> NoChange]
    /\ served = [g \in Groups(crew) |-> "before"]
    /\ recorded = {}
    /\ status = [s \in crew |-> "none"]
    /\ starts = 1

\* The dispatcher launches a source whose dependencies succeeded.
Start(s) ==
    /\ phase[s] = "waiting"
    /\ Ready(s)
    /\ Cardinality({r \in crew : phase[r] \in {"running", "closing"}}) < Limit
    /\ phase' = [phase EXCEPT ![s] = "running"]
    /\ UNCHANGED <<command, pc, sessions, database, starts>>

\* Executer returns nil after its last connector.
Finish(s) ==
    /\ phase[s] = "running"
    /\ Current(s) = {}
    /\ phase' = [phase EXCEPT ![s] = "done"]
    /\ UNCHANGED <<command, pc, sessions, database, starts>>

----------------------------------------------------------------------------
\* Locks: a request waits behind every conflicting lock held or asked before.

Waits(s, op) ==
    /\ MissingLocks(s, op) # {}
    /\ Queued(s) = {}
    /\ HasConnection(s, op)
    /\ Blockers(NextLock(s, op)) # {}
    /\ queue' = Append(queue, NextLock(s, op))
    /\ UNCHANGED <<command, phase, pc, tx, locks, pending, database, starts>>

TakesLock(s, op) ==
    /\ MissingLocks(s, op) # {}
    /\ HasConnection(s, op)
    /\ Blockers(NextLock(s, op)) = {}
    /\ locks' = locks \union {NextLock(s, op)}
    /\ queue' = Dequeued(s)
    /\ UNCHANGED <<command, phase, pc, tx, pending, database, starts>>

\* nothing keeps the operation of s from going on
Goes(s, op, dos) ==
    /\ op.do \in dos
    /\ MissingLocks(s, op) = {}
    /\ HasConnection(s, op)

Forward(s) == pc' = [pc EXCEPT ![s] = @ + 1]
\* a statement committed at once gives its locks and its connection back
Returns(s) == locks' = {l \in locks : l.step # s \/ l.session = "transaction"}

----------------------------------------------------------------------------
\* Operations.

\* archive.EnsureSource, archive.Fetch, and every read
Consult(s, op) ==
    /\ Goes(s, op, {"ensure source", "fetch", "read"})
    /\ Forward(s)
    /\ Returns(s)
    /\ UNCHANGED <<command, phase, tx, queue, pending, database, starts>>

OpenRun(s, op) ==
    /\ Goes(s, op, {"start run"})
    /\ Forward(s)
    /\ Returns(s)
    /\ status' = [status EXCEPT ![s] = "RUNNING"]
    /\ UNCHANGED <<command, phase, tx, queue, pending, served, recorded, starts>>

\* EndRun ignores the error of its UPDATE: the row may stay RUNNING.
CloseRun(s, op) ==
    /\ Goes(s, op, {"end run", "refused end run"})
    /\ Forward(s)
    /\ \/ op.do = "end run" /\ status' = [status EXCEPT ![s] = "SUCCESS"]
       \/ UNCHANGED status
    /\ UNCHANGED <<command, phase, sessions, served, recorded, starts>>

Transact(s, op) ==
    /\ Goes(s, op, {"begin"})
    /\ Forward(s)
    /\ tx' = tx \union {s}
    /\ UNCHANGED <<command, phase, locks, queue, pending, database, starts>>

\* the constraints are dropped; they are back at the commit
DropConstraints(s, op) ==
    /\ Goes(s, op, {"unlink"})
    /\ Forward(s)
    /\ UNCHANGED <<command, phase, sessions, database, starts>>

WriteInTransaction_bug(s, op) ==             \* a statement sent to the pool
    /\ Goes(s, op, Writes)
    /\ s \in tx
    /\ Forward(s)
    /\ \E value \in LoadedBy(s, op) : served' = With(served, Changes(s, op, value))
    /\ UNCHANGED <<command, phase, sessions, recorded, status, starts>>
WriteInTransaction(s, op) ==
    /\ Goes(s, op, Writes)
    /\ s \in tx
    /\ Forward(s)
    /\ \E value \in LoadedBy(s, op) : pending' = [pending EXCEPT ![s] = Plus(@, Changes(s, op, value))]
    /\ UNCHANGED <<command, phase, tx, locks, queue, database, starts>>

WriteAtOnce(s, op) ==
    /\ Goes(s, op, Writes)
    /\ s \notin tx
    /\ Forward(s)
    /\ Returns(s)
    /\ \E value \in LoadedBy(s, op) : served' = With(served, Changes(s, op, value))
    /\ UNCHANGED <<command, phase, tx, queue, pending, recorded, status, starts>>

Rollback(s) ==
    /\ tx' = tx \ {s}
    /\ locks' = {l \in locks : l.step # s}
    /\ queue' = Dequeued(s)
    /\ pending' = [pending EXCEPT ![s] = NoChange]

CommitTransaction_bug(s, op) ==              \* the error of Commit is ignored
    /\ Goes(s, op, {"commit"})
    /\ served' \in {served, With(served, pending[s])}
    /\ Rollback(s)
    /\ Forward(s)
    /\ UNCHANGED <<command, phase, recorded, status, starts>>
\* The commit is done, and answered or not.
CommitTransaction(s, op) ==
    /\ Goes(s, op, {"commit"})
    /\ served' = With(served, pending[s])
    /\ Rollback(s)
    /\ Forward(s)
    /\ UNCHANGED <<command, phase, recorded, status, starts>>

CommitUnanswered(s, op) ==
    /\ Goes(s, op, {"commit"})
    /\ served' = With(served, pending[s])
    /\ Rollback(s)
    /\ phase' = [phase EXCEPT ![s] =
            IF status[s] = "RUNNING" /\ op.onError \in {"holding", "released"} THEN "closing" ELSE "failed"]
    /\ UNCHANGED <<command, pc, recorded, status, starts>>

\* watermark.Record
RecordWatermark(s, op) ==
    /\ Goes(s, op, {"record"})
    /\ Forward(s)
    /\ recorded' = recorded \union {<<s, op.script>>}
    /\ UNCHANGED <<command, phase, sessions, served, status, starts>>

\* watermark.SkipIfRecorded: nothing up to the next Record
Skip(s, op) ==
    /\ Goes(s, op, {"skip if recorded"})
    /\ LET following == {k \in DOMAIN Steps[s] : k > pc[s] /\ Steps[s][k].do = "record"}
       IN  pc' = [pc EXCEPT ![s] = IF <<s, op.script>> \in recorded
                                   THEN Min(following) + 1 ELSE @ + 1]
    /\ UNCHANGED <<command, phase, sessions, database, starts>>

----------------------------------------------------------------------------
\* Failures.

\* What the connector does of an error: the closure fail ends the run before
\* the deferred rollback ("holding"), a wrapper after it ("released"), and
\* some connectors leave the run as it is.
ClosesItsRun(s, op) ==
    /\ status[s] = "RUNNING"
    /\ \/ op.onError \in {"holding", "released"}
       \/ op.onError = "leaves" /\ op.do = "fetch"
KeepsItsTransaction(s, op) == ClosesItsRun(s, op) /\ op.onError = "holding"
AfterError(s, op) == [phase EXCEPT ![s] = IF ClosesItsRun(s, op) THEN "closing" ELSE "failed"]
Fails(s, op) ==
    /\ phase' = AfterError(s, op)
    /\ IF KeepsItsTransaction(s, op) THEN UNCHANGED sessions ELSE Rollback(s)
    /\ UNCHANGED <<command, pc, database, starts>>

\* The operation, or what follows it in the code, returns an error.
Refuse(s, op) ==
    /\ Goes(s, op, {"ensure source", "start run", "fetch", "read", "record", "skip if recorded",
                "begin", "commit", "unlink"} \union Writes)
    /\ Fails(s, op)

\* PostgreSQL aborts the transaction of a waiting statement: its locks are free,
\* its connection is not.  Either the lock_timeout that precedes the first
\* DROP CONSTRAINT of the transaction, or the detector of deadlocks.
HasLockTimeout(s) ==
    \E k \in 1..pc[s] :
        /\ Steps[s][k].do = "unlink"
        /\ \A j \in k..pc[s] - 1 : Steps[s][j].do # "commit"
InDeadlock(s) ==
    \E stuck \in SUBSET Range(queue) :
        /\ Queued(s) \intersect stuck # {}
        /\ \A l \in stuck : \E b \in Blockers(l), m \in stuck :
                <<m.step, m.session>> = <<b.step, b.session>>
Aborted(s, op) ==
    /\ Queued(s) # {}
    /\ (Session(s, op) = "transaction" /\ HasLockTimeout(s)) \/ InDeadlock(s)
    /\ phase' = AfterError(s, op)
    /\ locks' = {l \in locks : l.step # s}
    /\ queue' = Dequeued(s)
    /\ pending' = [pending EXCEPT ![s] = NoChange]
    /\ tx' = IF KeepsItsTransaction(s, op) THEN tx ELSE tx \ {s}
    /\ UNCHANGED <<command, pc, database, starts>>

CloseFailed_bug(s) ==                        \* no deferred rollback
    /\ phase[s] = "closing"
    /\ UsedConnections < PoolSize
    /\ phase' = [phase EXCEPT ![s] = "failed"]
    /\ status' \in {status, [status EXCEPT ![s] = "FAILED"]}
    /\ UNCHANGED <<command, pc, sessions, served, recorded, starts>>
\* EndRun(FAILED), on a connection of the pool, then the deferred rollback.
CloseFailed(s) ==
    /\ phase[s] = "closing"
    /\ UsedConnections < PoolSize
    /\ phase' = [phase EXCEPT ![s] = "failed"]
    /\ status' \in {status, [status EXCEPT ![s] = "FAILED"]}
    /\ Rollback(s)
    /\ UNCHANGED <<command, pc, served, recorded, starts>>

\* The command is run again, after its end or after the process was killed;
\* the documents of the day are others, or the same.
Rerun ==
    /\ starts < MaxStarts(crew)
    /\ starts' = starts + 1
    /\ \E newDocuments \in BOOLEAN :
        /\ recorded' = IF newDocuments THEN {} ELSE recorded
        /\ served' = [g \in DOMAIN served |->
                        IF newDocuments /\ served[g] \in {"new", "part"} THEN "before" ELSE served[g]]
    /\ phase' = [s \in crew |-> "waiting"]
    /\ pc' = [s \in crew |-> 1]
    /\ status' = [s \in crew |-> "none"]
    /\ tx' = {}
    /\ locks' = {}
    /\ queue' = <<>>
    /\ pending' = [s \in crew |-> NoChange]
    /\ UNCHANGED command

----------------------------------------------------------------------------
Operates(s, op) ==
    \/ Consult(s, op) \/ OpenRun(s, op) \/ CloseRun(s, op)
    \/ Transact(s, op) \/ DropConstraints(s, op) \/ CommitTransaction(s, op)
    \/ WriteInTransaction(s, op) \/ WriteAtOnce(s, op)
    \/ RecordWatermark(s, op) \/ Skip(s, op)
Progress ==
    \E s \in crew :
        \/ Start(s) \/ Finish(s) \/ CloseFailed(s)
        \/ \E op \in Current(s) :
               Waits(s, op) \/ TakesLock(s, op) \/ Operates(s, op) \/ Aborted(s, op)
Trouble == \E s \in crew : \E op \in Current(s) : Refuse(s, op) \/ CommitUnanswered(s, op)

Next == Progress \/ Trouble \/ Rerun

\* Go runs its goroutines, the pool serves its waiters in turn, PostgreSQL ends
\* its statements and its ten-minute waits: as long as something can go on,
\* something does.
Spec == Init /\ [][Next]_vars /\ WF_vars(Progress)

----------------------------------------------------------------------------
Phases == {"waiting", "running", "closing", "done", "failed"}
Modes == {"share", "exclusive"}
AreChanges(changes) ==
    /\ DOMAIN changes \subseteq DOMAIN served
    /\ \A g \in DOMAIN changes : changes[g] \in Loaded(g) \union {"gone"}
LockRecords ==
    [step : crew, session : {"transaction", "statement"}, table : contended, mode : Modes]

\* Every variable keeps its shape, and a source that is not running holds no
\* lock and waits for none.
TypeOK ==
    /\ crew \in Crews /\ contended = Contended(crew)
    /\ phase \in [crew -> Phases]
    /\ DOMAIN pc = crew /\ \A s \in crew : pc[s] \in 1..(Len(Steps[s]) + 1)
    /\ tx \subseteq {s \in crew : phase[s] \in {"running", "closing"}}
    /\ locks \subseteq LockRecords
    /\ queue \in Seq(LockRecords)
    /\ \A l \in locks \union Range(queue) : phase[l.step] \in {"running", "closing"}
    /\ served \in [Groups(crew) -> {"before", "new", "part", "gone"}]
    /\ DOMAIN pending = crew
    /\ \A s \in crew : IF s \in tx THEN AreChanges(pending[s]) ELSE pending[s] = NoChange
    /\ recorded \subseteq UNION {{s} \X (DOMAIN Chain[s].runs) : s \in crew}
    /\ status \in [crew -> {"none", "RUNNING", "SUCCESS", "FAILED"}]
    /\ starts \in Nat
    /\ UsedConnections <= PoolSize

----------------------------------------------------------------------------
\* A success is one of the documents of the day: as long as a source is done,
\* or its last run says SUCCESS, everything it wrote up to there is served as
\* those documents say, even when an earlier process was killed between a
\* transaction, the watermark that lets the next one skip it, and the end of
\* the run.  The groups of CutShort are served as far as they were read, which
\* may be a part: nothing tells the end of a file or of an answer from an error
\* in the middle of it.  What a source has written beside one of its twins is
\* not vouched for.
LastEnd(s) == Max({0} \union {k \in 1..pc[s] - 1 : Steps[s][k].do = "end run"})
Vouched(s) == IF phase[s] = "done" THEN Len(Steps[s])
              ELSE IF status[s] = "SUCCESS" THEN LastEnd(s) ELSE 0
SuccessIsWhole ==
    \A s \in {r \in crew : Apart(r)} : \A k \in 1..Vouched(s) :
        LET op == Steps[s][k]
        IN  op.do \in Writes \ {"erase"} => served[GroupOf(s, op)] \in Loaded(GroupOf(s, op))

\* Whatever fails, and wherever the process is killed, the rows of a source stay
\* until the rows that replace them are there: no other source deletes them and
\* its own transaction replaces them at once.  The exceptions are named.
NothingIsLost == \A g \in DOMAIN served : served[g] = "gone" => g \in ErasedFirst

\* As long as a transaction holds rows, no other source that writes them, in a
\* transaction or at once, is under way: each deletes what was there and inserts,
\* so the second would fail on the rows of the first or add its own to them.
\* Twins are not kept apart by anything, and are left out: catalogue.go:498-504
\* tells of two that met, and of the one that failed on the primary key.
OneWriter ==
    \A a \in tx : \A b \in crew \ {a} :
        phase[b] \in {"running", "closing"} /\ ~Twins(a, b) =>
            \A g \in DOMAIN pending[a] : ~Touches(b, g)

\* No wait goes round through the clients, where PostgreSQL cannot see it: a
\* transaction waits for the statement that its own goroutine has sent on
\* another connection, and this statement for a lock, ...
WaitsFor(x) ==
    {<<b.step, b.session>> : b \in UNION {Blockers(l) : l \in {r \in Range(queue) : <<r.step, r.session>> = x}}}
    \union {<<l.step, l.session>> : l \in {r \in Range(queue) : r.session = "statement"
                                                          /\ x = <<r.step, "transaction">>}}
Waiting ==
    UNION {{<<l.step, l.session>>, <<l.step, "transaction">>} : l \in Range(queue)}
NoHiddenCycle ==
    \A waiting \in SUBSET Waiting :
        waiting # {} /\ (\E x \in waiting : x[2] = "statement" /\ x[1] \in tx) =>
            \E x \in waiting : WaitsFor(x) \intersect waiting = {}

\* Every connection of the pool is kept by a transaction whose source asks for
\* one more: to close its run before its rollback, or for a statement outside.
PoolExhausted ==
    /\ Cardinality(tx) = PoolSize
    /\ \A s \in tx : phase[s] = "closing" \/ \E op \in Current(s) : Session(s, op) = "statement"

\* Every ingestion ends, and no source waits for ever for a connection or a
\* lock, unless transactions come to keep all the connections while each asks
\* for another one, which takes as many sources at a time as the pool has.
EveryIngestionEnds == <>[]((\A s \in crew : Over(s)) \/ PoolExhausted)
============================================================================

------------------------------ MODULE Scripts ------------------------------
(****************************************************************************)
(* What a connector does to the database, as data: the sequence of its      *)
(* operations, in the order its Go function makes them, and what it does    *)
(* when one of them fails.  Downloads in a row are one Fetch or two, a loop *)
(* over years, ballots or pages goes round twice (Twice), and everything    *)
(* between two operations - decoding, checks, early returns with an error - *)
(* is an operation that may refuse to go on (Ingestion!Refuse).             *)
(****************************************************************************)
EXTENDS Sequences

All == ""                    \* the scope of a statement on a whole table

Operation(do, table, scope) == [do |-> do, table |-> table, scope |-> scope]

----------------------------------------------------------------------------
\* Operations on a connection of the pool, each a statement committed at once.

EnsureSource   == Operation("ensure source", "raw.source", All)
StartRun       == Operation("start run", "raw.fetch_run", All)
\* the row of the run receives SUCCESS
EndRun         == Operation("end run", "raw.fetch_run", All)
\* the same with a status that the table's CHECK refuses
RefusedEndRun  == Operation("refused end run", "raw.fetch_run", All)
\* a download, sealed and recorded in raw.retrieval and raw.document
Fetch          == Operation("fetch", "raw.retrieval", All)
Read           == Operation("read", All, All)
\* the watermark of the documents that are loaded
Record         == Operation("record", "core.ingest_watermark", All)
\* nothing to do up to the next Record when the watermark is that of the documents
SkipIfRecorded == Operation("skip if recorded", "core.ingest_watermark", All)

\* Operations of a transaction.
Begin     == Operation("begin", All, All)
Commit    == Operation("commit", All, All)
\* drops the foreign keys of the table until the commit
Unlink(t) == Operation("unlink", t, All)

\* Writes, in the transaction when one is open, else committed at once.
Upsert(t)      == Operation("upsert", t, All)        \* adds or updates rows of its own
SyncOf(t, s)   == Operation("sync", t, s)            \* replaces the rows of scope s
Sync(t)        == SyncOf(t, All)                     \* replaces all the rows
Erase(t, s)    == Operation("erase", t, s)           \* deletes the rows of scope s
UpsertOf(t, s) == Operation("fill", t, s)            \* fills a scope erased before

Twice(ops) == ops \o ops

----------------------------------------------------------------------------
\* What a connector does of its run when an operation fails.

Script(ops, onError) == [ops |-> ops, onError |-> onError]

\* the closure fail closes the run as FAILED before the deferred rollback:
\* the connection of the transaction is still held
Closing(ops) == Script(ops, "holding")
\* the transaction belongs to a function called by the connector: it is
\* rolled back before the run is closed
Releasing(ops) == Script(ops, "released")
\* only a failed download closes the run
Leaving(ops) == Script(ops, "leaves")
\* no failure closes the run
Silent(ops) == Script(ops, "silent")
\* no run at all: the connector derives its rows from rows of the database
WithoutRun(ops) == Script(ops, "no run")

\* the usual connector: download, then replace everything in one transaction
InOneTransaction(before, within) ==
    Closing(<<EnsureSource, StartRun>> \o before \o <<Begin>> \o within \o <<Commit, EndRun>>)
Loads(within) == InOneTransaction(<<Fetch>>, within)
\* the connector whose body is a function given to a wrapper
Released(before, body) == Releasing(before \o <<EnsureSource, StartRun>> \o body \o <<EndRun>>)
============================================================================

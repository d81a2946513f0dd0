------------------------------ MODULE JorfCopy ------------------------------
(****************************************************************************)
(* internal/jorf/copie.go: the Journal officiel read whole.  One reader     *)
(* walks the archive and hands its files to workers through a channel; the  *)
(* workers decode them and push their lines to four channels, one per       *)
(* table; at the end of each channel a COPY runs on a connection of its     *)
(* own.  Once the four are over, the lines are merged from jo_staging into  *)
(* the tables of jo, and the search views refreshed.                        *)
(*                                                                          *)
(* A channel is the sequence of what it holds, at most its capacity.  The   *)
(* COPY of a table is one statement: its lines appear together when it ends,*)
(* or never.  The process may die at any time and the command be run again; *)
(* a bound limits the faults and the readings of a behaviour.               *)
(****************************************************************************)
EXTENDS Integers, FiniteSets, Sequences

CONSTANTS
    Archive,        \* the files of the archive, in their order
    Lines(_),       \* file -> the lines that analyze makes of it: <<table, id>>
    ActOf(_),       \* id of a line of jo.bloc -> the act that it belongs to
    Before,         \* table -> the lines loaded by the other connector, jorf
    Workers,
    TaskBuffer,     \* capacity of the channel of files    (workerCount * 8)
    RowBuffer,      \* capacity of a channel of lines      (bufferSize)
    PoolSize,       \* connections of the pool
    Neighbours,     \* the other steps, each with a connection from time to time
    Cuts,           \* where reading the archive may stop: Len(Archive) + 1 for never
    MaxFaults,      \* the COPY and statements that fail in a behaviour
    MaxReadings     \* how often the command is run

Tables == {"sommaire", "lien", "texte", "bloc"}
ArchiveFiles == {Archive[i] : i \in DOMAIN Archive}
ArchiveLines == UNION {{Lines(f)[k] : k \in DOMAIN Lines(f)} : f \in ArchiveFiles}
RowsOf(t) == {l[2] : l \in {x \in ArchiveLines : x[1] = t}}
Whole == Len(Archive) + 1

ASSUME JorfCopyAssumption ==
    /\ Workers # {} /\ IsFiniteSet(Workers) /\ IsFiniteSet(Neighbours)
    /\ TaskBuffer \in Nat /\ RowBuffer \in Nat \ {0}
    /\ PoolSize \in Nat /\ PoolSize >= Cardinality(Tables)
    /\ Cuts \subseteq 1..Whole
    /\ MaxFaults \in Nat /\ MaxReadings \in Nat

ASSUME ArchiveAssumption ==
    /\ Archive \in Seq(ArchiveFiles)
    /\ \A f \in ArchiveFiles : Lines(f) \in Seq(ArchiveLines)
    /\ \A l \in ArchiveLines : l = <<l[1], l[2]>> /\ l[1] \in Tables

\* analyze sends the line of an act before those of its blocks; the tables of jo obey
\* bloc_texte_fk before the archive is read.
ASSUME ReferenceAssumption ==
    /\ \A f \in ArchiveFiles : \A k \in DOMAIN Lines(f) : Lines(f)[k][1] = "bloc" =>
          \E j \in 1..(k - 1) : Lines(f)[j] = <<"texte", ActOf(Lines(f)[k][2])>>
    /\ \A r \in Before["bloc"] : ActOf(r) \in Before["texte"]

VARIABLES
    phase,      \* where IngestComplet is: "idle", "truncate", "copy", "merge", "end", "fail"
    next,       \* the reader: the next file of the archive
    reader,     \* "off", "reading", "stopped" (an error), "closed tasks", "closed rows"
    tasks,      \* the channel of files
    work,       \* worker -> the lines that it has still to send
    rows,       \* table -> its channel of lines
    stream,     \* table -> "off", "acquiring", "copying", "failed" (it empties its
                \* channel), "released" (the same, without a connection), "ended"
    wrong,      \* the tables whose stream ended on an error
    copied,     \* table -> the lines of its COPY, not yet committed
    staging,    \* table -> id -> how many times the line is in jo_staging
    core,       \* table -> the lines of jo
    merged,     \* the number of statements of the merge that are done
    status,     \* raw.fetch_run: "none", "RUNNING", "SUCCESS", "FAILED"
    busy,       \* the neighbours that hold a connection
    cut,        \* where reading the archive stops                  (rigid)
    faults, readings

channels == <<next, reader, tasks, work, rows>>
streams == <<stream, wrong, copied>>
base == <<staging, core, merged, status>>
bounds == <<cut, faults, readings>>
vars == <<phase, channels, streams, base, busy, bounds>>

----------------------------------------------------------------------------
\* Connections: a stream keeps its own until it has ended, its channel emptied,
\* except after a panic, where Release runs before the recover.
Connected == {t \in Tables : stream[t] \in {"copying", "failed"}}
Used == Cardinality(Connected) + Cardinality(busy)
Free == Used < PoolSize
Fault == faults < MaxFaults /\ faults' = faults + 1

Nowhere == [t \in Tables |-> {}]
Nothing == [t \in Tables |-> [r \in RowsOf(t) |-> 0]]
Quiet ==
    /\ next' = 1 /\ reader' = "off" /\ tasks' = <<>>
    /\ work' = [w \in Workers |-> <<>>] /\ rows' = [t \in Tables |-> <<>>]
    /\ stream' = [t \in Tables |-> "off"] /\ wrong' = {} /\ copied' = Nowhere

Init ==
    /\ phase = "idle" /\ next = 1 /\ reader = "off" /\ tasks = <<>>
    /\ work = [w \in Workers |-> <<>>] /\ rows = [t \in Tables |-> <<>>]
    /\ stream = [t \in Tables |-> "off"] /\ wrong = {} /\ copied = Nowhere
    /\ staging = Nothing /\ core = [t \in Tables |-> Before[t]] /\ merged = 0
    /\ status = "none" /\ busy = {}
    /\ cut \in Cuts /\ faults = 0 /\ readings = 0

----------------------------------------------------------------------------
\* IngestComplet, up to the four streams.

Start ==
    /\ phase = "idle" /\ reader = "off" /\ readings < MaxReadings /\ Free
    /\ phase' = "truncate" /\ status' = "RUNNING" /\ readings' = readings + 1
    /\ UNCHANGED <<channels, streams, staging, core, merged, busy, cut, faults>>

Emptied_bug == staging
Emptied == Nothing
\* newStream and start, four times
Truncate ==
    /\ phase = "truncate" /\ Free
    /\ phase' = "copy" /\ staging' = Emptied
    /\ reader' = "reading" /\ stream' = [t \in Tables |-> "acquiring"]
    /\ UNCHANGED <<next, tasks, work, rows, wrong, copied, core, merged, status, busy, bounds>>

----------------------------------------------------------------------------
\* The reader of the archive.

Read ==
    /\ reader = "reading" /\ next <= Len(Archive) /\ next < cut
    /\ Len(tasks) < TaskBuffer
    /\ tasks' = Append(tasks, Archive[next]) /\ next' = next + 1
    /\ UNCHANGED <<phase, reader, work, rows, streams, base, busy, bounds>>
\* tr.Next or ReadAll fails: the function returns without closing anything
ReadFails ==
    /\ reader = "reading" /\ next = cut /\ cut # Whole
    /\ reader' = "stopped" /\ phase' = "fail"
    /\ UNCHANGED <<next, tasks, work, rows, streams, base, busy, bounds>>
CloseTasks ==
    /\ reader = "reading" /\ next = Whole /\ cut = Whole
    /\ reader' = "closed tasks"
    /\ UNCHANGED <<phase, next, tasks, work, rows, streams, base, busy, bounds>>

\* wgWorkers.Wait: every worker has met the end of the channel
WorkersAreDone == tasks = <<>> /\ \A w \in Workers : work[w] = <<>>
CloseRows ==
    /\ reader = "closed tasks" /\ WorkersAreDone
    /\ reader' = "closed rows"
    /\ UNCHANGED <<phase, next, tasks, work, rows, streams, base, busy, bounds>>

----------------------------------------------------------------------------
\* The workers: analyze sends the lines of one file, in their order.

Take(w) ==
    /\ work[w] = <<>> /\ tasks # <<>>
    /\ work' = [work EXCEPT ![w] = Lines(Head(tasks))] /\ tasks' = Tail(tasks)
    /\ UNCHANGED <<phase, next, reader, rows, streams, base, busy, bounds>>
Send(w) ==
    /\ work[w] # <<>>
    /\ LET t == Head(work[w])[1]
       IN  /\ Len(rows[t]) < RowBuffer
           /\ rows' = [rows EXCEPT ![t] = Append(@, Head(work[w])[2])]
    /\ work' = [work EXCEPT ![w] = Tail(@)]
    /\ UNCHANGED <<phase, next, reader, tasks, streams, base, busy, bounds>>

----------------------------------------------------------------------------
\* The streams.

Goes(t, from, to) == stream[t] = from /\ stream' = [stream EXCEPT ![t] = to]
Exhausted(t) == rows[t] = <<>> /\ reader = "closed rows"

Acquire(t) ==
    /\ Goes(t, "acquiring", "copying") /\ Free
    /\ UNCHANGED <<phase, channels, wrong, copied, base, busy, bounds>>
\* pool.Acquire fails: the channel is emptied all the same
AcquireFails(t) ==
    /\ Fault /\ Goes(t, "acquiring", "released") /\ wrong' = wrong \union {t}
    /\ UNCHANGED <<phase, channels, copied, base, busy, cut, readings>>
\* source.Next, on behalf of pgx
CopyLine(t) ==
    /\ stream[t] = "copying" /\ rows[t] # <<>>
    /\ copied' = [copied EXCEPT ![t] = @ \union {Head(rows[t])}]
    /\ rows' = [rows EXCEPT ![t] = Tail(@)]
    /\ UNCHANGED <<phase, next, reader, tasks, work, stream, wrong, base, busy, bounds>>
CopyEnds(t) ==
    /\ Goes(t, "copying", "ended") /\ Exhausted(t)
    /\ staging' = [staging EXCEPT ![t] = [r \in RowsOf(t) |->
                        IF r \in copied[t] THEN @[r] + 1 ELSE @[r]]]
    /\ copied' = [copied EXCEPT ![t] = {}]
    /\ UNCHANGED <<phase, channels, wrong, core, merged, status, busy, bounds>>
\* CopyFrom returns an error, or panics: nothing of it is committed
CopyFails(t) ==
    /\ Fault
    /\ Goes(t, "copying", "failed") \/ Goes(t, "copying", "released")
    /\ wrong' = wrong \union {t} /\ copied' = [copied EXCEPT ![t] = {}]
    /\ UNCHANGED <<phase, channels, base, busy, cut, readings>>

Emptying_bug == {}
\* for range f.rows, on each of the three ways out
Emptying == {"failed", "released"}
Drain(t) ==
    /\ stream[t] \in Emptying /\ rows[t] # <<>>
    /\ rows' = [rows EXCEPT ![t] = Tail(@)]
    /\ UNCHANGED <<phase, next, reader, tasks, work, streams, base, busy, bounds>>
DrainEnds(t) ==
    /\ Exhausted(t)
    /\ Goes(t, "failed", "ended") \/ Goes(t, "released", "ended")
    /\ UNCHANGED <<phase, channels, wrong, copied, base, busy, bounds>>

Stream(t) == Acquire(t) \/ CopyLine(t) \/ CopyEnds(t) \/ Drain(t) \/ DrainEnds(t)

----------------------------------------------------------------------------
\* The end of CopierArchive and of IngestComplet.

Refused == wrong # {}
\* wg.Wait, then the errors of the streams
Copied ==
    /\ phase = "copy" /\ \A t \in Tables : stream[t] = "ended"
    /\ phase' = IF Refused THEN "fail" ELSE "merge"
    /\ merged' = 0 /\ Quiet
    /\ UNCHANGED <<staging, core, status, busy, bounds>>

MergeOrder_bug == <<"sommaire", "bloc", "lien", "texte">>
MergeOrder == <<"sommaire", "texte", "lien", "bloc">>
\* INSERT ... SELECT ... WHERE NOT EXISTS, one statement per table; then the
\* REFRESH of the two search views
Merge ==
    /\ phase = "merge" /\ Free
    /\ IF merged < Len(MergeOrder)
       THEN LET t == MergeOrder[merged + 1]
            IN  /\ core' = [core EXCEPT ![t] = @ \union {r \in RowsOf(t) : staging[t][r] > 0}]
                /\ UNCHANGED phase
       ELSE /\ phase' = IF merged = Len(MergeOrder) + 1 THEN "end" ELSE phase
            /\ UNCHANGED core
    /\ merged' = merged + 1
    /\ UNCHANGED <<channels, streams, staging, status, busy, bounds>>
StatementFails ==
    /\ Fault /\ phase \in {"truncate", "merge"} /\ phase' = "fail"
    /\ UNCHANGED <<channels, streams, base, busy, cut, readings>>
\* EndRun, on a connection of the pool
EndRun ==
    /\ phase \in {"end", "fail"} /\ Free
    /\ status' = IF phase = "end" THEN "SUCCESS" ELSE "FAILED"
    /\ phase' = "idle"
    /\ UNCHANGED <<channels, streams, staging, core, merged, busy, bounds>>

----------------------------------------------------------------------------
\* The process dies: its goroutines, its connections and its COPY with it.
\* After a damaged archive someone has to kill it: pool.Close waits for ever.
Crash ==
    /\ phase # "idle" \/ reader # "off"
    /\ readings < MaxReadings
    /\ phase' = "idle" /\ Quiet /\ busy' = {}
    /\ UNCHANGED <<base, bounds>>

\* Another step of the same command holds one connection for a while.
NeighbourTakes(n) ==
    /\ n \notin busy /\ Free /\ busy' = busy \union {n}
    /\ UNCHANGED <<phase, channels, streams, base, bounds>>
NeighbourReleases(n) ==
    /\ n \in busy /\ busy' = busy \ {n}
    /\ UNCHANGED <<phase, channels, streams, base, bounds>>

Reader == Read \/ ReadFails \/ CloseTasks \/ CloseRows
\* what the goroutines of the command do when nothing fails
Program ==
    \/ Reader \/ Truncate \/ Copied \/ Merge \/ EndRun
    \/ \E w \in Workers : Take(w) \/ Send(w)
    \/ \E t \in Tables : Stream(t)
Next ==
    \/ Program \/ Start \/ StatementFails \/ Crash
    \/ \E t \in Tables : AcquireFails(t) \/ CopyFails(t)
    \/ \E n \in Neighbours : NeighbourTakes(n) \/ NeighbourReleases(n)

\* Some goroutine that can go on does, sooner or later, even when it is a
\* connection given back that lets it: the pool serves its waiters in their
\* order.  A neighbour gives its connection back.
Fairness ==
    /\ SF_vars(Program)
    /\ \A n \in Neighbours : WF_vars(NeighbourReleases(n))

Spec == Init /\ [][Next]_vars /\ Fairness

----------------------------------------------------------------------------
TypeOK ==
    /\ phase \in {"idle", "truncate", "copy", "merge", "end", "fail"}
    /\ next \in 1..Whole /\ cut \in Cuts
    /\ reader \in {"off", "reading", "stopped", "closed tasks", "closed rows"}
    /\ Len(tasks) <= TaskBuffer
    /\ \A t \in Tables :
        /\ Len(rows[t]) <= RowBuffer
        /\ stream[t] \in {"off", "acquiring", "copying", "failed", "released", "ended"}
        /\ copied[t] \subseteq RowsOf(t) /\ staging[t] \in [RowsOf(t) -> Nat]
        /\ core[t] \subseteq RowsOf(t) \union Before[t]
    /\ wrong \subseteq Tables /\ busy \subseteq Neighbours
    /\ merged \in 0..(Len(MergeOrder) + 2)
    /\ status \in {"none", "RUNNING", "SUCCESS", "FAILED"}
    /\ Used <= PoolSize
    /\ faults \in 0..MaxFaults /\ readings \in 0..MaxReadings

\* What is merged into the tables of jo is the archive, every line of it once,
\* whatever streams failed and whatever the readings that died left in jo_staging.
MergedIsTheArchive ==
    phase = "merge" => \A t \in Tables : \A r \in RowsOf(t) : staging[t][r] = 1

\* At every moment, between two statements of the merge, after a failure or a
\* crash, a block of jo.bloc has its act in jo.texte (bloc_texte_fk).
BlocksHaveTheirAct == \A r \in core["bloc"] : ActOf(r) \in core["texte"]

\* A reading that has begun ends, with a run that says SUCCESS or FAILED, or
\* dies, whatever the order of the files, however small the channels, and
\* whichever streams fail; when the archive is damaged, CopierArchive returns.
EveryReadingEnds ==
    /\ phase = "copy" ~> phase # "copy"
    /\ cut = Whole => (phase # "idle" ~> phase = "idle")
============================================================================

------------------------------- MODULE Mapping -------------------------------
(***************************************************************************)
(* The map that attaches groups and referentials to parties: one lineage of *)
(* revisions (db/migrations/0011_mapping.sql), rebuilt from its CSV by      *)
(* internal/carto in a READ COMMITTED transaction, frozen and cited by       *)
(* others. The triggers of the migration guard every statement; a statement *)
(* sees what is committed when it runs, and its own transaction.            *)
(*                                                                         *)
(* A link is a row, whatever bridge table it is in; scale_coding (0013) and *)
(* party_referential_link (0024) have the same trigger.                     *)
(***************************************************************************)
EXTENDS Integers, FiniteSets

CONSTANTS
    Links,          \* the rows a revision may hold
    Sessions,       \* the ingestions that may run at the same time
    MaxRevision,    \* bound: revisions of the lineage
    Scenarios       \* what others may do in a behaviour: sets of Events

\* race: freeze a revision while a transaction is writing it; edit: write the links
\* of a revision by hand; move: give one to another revision; unfreeze: reopen one.
Events == {"race", "edit", "move", "unfreeze"}

ASSUME MappingAssumption == MaxRevision \in Nat /\ Scenarios \subseteq SUBSET Events

VARIABLES
    status,     \* of each revision: absent, head (frozen_at IS NULL) or frozen
    content,    \* its committed links
    hash,       \* its content_hash, as the content it is the hash of
    cited,      \* the revisions a comparison_run cites
    tx,         \* per session, the transaction of carto.Ingest
    locked,     \* the sessions that hold the row of the lineage
    from,       \* history: per revision, the CSV last committed into it
    others      \* which of the Events may happen

vars == <<status, content, hash, cited, tx, locked, from, others>>

Revisions == 1..MaxRevision
NoTx == [pc |-> "idle", csv |-> {}, rev |-> 0, new |-> FALSE, gone |-> {}, added |-> {}]

Init ==
    /\ status = [r \in Revisions |-> "absent"]
    /\ content = [r \in Revisions |-> {}]
    /\ hash = content
    /\ cited = {}
    /\ tx = [s \in Sessions |-> NoTx]
    /\ locked = {}
    /\ from = content
    /\ others \in Scenarios

May(event) == event \in others
Never(events) == others \cap events = {}
At(s, pc) == tx[s].pc = pc
-----------------------------------------------------------------------------
(* The triggers                                                            *)

\* assert_revision_not_frozen, for an INSERT or UPDATE (NEW) or a DELETE (OLD).
NotFrozen_bug(r) == TRUE
NotFrozen(r) == status[r] # "frozen"

\* assert_revision_frozen_for_citation.
Citable_bug(r) == status[r] # "absent"
Citable(r) == status[r] = "frozen"
-----------------------------------------------------------------------------
(* carto.Ingest                                                            *)

Rollback(s) ==
    /\ tx' = [tx EXCEPT ![s] = NoTx]
    /\ locked' = locked \ {s}
    /\ UNCHANGED <<others, status, content, hash, cited, from>>

\* The CSV is read before the transaction begins.
Read(s) ==
    /\ At(s, "idle")
    /\ \E csv \in SUBSET Links : tx' = [tx EXCEPT ![s] = [NoTx EXCEPT !.pc = "lineage", !.csv = csv]]
    /\ UNCHANGED <<others, status, content, hash, cited, locked, from>>

\* INSERT .. ON CONFLICT (slug) DO UPDATE SET slug = EXCLUDED.slug: an update that
\* changes nothing, but takes the row.
TakesLineage_bug(s) == TRUE        \* DO NOTHING
TakesLineage(s) == locked = {}

LockLineage(s) ==
    /\ At(s, "lineage") /\ TakesLineage(s)
    /\ locked' = locked \union {s}
    /\ tx' = [tx EXCEPT ![s].pc = "revision"]
    /\ UNCHANGED <<others, status, content, hash, cited, from>>

\* currentRevision: the head, or a new one after the last revision.
Head(r) == status[r] = "head"
\* max(revision): none is ever deleted, so the last one is their number.
LastRevision == Cardinality({r \in Revisions : status[r] # "absent"})
NextRevision == LastRevision + 1
CurrentRevision(s) ==
    /\ At(s, "revision")
    /\ \/ \E r \in Revisions : Head(r) /\ tx' = [tx EXCEPT ![s].pc = "delete", ![s].rev = r]
       \/ /\ \A r \in Revisions : ~Head(r)
          /\ LastRevision < MaxRevision
          /\ tx' = [tx EXCEPT ![s].pc = "delete", ![s].rev = NextRevision, ![s].new = TRUE]
    /\ UNCHANGED <<others, status, content, hash, cited, locked, from>>

\* The trigger runs for each row deleted: an empty revision is not looked at.
Delete(s) ==
    /\ At(s, "delete")
    /\ NotFrozen(tx[s].rev) \/ content[tx[s].rev] = {}
    /\ tx' = [tx EXCEPT ![s].pc = "insert", ![s].gone = content[tx[s].rev]]
    /\ UNCHANGED <<others, status, content, hash, cited, locked, from>>

Insert(s) ==
    /\ At(s, "insert") /\ NotFrozen(tx[s].rev)
    /\ \E link \in tx[s].csv \ tx[s].added :
        tx' = [tx EXCEPT ![s].added = @ \union {link}]
    /\ UNCHANGED <<others, status, content, hash, cited, locked, from>>

\* COMMIT. Two new heads would not pass the index mapping_revision_une_seule_tete.
Commit(s) ==
    /\ At(s, "insert") /\ tx[s].added = tx[s].csv
    /\ tx[s].new => \A r \in Revisions : ~Head(r)
    /\ content' = [content EXCEPT ![tx[s].rev] = (@ \ tx[s].gone) \union tx[s].added]
    /\ from' = [from EXCEPT ![tx[s].rev] = tx[s].csv]
    /\ status' = IF tx[s].new THEN [status EXCEPT ![tx[s].rev] = "head"] ELSE status
    /\ tx' = [tx EXCEPT ![s] = NoTx]
    /\ locked' = locked \ {s}
    /\ UNCHANGED <<others, hash, cited>>

\* An error of a statement, the RAISE of a trigger included, or a crash.
Abort(s) == ~At(s, "idle") /\ Rollback(s)
-----------------------------------------------------------------------------
(* What is done in SQL by others                                           *)

Writers(r) == {s \in Sessions : tx[s].rev = r}

\* gel_coherent: the hash is set with frozen_at.
Freeze(r) ==
    /\ Head(r)
    /\ Writers(r) = {} \/ May("race")
    /\ status' = [status EXCEPT ![r] = "frozen"]
    /\ hash' = [hash EXCEPT ![r] = content[r]]
    /\ UNCHANGED <<others, content, cited, tx, locked, from>>

Unfreeze(r) ==
    /\ May("unfreeze") /\ status[r] = "frozen" /\ \A q \in Revisions : ~Head(q)
    /\ status' = [status EXCEPT ![r] = "head"]
    /\ hash' = [hash EXCEPT ![r] = {}]
    /\ UNCHANGED <<others, content, cited, tx, locked, from>>

\* INSERT or UPDATE of derived.comparison_run.
Cite(r) ==
    /\ Citable(r)
    /\ cited' = cited \union {r}
    /\ UNCHANGED <<others, status, content, hash, tx, locked, from>>

\* INSERT, DELETE or UPDATE of a link inside its revision.
Edit(r) ==
    /\ May("edit") /\ status[r] # "absent" /\ NotFrozen(r)
    /\ \E link \in Links :
        content' = [content EXCEPT ![r] = IF link \in @ THEN @ \ {link} ELSE @ \union {link}]
    /\ UNCHANGED <<others, status, hash, cited, tx, locked, from>>

\* UPDATE of the mapping_revision_id of a link: the trigger reads the new one.
Move(r, q) ==
    /\ May("move") /\ r # q /\ status[q] # "absent" /\ NotFrozen(q)
    /\ \E link \in content[r] :
        content' = [content EXCEPT ![r] = @ \ {link}, ![q] = @ \union {link}]
    /\ UNCHANGED <<others, status, hash, cited, tx, locked, from>>
-----------------------------------------------------------------------------
Ingest(s) ==
    Read(s) \/ LockLineage(s) \/ CurrentRevision(s) \/ Delete(s) \/ Insert(s) \/ Commit(s) \/ Abort(s)

Next ==
    \/ \E s \in Sessions : Ingest(s)
    \/ \E r \in Revisions :
        Freeze(r) \/ Unfreeze(r) \/ Cite(r) \/ Edit(r) \/ (\E q \in Revisions : Move(r, q))

Spec == Init /\ [][Next]_vars
-----------------------------------------------------------------------------
(* Properties                                                              *)

Tx == [pc : {"idle", "lineage", "revision", "delete", "insert"}, csv : SUBSET Links,
       rev : 0..MaxRevision, new : BOOLEAN, gone : SUBSET Links, added : SUBSET Links]
TypeOK ==
    /\ status \in [Revisions -> {"absent", "head", "frozen"}]
    /\ content \in [Revisions -> SUBSET Links]
    /\ hash \in [Revisions -> SUBSET Links]
    /\ cited \subseteq Revisions
    /\ tx \in [Sessions -> Tx]
    /\ locked \subseteq Sessions
    /\ from \in [Revisions -> SUBSET Links]
    /\ others \in Scenarios

\* carto.Ingest: "reconstruction et non completion": whatever ingestions run
\* together, fail or wait, and even when a revision is frozen under them, a revision
\* holds the links of one CSV, never of two, if nobody edits it by hand.
MapIsOneCsv == Never({"edit", "move"}) => \A r \in Revisions : content[r] = from[r]

\* A published result can be computed again: the revision it cites is frozen and
\* still holds what its hash was taken from, whatever is edited by hand, if no
\* revision is frozen under a transaction that writes it or reopened, and no link
\* is moved.
CitedIsReproducible == Never({"race", "move", "unfreeze"}) =>
    \A r \in cited : status[r] = "frozen" /\ content[r] = hash[r]

\* A frozen revision is changed by no ingestion and no edit, under the same
\* conditions but for a reopening.
FrozenIsReadOnly == [][Never({"race", "move"}) =>
    \A r \in Revisions : status[r] = "frozen" => content'[r] = content[r]]_vars
==============================================================================

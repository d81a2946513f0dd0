----------------------------- MODULE Normalize -----------------------------
(****************************************************************************)
(* internal/an: the votes of the Assemblée, rebuilt from raw.record.        *)
(* Extract adds the records of a document in one COPY, with the time of its *)
(* beginning, and never touches them again; Normalize compares the number   *)
(* and the highest id of the records with those of its last success         *)
(* (core.ingest_watermark) and keeps the votes when neither the roll calls  *)
(* nor the bodies have moved.  It is a chain of transactions, and dies      *)
(* between any two of them; records arrive meanwhile from another command.  *)
(*                                                                          *)
(* A publication is a document in the order of the beginning of its         *)
(* extraction, which orders its records too; it is committed in any order,  *)
(* or never.  The records of actors and of bodies come in the same          *)
(* documents, that of the roll calls is another.                            *)
(****************************************************************************)
EXTENDS Integers, FiniteSets, FiniteSetsExt, Sequences

CONSTANTS
    Publications,   \* documents: [kind |-> "amo", persons, bodies] or
                    \* [kind |-> "scrutins", rows |-> key -> roll call], where a
                    \* roll call is [objet, tally, votes, groupVotes]
    NoGroup,        \* the group of a vote whose body is unknown
    MaxRuns         \* how often Normalize is run

\* A document has finitely many records; one with actors has bodies as well; a roll
\* call gives each group one position.
ASSUME NormalizeAssumption ==
    /\ Len(Publications) \in Nat /\ DOMAIN Publications = 1..Len(Publications)
    /\ \A p \in {Publications[i] : i \in DOMAIN Publications} :
          \/ /\ p.kind = "amo" /\ IsFiniteSet(p.bodies)
             /\ p.persons # {} => p.bodies # {}
          \/ /\ p.kind = "scrutins" /\ IsFiniteSet(DOMAIN p.rows)
             /\ \A k \in DOMAIN p.rows : \A v, w \in p.rows[k].groupVotes :
                   v.group = w.group => v.position = w.position
    /\ MaxRuns \in Nat

VARIABLES
    begun,          \* the extractions that have begun: 1..begun
    committed,      \* those whose records are in raw.record
    scrutin,        \* core.scrutin: key -> [objet, tally]
    ballot,         \* core.ballot of the Assemblée
    ballotGroup,    \* core.ballot_group of the Assemblée
    derived,        \* what Reset empties at every run and a later step fills
    watermark,      \* core.ingest_watermark: scope -> <<count, high water>>
    pc,             \* the next step of Normalize
    my,             \* its variables
    before,         \* what was committed when it started
    runs

raw == <<begun, committed>>
core == <<scrutin, ballot, ballotGroup, derived, watermark>>
vars == <<raw, core, pc, my, before, runs>>

----------------------------------------------------------------------------
\* What raw.record says once the publications of c are committed.

Of(kind, c) == {i \in c : Publications[i].kind = kind}
Persons(c) == UNION {Publications[i].persons : i \in Of("amo", c)}
Bodies(c) == UNION {Publications[i].bodies : i \in Of("amo", c)}
Keys(c) == UNION {DOMAIN Publications[i].rows : i \in Of("scrutins", c)}
\* DISTINCT ON (natural_key) ... ORDER BY extracted_at DESC, id DESC
Latest(c) ==
    [k \in Keys(c) |->
        LET last == Max({i \in Of("scrutins", c) : k \in DOMAIN Publications[i].rows})
        IN  Publications[last].rows[k]]

\* votes of unknown persons are left out, unknown bodies are NULL
BallotsOf(rollCalls, persons, bodies) ==
    UNION {{[scrutin |-> k, person |-> v.person, position |-> v.position,
             group |-> IF v.group \in bodies THEN v.group ELSE NoGroup] :
                v \in {v \in rollCalls[k].votes : v.person \in persons}} : k \in DOMAIN rollCalls}
GroupBallotsOf(rollCalls, bodies) ==
    UNION {{[scrutin |-> k, group |-> v.group, position |-> v.position] :
                v \in {v \in rollCalls[k].groupVotes : v.group \in bodies}} : k \in DOMAIN rollCalls}

\* the rows of raw.record of one type, an.scrutin or an.organe: their document and key
Records(kind, c) ==
    UNION {{i} \X (IF kind = "scrutins" THEN DOMAIN Publications[i].rows ELSE Publications[i].bodies) :
             i \in Of(kind, c)}
\* rawWatermark: count(*) and max(id) of a record type; the ids are in the order of
\* the extractions
WatermarkOf(kind, c) ==
    <<Cardinality(Records(kind, c)), Max({0} \union {r[1] : r \in Records(kind, c)})>>
RawWatermark(kind) == WatermarkOf(kind, committed)
Never == <<-1, -1>>

Unchanged_bug(seen, recorded) == seen[2] = recorded[2]
\* watermarkDiff
Unchanged(seen, recorded) == seen = recorded

----------------------------------------------------------------------------
Scopes == {"scrutins", "amo"}
Nothing == [force |-> FALSE, seen |-> [s \in Scopes |-> Never], same |-> [s \in Scopes |-> FALSE],
            bodies |-> {}, persons |-> {}, all |-> <<>>]

Init ==
    /\ begun = 0 /\ committed = {} /\ before = {}
    /\ scrutin = <<>> /\ ballot = {} /\ ballotGroup = {} /\ derived = {"mandates", "dossiers"}
    /\ watermark = [s \in Scopes |-> Never]
    /\ pc = "idle" /\ my = Nothing /\ runs = 0

\* Extract: a COPY begins, and is committed, or not
Extract ==
    /\ begun < Len(Publications) /\ begun' = begun + 1
    /\ UNCHANGED <<committed, core, pc, my, before, runs>>
CommitExtract(i) ==
    /\ i \in (1..begun) \ committed /\ committed' = committed \union {i}
    /\ UNCHANGED <<begun, core, pc, my, before, runs>>

----------------------------------------------------------------------------
\* Normalize, one action per statement or transaction.

Goes(from, to) == pc = from /\ pc' = to
Local(field, value) == my' = [my EXCEPT ![field] = value]

\* with --force, every watermark counts as changed
Start ==
    /\ Goes("idle", "read scrutins") /\ runs < MaxRuns
    /\ runs' = runs + 1 /\ before' = committed
    /\ \E force \in BOOLEAN : my' = [Nothing EXCEPT !.force = force]
    /\ UNCHANGED <<raw, core>>
ReadWatermark(scope, from, to) ==
    /\ Goes(from, to) /\ Local("seen", [my.seen EXCEPT ![scope] = RawWatermark(scope)])
    /\ UNCHANGED <<raw, core, before, runs>>
Diff(scope, from, to) ==
    /\ Goes(from, to)
    /\ Local("same", [my.same EXCEPT ![scope] =
                        ~my.force /\ Unchanged(my.seen[scope], watermark[scope])])
    /\ UNCHANGED <<raw, core, before, runs>>
Decide ==
    \/ ReadWatermark("scrutins", "read scrutins", "diff scrutins")
    \/ Diff("scrutins", "diff scrutins", "read bodies")
    \/ ReadWatermark("amo", "read bodies", "diff bodies")
    \/ Diff("amo", "diff bodies", "reset")

SkipBallots == my.same["scrutins"] /\ my.same["amo"]
\* the reset, in one transaction
Reset ==
    /\ Goes("reset", "bodies")
    /\ IF SkipBallots THEN UNCHANGED <<ballot, ballotGroup>> ELSE ballot' = {} /\ ballotGroup' = {}
    /\ derived' = {}
    /\ UNCHANGED <<raw, scrutin, watermark, my, before, runs>>

\* normalizeBodies, then its watermark, outside its transaction
NormalizeBodies ==
    /\ Goes("bodies", "record bodies") /\ Local("bodies", Bodies(committed))
    /\ UNCHANGED <<raw, core, before, runs>>
RecordBodies ==
    /\ Goes("record bodies", "actors")
    /\ watermark' = [watermark EXCEPT !["amo"] = my.seen["amo"]]
    /\ UNCHANGED <<raw, scrutin, ballot, ballotGroup, derived, my, before, runs>>
NormalizeActors ==
    /\ Goes("actors", "mandates") /\ Local("persons", Persons(committed))
    /\ UNCHANGED <<raw, core, before, runs>>
NormalizeMandates ==
    /\ Goes("mandates", "votes") /\ derived' = derived \union {"mandates"}
    /\ UNCHANGED <<raw, scrutin, ballot, ballotGroup, watermark, my, before, runs>>

----------------------------------------------------------------------------
\* normalizeScrutins.

LooksWhole_bug == TRUE
\* some roll call and some vote, or no record that any could come from
LooksWhole == (DOMAIN scrutin # {} /\ ballot # {}) \/ my.seen["scrutins"][1] = 0
SkipVotes ==
    /\ Goes("votes", "dossiers") /\ SkipBallots /\ LooksWhole
    /\ UNCHANGED <<raw, core, my, before, runs>>
ReadVotes ==
    /\ Goes("votes", "scrutins") /\ ~(SkipBallots /\ LooksWhole)
    /\ Local("all", Latest(committed))
    /\ UNCHANGED <<raw, core, before, runs>>

\* ON CONFLICT (institution, source_uid) DO UPDATE SET objet: the rest stays
CopyScrutins ==
    /\ Goes("scrutins", "group ballots")
    /\ scrutin' = [k \in DOMAIN scrutin \union DOMAIN my.all |->
                    IF k \notin DOMAIN my.all THEN scrutin[k]
                    ELSE [objet |-> my.all[k].objet,
                          tally |-> IF k \in DOMAIN scrutin THEN scrutin[k].tally ELSE my.all[k].tally]]
    /\ UNCHANGED <<raw, ballot, ballotGroup, derived, watermark, my, before, runs>>

Present(b) == \E g \in ballotGroup : g.scrutin = b.scrutin /\ g.group = b.group
Missing == {b \in GroupBallotsOf(my.all, my.bodies) : ~Present(b)}
\* each on its own, ON CONFLICT DO NOTHING
InsertGroupBallot ==
    /\ pc = "group ballots" /\ \E b \in Missing : ballotGroup' = ballotGroup \union {b}
    /\ UNCHANGED <<raw, scrutin, ballot, derived, watermark, pc, my, before, runs>>

Attested_bug == RawWatermark("scrutins")
Attested == my.seen["scrutins"]
\* the MERGE and the watermark that attests it, in one transaction
MergeBallots ==
    /\ Goes("group ballots", "dossiers") /\ Missing = {}
    /\ ballot' = BallotsOf(my.all, my.persons, my.bodies)
    /\ watermark' = [watermark EXCEPT !["scrutins"] = Attested]
    /\ UNCHANGED <<raw, scrutin, ballotGroup, derived, my, before, runs>>

NormalizeDossiers ==
    /\ Goes("dossiers", "done") /\ derived' = derived \union {"dossiers"}
    /\ UNCHANGED <<raw, scrutin, ballot, ballotGroup, watermark, my, before, runs>>
Return ==
    /\ Goes("done", "idle") /\ my' = Nothing
    /\ UNCHANGED <<raw, core, before, runs>>

\* a step fails, or the process dies: what is committed stays
Fail ==
    /\ pc \notin {"idle", "done"} /\ pc' = "idle" /\ my' = Nothing
    /\ UNCHANGED <<raw, core, before, runs>>

Next ==
    \/ Extract \/ \E i \in DOMAIN Publications : CommitExtract(i)
    \/ Start \/ Decide \/ Reset
    \/ NormalizeBodies \/ RecordBodies \/ NormalizeActors \/ NormalizeMandates
    \/ SkipVotes \/ ReadVotes \/ CopyScrutins \/ InsertGroupBallot \/ MergeBallots
    \/ NormalizeDossiers \/ Return \/ Fail

Spec == Init /\ [][Next]_vars

----------------------------------------------------------------------------
TypeOK ==
    /\ begun \in 0..Len(Publications) /\ committed \subseteq 1..begun /\ before \subseteq committed
    /\ DOMAIN scrutin \subseteq Keys(committed)
    /\ \A b \in ballot : b.scrutin \in DOMAIN scrutin /\ b.person \in Persons(committed)
    /\ derived \subseteq {"mandates", "dossiers"}
    /\ my.bodies \subseteq Bodies(committed) /\ my.persons \subseteq Persons(committed)
    /\ runs \in 0..MaxRuns

\* A Normalize that ends well, and during which nothing arrived, leaves exactly
\* the votes of raw.record, whether it rebuilt them or kept them: whatever the
\* order in which the extractions were committed, and wherever the runs before
\* it died (the reset is committed long before the votes are).
VotesAreThoseOfRaw ==
    pc = "done" /\ committed = before =>
        /\ ballot = BallotsOf(Latest(committed), Persons(committed), Bodies(committed))
        /\ ballotGroup = GroupBallotsOf(Latest(committed), Bodies(committed))
        /\ derived = {"mandates", "dossiers"}

\* At every moment, even with a run under way: if the two watermarks are those
\* of raw.record, so that the next run would keep the votes, the votes are those
\* of raw.record, or there are none and that run will see it.
WatermarkIsEarned ==
    /\ \A s \in Scopes : watermark[s] = RawWatermark(s)
    /\ ballot # {}
    => ballot = BallotsOf(Latest(committed), Persons(committed), Bodies(committed))
============================================================================

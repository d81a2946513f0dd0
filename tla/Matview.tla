-------------------------------- MODULE Matview --------------------------------
(***************************************************************************)
(* The materialized views of schema mv (internal/matview): ingestion        *)
(* commands load tables, then refresh every view whose sources no longer    *)
(* have the hash that mv.etat records for it (Actualiser), each view after   *)
(* the views it declares among its sources (registre). Nothing excludes two *)
(* commands at once: they meet on the locks of Postgres only.               *)
(*                                                                         *)
(* A table's content is the number of its last change: rows bear generated  *)
(* ids and dates, so that a table does not come back to a former content.   *)
(* A view's content is what it was computed from: per table, the set of     *)
(* contents it shows, directly or through another view.                     *)
(***************************************************************************)
EXTENDS Integers

CONSTANTS
    Commands,        \* processes, each running one ingestion command after another
    Tables, Views,
    Reads,           \* per view, the tables and views its SELECT reads (pg_depend)
    Declarations,    \* the possible catalogues: per view, Definition.Tables
    MaxLoads         \* loads of a table

Objects == Tables \union Views
Catalogues == [Views -> SUBSET Objects]

ASSUME MatviewAssumption ==
    /\ Tables \intersect Views = {}
    /\ Reads \in Catalogues
    /\ Declarations \subseteq Catalogues
    /\ \A d \in Declarations, v \in Views : Reads[v] \intersect Tables \subseteq d[v]
    /\ MaxLoads \in Nat

VARIABLES
    declared,    \* Catalogue, the views' declared sources               (rigid)
    data,        \* per table, its content
    view,        \* per view, its content
    etat,        \* mv.etat: per view, the hash of its sources at its last refresh
    phase,       \* per command: "loading", "refreshing"
    stage,       \* per command and view, how far Actualiser is
    hash,        \* per command and view, the part of the hash already computed
    snapshot,    \* per command and view, the tables its REFRESH reads
    ended,       \* per command, how its last refresh ended: "none", "ok", "failed"
    since,       \* history: the tables when that refresh began
    overlapped   \* history: two commands have refreshed at the same time

step == <<stage, hash, snapshot>>
history == <<since, overlapped>>
vars == <<declared, data, view, etat, phase, step, ended, history>>

Loads == 0..MaxLoads
Contents == [Tables -> SUBSET Loads]
NoHash == [o \in {} |-> 0]
NoSnapshot == [t \in {} |-> 0]

\* checksum.Table: the hash of an object stands for its content.
Content(o) == IF o \in Tables THEN [t \in Tables |-> IF t = o THEN {data[o]} ELSE {}]
                              ELSE view[o]

\* checksum.Section over the declared sources, read all at once.
Hash(v) == [o \in declared[v] |-> Content(o)]

\* What the SELECT of v returns on these tables, and the views as they are.
Computed(v, tables) ==
    [t \in Tables |-> (IF t \in Reads[v] THEN {tables[t]} ELSE {})
                      \union UNION {view[w][t] : w \in Reads[v] \intersect Views}]

Init ==      \* the migrations have created the views, mv.etat has no row
    /\ declared \in Declarations
    /\ data = [t \in Tables |-> 0]
    /\ view \in [Views -> Contents]
    /\ \A v \in Views : view[v] = Computed(v, data)
    /\ etat = [v \in Views |-> NoHash]
    /\ phase = [c \in Commands |-> "loading"]
    /\ stage = [c \in Commands |-> [v \in Views |-> "waiting"]]
    /\ hash = [c \in Commands |-> [v \in Views |-> NoHash]]
    /\ snapshot = [c \in Commands |-> [v \in Views |-> NoSnapshot]]
    /\ ended = [c \in Commands |-> "none"]
    /\ since = [c \in Commands |-> data]
    /\ overlapped = FALSE
-----------------------------------------------------------------------------
(* A command                                                               *)

\* A connector commits the new content of a table.
Load(c, t) ==
    /\ phase[c] = "loading" /\ data[t] < MaxLoads
    /\ data' = [data EXCEPT ![t] = @ + 1]
    /\ UNCHANGED <<declared, view, etat, phase, step, ended, history>>

\* registre: Tables declares every view that pg_depend knows of.
RealIsDeclared_bug == TRUE
RealIsDeclared == \A v \in Views : Reads[v] \intersect Views \subseteq declared[v]

\* actualiserMatviews, RefreshAllConcurrency.
Refresh(c) ==
    /\ phase[c] = "loading" /\ RealIsDeclared
    /\ phase' = [phase EXCEPT ![c] = "refreshing"]
    /\ stage' = [stage EXCEPT ![c] = [v \in Views |-> "waiting"]]
    /\ ended' = [ended EXCEPT ![c] = "none"]
    /\ since' = [since EXCEPT ![c] = data]
    /\ overlapped' = (overlapped \/ \E d \in Commands \ {c} : phase[d] = "refreshing")
    /\ UNCHANGED <<declared, data, view, etat, hash, snapshot>>

RefusesToRefresh(c) ==
    /\ phase[c] = "loading" /\ ~RealIsDeclared
    /\ ended' = [ended EXCEPT ![c] = "failed"]
    /\ UNCHANGED <<declared, data, view, etat, phase, step, history>>

Running(c) == {v \in Views : stage[c][v] \notin {"waiting", "done", "failed"}}
Failed(c) == {v \in Views : stage[c][v] = "failed"}
Over_bug(c) == \A v \in Views : stage[c][v] = "done"
Over(c) == Running(c) = {} /\ (Failed(c) # {} \/ \A v \in Views : stage[c][v] = "done")

\* reg.Run returns, in stop mode, and the command with it.
Return(c) ==
    /\ phase[c] = "refreshing" /\ Over(c)
    /\ phase' = [phase EXCEPT ![c] = "loading"]
    /\ ended' = [ended EXCEPT ![c] = IF Failed(c) = {} THEN "ok" ELSE "failed"]
    /\ stage' = [stage EXCEPT ![c] = [v \in Views |-> "waiting"]]
    /\ UNCHANGED <<declared, data, view, etat, hash, snapshot, history>>

\* The process is killed: Postgres rolls its transactions back.
Kill(c) ==
    /\ phase[c] = "refreshing"
    /\ phase' = [phase EXCEPT ![c] = "loading"]
    /\ stage' = [stage EXCEPT ![c] = [v \in Views |-> "waiting"]]
    /\ hash' = [hash EXCEPT ![c] = [v \in Views |-> NoHash]]
    /\ snapshot' = [snapshot EXCEPT ![c] = [v \in Views |-> NoSnapshot]]
    /\ UNCHANGED <<declared, data, view, etat, ended, history>>
-----------------------------------------------------------------------------
(* Actualiser: one view, within a command                                  *)

To(c, v, st) == stage' = [stage EXCEPT ![c][v] = st]
Ends(c, v, st) ==
    /\ To(c, v, st)
    /\ hash' = [hash EXCEPT ![c][v] = NoHash]
    /\ snapshot' = [snapshot EXCEPT ![c][v] = NoSnapshot]

\* ACCESS EXCLUSIVE on the view being refreshed, and ACCESS SHARE on those its
\* SELECT reads, both until the end of the transaction.
Owns(c, v) == stage[c][v] \in {"locked", "filled"}
MayRead(v) == \A c \in Commands : ~Owns(c, v)
MayOwn(v) ==
    /\ MayRead(v)
    /\ \A c \in Commands, w \in Views : stage[c][w] = "filled" => v \notin Reads[w]

\* registre: the dependencies of the step are the views it declares.
Before_bug(v) == {}
Before(v) == declared[v] \intersect Views

Start(c, v) ==
    /\ phase[c] = "refreshing" /\ stage[c][v] = "waiting"
    /\ \A w \in Before(v) : stage[c][w] = "done"
    /\ To(c, v, "hashing")
    /\ UNCHANGED <<declared, data, view, etat, phase, hash, snapshot, ended, history>>

\* One query per source, each on its own snapshot.
HashSource(c, v, o) ==
    /\ stage[c][v] = "hashing"
    /\ o \in declared[v] \ DOMAIN hash[c][v]
    /\ o \in Views => MayRead(o)
    /\ hash' = [hash EXCEPT ![c][v] =
                  [p \in DOMAIN @ \union {o} |-> IF p = o THEN Content(o) ELSE @[p]]]
    /\ UNCHANGED <<declared, data, view, etat, phase, stage, snapshot, ended, history>>

Hashed(c, v) == stage[c][v] = "hashing" /\ DOMAIN hash[c][v] = declared[v]

UpToDate(c, v) ==
    /\ Hashed(c, v) /\ etat[v] = hash[c][v]
    /\ Ends(c, v, "done")
    /\ UNCHANGED <<declared, data, view, etat, phase, ended, history>>

\* The REFRESH begins: Postgres takes its snapshot, then asks for the lock.
AskLock(c, v) ==
    /\ Hashed(c, v) /\ etat[v] # hash[c][v]
    /\ To(c, v, "asking")
    /\ snapshot' = [snapshot EXCEPT ![c][v] = data]
    /\ UNCHANGED <<declared, data, view, etat, phase, hash, ended, history>>

Lock(c, v) ==
    /\ stage[c][v] = "asking" /\ MayOwn(v)
    /\ To(c, v, "locked")
    /\ UNCHANGED <<declared, data, view, etat, phase, hash, snapshot, ended, history>>

\* The views it reads are free: the SELECT runs. (What it reads of a view does
\* not depend on the snapshot: a refresh writes frozen rows.)
Fill(c, v) ==
    /\ stage[c][v] = "locked"
    /\ \A w \in Reads[v] \intersect Views : MayRead(w)
    /\ To(c, v, "filled")
    /\ UNCHANGED <<declared, data, view, etat, phase, hash, snapshot, ended, history>>

Record_bug(c, v) == Hash(v)
Record(c, v) == hash[c][v]

\* COMMIT, whose answer may be lost.
Commit(c, v) ==
    /\ stage[c][v] = "filled"
    /\ view' = [view EXCEPT ![v] = Computed(v, snapshot[c][v])]
    /\ etat' = [etat EXCEPT ![v] = Record(c, v)]
    /\ \E st \in {"done", "failed"} : Ends(c, v, st)
    /\ UNCHANGED <<declared, data, phase, ended, history>>

\* A statement returns an error: the transaction is rolled back.
Fail(c, v) ==
    /\ v \in Running(c)
    /\ Ends(c, v, "failed")
    /\ UNCHANGED <<declared, data, view, etat, phase, ended, history>>
-----------------------------------------------------------------------------
Hashes(c, v) == \E o \in Objects : HashSource(c, v, o)

\* What a command that refreshes does by itself.
Proceeds(c) ==
    \/ Return(c)
    \/ \E v \in Views :
          \/ Start(c, v) \/ Hashes(c, v) \/ UpToDate(c, v)
          \/ AskLock(c, v) \/ Lock(c, v) \/ Fill(c, v) \/ Commit(c, v)

Next ==
    \E c \in Commands :
        \/ \E t \in Tables : Load(c, t)
        \/ Refresh(c) \/ RefusesToRefresh(c) \/ Kill(c)
        \/ Proceeds(c)
        \/ \E v \in Views : Fail(c, v)

Spec == Init /\ [][Next]_vars

\* The statements end, and Postgres grants a lock in the order of the requests: a
\* command that again and again has something it may do does something.
FairSpec == Spec /\ \A c \in Commands : SF_vars(Proceeds(c))
-----------------------------------------------------------------------------
(* Properties                                                              *)

Stages == {"waiting", "hashing", "asking", "locked", "filled", "done", "failed"}
\* A step has a hash from its first query on, a snapshot from its REFRESH on, and
\* leaves nothing behind; a command that is not refreshing has no step.
HoldsWhatItUses(c, v) ==
    /\ phase[c] = "loading" => stage[c][v] = "waiting"
    /\ stage[c][v] \in {"waiting", "done", "failed"} => hash[c][v] = NoHash
    /\ stage[c][v] \in {"asking", "locked", "filled"} => DOMAIN hash[c][v] = declared[v]
    /\ DOMAIN snapshot[c][v] =
          IF stage[c][v] \in {"asking", "locked", "filled"} THEN Tables ELSE {}

Parts(S, T) == UNION {[D -> T] : D \in SUBSET S}

TypeOK ==
    /\ declared \in Declarations
    /\ data \in [Tables -> Loads]
    /\ view \in [Views -> Contents]
    /\ etat \in [Views -> Parts(Objects, Contents)]
    /\ phase \in [Commands -> {"loading", "refreshing"}]
    /\ stage \in [Commands -> [Views -> Stages]]
    /\ hash \in [Commands -> [Views -> Parts(Objects, Contents)]]
    /\ snapshot \in [Commands -> [Views -> Parts(Tables, Loads)]]
    /\ \A c \in Commands, v \in Views : HoldsWhatItUses(c, v)
    /\ ended \in [Commands -> {"none", "ok", "failed"}]
    /\ since \in [Commands -> [Tables -> Loads]]
    /\ overlapped \in BOOLEAN

\* A view is computed from its sources as they are now.
Current(v) == view[v] = Computed(v, data)

\* What mv.etat claims: nothing to do for v.
Claimed(v) == etat[v] = Hash(v)

\* "un crash entre les deux ne laisse jamais mv.etat pretendre une fraicheur que
\* la matvue n'a pas atteinte" (Actualiser): the hash recorded is that of the
\* sources only if the view shows them, whatever is loaded, fails, is killed or
\* refreshed by another command meanwhile. For a view that reads tables only.
ClaimsOnTables ==
    \A v \in Views : Reads[v] \subseteq Tables /\ Claimed(v) => Current(v)

\* The same for every view, as long as two commands have not refreshed at once:
\* a view is hashed after those it reads have been refreshed by its command.
ClaimsOnViews == ~overlapped => \A v \in Views : Claimed(v) => Current(v)

\* "core -> mv avant de rendre la main": a command that ended well leaves no
\* view that shows, of any table, even through another view, something older
\* than what it found at the end of its loads; nor does any command, well or
\* ill, go back on that later.
Shows(v, tables) == \A t \in Tables : \A n \in view[v][t] : n >= tables[t]
CoreThenMv ==
    ~overlapped =>
        \A c \in Commands : ended[c] = "ok" => \A v \in Views : Shows(v, since[c])

\* The refreshes of several commands never block each other for ever on the
\* locks of the views: each of them returns.
EveryRefreshEnds ==
    \A c \in Commands : phase[c] = "refreshing" ~> phase[c] = "loading"
=============================================================================

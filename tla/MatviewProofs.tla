----------------------------- MODULE MatviewProofs -----------------------------
(***************************************************************************)
(* What holds of the refreshes for every set of commands, tables and views, *)
(* every catalogue and any number of loads.                                 *)
(***************************************************************************)
EXTENDS Matview, TLAPS

LEMMA LoadsAreNumbers == Loads \subseteq Nat /\ 0 \in Loads
  BY MatviewAssumption DEF Loads

LEMMA ContentType ==
  ASSUME TypeOK, NEW o \in Objects
  PROVE  Content(o) \in Contents
<1>1. CASE o \in Tables
  BY <1>1 DEF TypeOK, Content, Contents
<1>2. CASE o \notin Tables
  BY <1>2 DEF TypeOK, Content, Contents, Objects
<1> QED
  BY <1>1, <1>2

LEMMA ComputedType ==
  ASSUME TypeOK, NEW v \in Views, NEW tables \in [Tables -> Loads]
  PROVE  Computed(v, tables) \in Contents
<1> SUFFICES ASSUME NEW t \in Tables
             PROVE  (IF t \in Reads[v] THEN {tables[t]} ELSE {})
                      \union UNION {view[w][t] : w \in Reads[v] \intersect Views} \in SUBSET Loads
  BY DEF Computed, Contents
<1>1. \A w \in Views : view[w][t] \subseteq Loads
  BY DEF TypeOK, Contents
<1> QED
  BY <1>1

LEMMA DeclaredAreObjects ==
  ASSUME TypeOK, NEW v \in Views
  PROVE  declared[v] \subseteq Objects /\ Reads[v] \intersect Tables \subseteq declared[v]
<1>1. declared \in Catalogues
  BY MatviewAssumption DEF TypeOK
<1> QED
  BY <1>1, MatviewAssumption DEF TypeOK, Catalogues

LEMMA PartIntro ==
  ASSUME NEW S, NEW T, NEW D \in SUBSET S, NEW f \in [D -> T]
  PROVE  f \in Parts(S, T)
  BY DEF Parts

LEMMA NothingIsPart ==
  ASSUME NEW S, NEW T
  PROVE  NoHash \in Parts(S, T) /\ NoSnapshot \in Parts(S, T)
<1>1. NoHash \in [{} -> T] /\ NoSnapshot \in [{} -> T]
  BY DEF NoHash, NoSnapshot
<1> QED
  BY <1>1, PartIntro

LEMMA HashType ==
  ASSUME TypeOK, NEW c \in Commands, NEW v \in Views, NEW o \in declared[v]
  PROVE  [p \in DOMAIN hash[c][v] \union {o} |-> IF p = o THEN Content(o) ELSE hash[c][v][p]]
            \in Parts(Objects, Contents)
<1> DEFINE f == hash[c][v]
           D == DOMAIN f \union {o}
<1>1. PICK E \in SUBSET Objects : f \in [E -> Contents]
  <2>1. f \in Parts(Objects, Contents)
    BY DEF TypeOK
  <2> QED
    BY <2>1 DEF Parts
<1>2. o \in Objects /\ D \in SUBSET Objects
  BY <1>1, DeclaredAreObjects
<1>3. Content(o) \in Contents
  BY <1>2, ContentType
<1>4. [p \in D |-> IF p = o THEN Content(o) ELSE f[p]] \in [D -> Contents]
  BY <1>1, <1>3
<1> QED
  BY <1>2, <1>4, PartIntro

LEMMA TypeInitially == Init => TypeOK
<1> SUFFICES ASSUME Init PROVE TypeOK
  OBVIOUS
<1>1. data \in [Tables -> Loads] /\ since \in [Commands -> [Tables -> Loads]]
  BY LoadsAreNumbers DEF Init
<1>2. /\ etat \in [Views -> Parts(Objects, Contents)]
      /\ hash \in [Commands -> [Views -> Parts(Objects, Contents)]]
      /\ snapshot \in [Commands -> [Views -> Parts(Tables, Loads)]]
  BY NothingIsPart DEF Init
<1>3. \A c \in Commands, v \in Views : HoldsWhatItUses(c, v)
  <2> SUFFICES ASSUME NEW c \in Commands, NEW v \in Views PROVE HoldsWhatItUses(c, v)
    OBVIOUS
  <2>1. /\ stage[c][v] = "waiting" /\ hash[c][v] = NoHash
        /\ snapshot[c][v] = NoSnapshot
    BY DEF Init
  <2>2. DOMAIN NoSnapshot = {}
    BY DEF NoSnapshot
  <2> QED
    BY <2>1, <2>2 DEF HoldsWhatItUses
<1> QED
  BY <1>1, <1>2, <1>3 DEF Init, TypeOK, Stages

\* What an action on one step has to keep.
LEMMA OneStep ==
  ASSUME TypeOK, NEW c \in Commands, NEW v \in Views,
         NEW st \in Stages, NEW h \in Parts(Objects, Contents), NEW sn \in Parts(Tables, Loads),
         stage' = [stage EXCEPT ![c][v] = st],
         hash' = [hash EXCEPT ![c][v] = h],
         snapshot' = [snapshot EXCEPT ![c][v] = sn],
         UNCHANGED <<declared, phase>>,
         HoldsWhatItUses(c, v)'
  PROVE  /\ stage' \in [Commands -> [Views -> Stages]]
         /\ hash' \in [Commands -> [Views -> Parts(Objects, Contents)]]
         /\ snapshot' \in [Commands -> [Views -> Parts(Tables, Loads)]]
         /\ \A d \in Commands, w \in Views : HoldsWhatItUses(d, w)'
<1>1. stage' \in [Commands -> [Views -> Stages]]
  BY DEF TypeOK
<1>2. hash' \in [Commands -> [Views -> Parts(Objects, Contents)]]
  BY DEF TypeOK
<1>3. snapshot' \in [Commands -> [Views -> Parts(Tables, Loads)]]
  BY DEF TypeOK
<1>4. ASSUME NEW d \in Commands, NEW w \in Views PROVE HoldsWhatItUses(d, w)'
  <2>1. CASE d = c /\ w = v
    BY <2>1
  <2>2. CASE ~(d = c /\ w = v)
    <3>1. /\ stage'[d][w] = stage[d][w] /\ hash'[d][w] = hash[d][w]
          /\ snapshot'[d][w] = snapshot[d][w]
      BY <2>2 DEF TypeOK
    <3> QED
      BY <3>1 DEF TypeOK, HoldsWhatItUses
  <2> QED
    BY <2>1, <2>2
<1> QED
  BY <1>1, <1>2, <1>3, <1>4

LEMMA CommandStepsKeepType ==
  ASSUME TypeOK, NEW c \in Commands,
         \/ \E t \in Tables : Load(c, t)
         \/ Refresh(c) \/ RefusesToRefresh(c) \/ Return(c) \/ Kill(c)
  PROVE  TypeOK'
<1>1. ASSUME NEW t \in Tables, Load(c, t) PROVE TypeOK'
  <2>1. data' \in [Tables -> Loads]
    BY <1>1, MatviewAssumption DEF Load, TypeOK, Loads
  <2> QED
    BY <1>1, <2>1 DEF Load, TypeOK, HoldsWhatItUses, step, history
<1>2. CASE Refresh(c)
  <2>1. ASSUME NEW d \in Commands, NEW w \in Views PROVE HoldsWhatItUses(d, w)'
    <3>1. stage'[d][w] = stage[d][w] /\ (d # c => phase'[d] = phase[d])
      BY <1>2 DEF Refresh, TypeOK, HoldsWhatItUses
    <3> QED
      BY <1>2, <3>1 DEF Refresh, TypeOK, HoldsWhatItUses
  <2>2. /\ phase' \in [Commands -> {"loading", "refreshing"}]
        /\ stage' \in [Commands -> [Views -> Stages]]
        /\ ended' \in [Commands -> {"none", "ok", "failed"}]
        /\ since' \in [Commands -> [Tables -> Loads]]
        /\ overlapped' \in BOOLEAN
    BY <1>2 DEF Refresh, TypeOK, Stages
  <2> QED
    BY <1>2, <2>1, <2>2 DEF Refresh, TypeOK
<1>3. CASE RefusesToRefresh(c)
  BY <1>3 DEF RefusesToRefresh, TypeOK, HoldsWhatItUses, step, history
<1>4. CASE Return(c)
  <2>1. ASSUME NEW w \in Views
        PROVE  hash[c][w] = NoHash /\ DOMAIN snapshot[c][w] = {}
    <3>1. stage[c][w] \in {"waiting", "done", "failed"}
      BY <1>4 DEF Return, Over, Running
    <3> QED
      BY <3>1 DEF TypeOK, HoldsWhatItUses
  <2>2. ASSUME NEW d \in Commands, NEW w \in Views PROVE HoldsWhatItUses(d, w)'
    <3>1. CASE d = c
      BY <1>4, <2>1, <3>1 DEF Return, TypeOK, HoldsWhatItUses
    <3>2. CASE d # c
      BY <1>4, <3>2 DEF Return, TypeOK, HoldsWhatItUses
    <3> QED
      BY <3>1, <3>2
  <2> QED
    BY <1>4, <2>2 DEF Return, TypeOK, Stages, history
<1>5. CASE Kill(c)
  <2>1. ASSUME NEW d \in Commands, NEW w \in Views PROVE HoldsWhatItUses(d, w)'
    <3>1. CASE d = c
      <4>1. /\ stage'[d][w] = "waiting" /\ hash'[d][w] = NoHash
            /\ DOMAIN snapshot'[d][w] = {}
        BY <1>5, <3>1 DEF Kill, TypeOK, NoSnapshot
      <4> QED
        BY <4>1 DEF HoldsWhatItUses
    <3>2. CASE d # c
      BY <1>5, <3>2 DEF Kill, TypeOK, HoldsWhatItUses
    <3> QED
      BY <3>1, <3>2
  <2>2. /\ hash' \in [Commands -> [Views -> Parts(Objects, Contents)]]
        /\ snapshot' \in [Commands -> [Views -> Parts(Tables, Loads)]]
    BY <1>5, NothingIsPart DEF Kill, TypeOK
  <2> QED
    BY <1>5, <2>1, <2>2 DEF Kill, TypeOK, Stages, history
<1> QED
  BY <1>1, <1>2, <1>3, <1>4, <1>5

LEMMA ViewStepsKeepType ==
  ASSUME TypeOK, NEW c \in Commands, NEW v \in Views,
         \/ Start(c, v) \/ Hashes(c, v) \/ UpToDate(c, v) \/ AskLock(c, v)
         \/ Lock(c, v) \/ Fill(c, v) \/ Commit(c, v) \/ Fail(c, v)
  PROVE  TypeOK'
<1> DEFINE Kept(st, h, sn) ==
       /\ stage' = [stage EXCEPT ![c][v] = st]
       /\ hash' = [hash EXCEPT ![c][v] = h]
       /\ snapshot' = [snapshot EXCEPT ![c][v] = sn]
       /\ UNCHANGED <<declared, phase, data, ended, since, overlapped>>
       /\ view' \in [Views -> Contents]
       /\ etat' \in [Views -> Parts(Objects, Contents)]
<1>0. ASSUME NEW st \in Stages, NEW h \in Parts(Objects, Contents),
             NEW sn \in Parts(Tables, Loads), Kept(st, h, sn), HoldsWhatItUses(c, v)'
      PROVE  TypeOK'
  BY <1>0, OneStep DEF TypeOK
<1>1. hash[c][v] \in Parts(Objects, Contents) /\ snapshot[c][v] \in Parts(Tables, Loads)
  BY DEF TypeOK
<1>2. NoHash \in Parts(Objects, Contents) /\ NoSnapshot \in Parts(Tables, Loads)
  BY NothingIsPart
<1>3. DOMAIN NoSnapshot = {}
  BY DEF NoSnapshot
<1>4. /\ hash = [hash EXCEPT ![c][v] = hash[c][v]]
      /\ snapshot = [snapshot EXCEPT ![c][v] = snapshot[c][v]]
  BY DEF TypeOK
<1>5. CASE Start(c, v)
  <2>1. Kept("hashing", hash[c][v], snapshot[c][v])
    BY <1>4, <1>5 DEF Start, To, history, TypeOK
  <2>2. HoldsWhatItUses(c, v)'
    <3>1. /\ stage[c][v] = "waiting" /\ stage'[c][v] = "hashing"
          /\ UNCHANGED <<phase, hash, snapshot, declared>> /\ phase[c] = "refreshing"
      BY <1>5 DEF Start, To, TypeOK
    <3>2. HoldsWhatItUses(c, v)
      BY DEF TypeOK
    <3> QED
      BY <3>1, <3>2 DEF HoldsWhatItUses
  <2> QED
    BY <1>0, <1>1, <2>1, <2>2 DEF Stages
<1>6. CASE Hashes(c, v)
  <2>1. PICK o \in Objects : HashSource(c, v, o)
    BY <1>6 DEF Hashes
  <2> DEFINE h == [p \in DOMAIN hash[c][v] \union {o} |->
                     IF p = o THEN Content(o) ELSE hash[c][v][p]]
  <2>2. h \in Parts(Objects, Contents)
    BY <2>1, HashType DEF HashSource
  <2>3. hash' = [hash EXCEPT ![c][v] = h]
    BY <2>1 DEF HashSource, TypeOK
  <2> HIDE DEF h
  <2>4. stage = [stage EXCEPT ![c][v] = "hashing"]
    BY <2>1 DEF HashSource, TypeOK
  <2>5. Kept("hashing", h, snapshot[c][v])
    BY <1>4, <2>1, <2>3, <2>4 DEF HashSource, history, TypeOK
  <2>6. HoldsWhatItUses(c, v)'
    BY <2>1 DEF HashSource, TypeOK, HoldsWhatItUses
  <2> QED
    BY <1>0, <1>1, <2>2, <2>5, <2>6 DEF Stages
<1>7. ASSUME NEW st \in {"done", "failed"}, Ends(c, v, st),
             UNCHANGED <<declared, phase, data, ended, since, overlapped>>,
             view' \in [Views -> Contents],
             etat' \in [Views -> Parts(Objects, Contents)],
             phase[c] = "refreshing"
      PROVE  TypeOK'
  <2>1. Kept(st, NoHash, NoSnapshot)
    BY <1>7 DEF Ends, To
  <2>2. HoldsWhatItUses(c, v)'
    <3>1. stage'[c][v] = st /\ hash'[c][v] = NoHash /\ snapshot'[c][v] = NoSnapshot
      BY <2>1 DEF TypeOK
    <3> QED
      BY <1>3, <1>7, <3>1 DEF HoldsWhatItUses
  <2> QED
    BY <1>0, <1>2, <2>1, <2>2 DEF Stages
<1>8. ASSUME stage[c][v] # "waiting" PROVE phase[c] = "refreshing"
  BY <1>8 DEF TypeOK, HoldsWhatItUses
<1>9. CASE UpToDate(c, v)
  BY <1>7, <1>8, <1>9 DEF UpToDate, Hashed, TypeOK, history
<1>10. CASE AskLock(c, v)
  <2>1. data \in Parts(Tables, Loads) /\ DOMAIN data = Tables
    <3>1. data \in [Tables -> Loads]
      BY DEF TypeOK
    <3> QED
      BY <3>1, PartIntro
  <2>2. Kept("asking", hash[c][v], data)
    BY <1>4, <1>10 DEF AskLock, To, history, TypeOK
  <2>3. HoldsWhatItUses(c, v)'
    BY <1>8, <1>10, <2>1 DEF AskLock, Hashed, To, TypeOK, HoldsWhatItUses
  <2> QED
    BY <1>0, <1>1, <2>1, <2>2, <2>3 DEF Stages
<1>11. CASE Lock(c, v)
  <2>1. Kept("locked", hash[c][v], snapshot[c][v])
    BY <1>4, <1>11 DEF Lock, To, history, TypeOK
  <2>2. HoldsWhatItUses(c, v)'
    BY <1>11 DEF Lock, To, TypeOK, HoldsWhatItUses
  <2> QED
    BY <1>0, <1>1, <2>1, <2>2 DEF Stages
<1>12. CASE Fill(c, v)
  <2>1. Kept("filled", hash[c][v], snapshot[c][v])
    BY <1>4, <1>12 DEF Fill, To, history, TypeOK
  <2>2. HoldsWhatItUses(c, v)'
    BY <1>12 DEF Fill, To, TypeOK, HoldsWhatItUses
  <2> QED
    BY <1>0, <1>1, <2>1, <2>2 DEF Stages
<1>13. CASE Commit(c, v)
  <2>1. snapshot[c][v] \in [Tables -> Loads]
    <3>1. DOMAIN snapshot[c][v] = Tables
      BY <1>13 DEF Commit, TypeOK, HoldsWhatItUses
    <3> QED
      BY <1>1, <3>1 DEF Parts
  <2>2. Computed(v, snapshot[c][v]) \in Contents
    BY <2>1, ComputedType
  <2>3. view' \in [Views -> Contents] /\ etat' \in [Views -> Parts(Objects, Contents)]
    BY <1>1, <1>13, <2>2 DEF Commit, Record, TypeOK
  <2> QED
    BY <1>7, <1>8, <1>13, <2>3 DEF Commit, history
<1>14. CASE Fail(c, v)
  <2>1. stage[c][v] # "waiting"
    BY <1>14 DEF Fail, Running
  <2> QED
    BY <1>7, <1>8, <1>14, <2>1 DEF Fail, TypeOK, history
<1> QED
  BY <1>5, <1>6, <1>9, <1>10, <1>11, <1>12, <1>13, <1>14

LEMMA TypeStep == TypeOK /\ [Next]_vars => TypeOK'
<1> SUFFICES ASSUME TypeOK, [Next]_vars PROVE TypeOK'
  OBVIOUS
<1>1. CASE Next
  BY <1>1, CommandStepsKeepType, ViewStepsKeepType DEF Next, Proceeds
<1>2. CASE UNCHANGED vars
  BY <1>2 DEF vars, step, history, TypeOK, HoldsWhatItUses
<1> QED
  BY <1>1, <1>2

\* The state of the refreshes keeps its type; in particular no step leaves a
\* hash or a snapshot behind it, and a command that returns has none running.
THEOREM TypeCorrect == Spec => []TypeOK
  BY TypeInitially, TypeStep, PTL DEF Spec
-----------------------------------------------------------------------------
(* What mv.etat claims of a view that reads tables only                    *)

NotAfter(content, t, n) == \A k \in content[t] : k <= n

\* The hash is taken before the snapshot, the snapshot before the present.
HashFirst(c, v, t) ==
    /\ t \in DOMAIN hash[c][v] => NotAfter(hash[c][v][t], t, data[t])
    /\ t \in DOMAIN snapshot[c][v] => snapshot[c][v][t] <= data[t]
    /\ t \in DOMAIN snapshot[c][v] /\ t \in DOMAIN hash[c][v] =>
          NotAfter(hash[c][v][t], t, snapshot[c][v][t])

\* A view of tables shows one content of each, not older than the one recorded
\* for it in mv.etat.
ShowsOne(v, t) ==
    \E n \in Loads :
        /\ view[v][t] = {n} /\ n <= data[t]
        /\ t \in DOMAIN etat[v] => NotAfter(etat[v][t], t, n)

OnTables(v) == Reads[v] \subseteq Tables

TablesInv ==
    /\ \A c \in Commands, v \in Views : \A t \in Tables : HashFirst(c, v, t)
    /\ \A v \in Views : OnTables(v) =>
          /\ \A t \in Reads[v] : ShowsOne(v, t)
          /\ \A t \in Tables \ Reads[v] : view[v][t] = {}

LEMMA ComputedOnTables ==
  ASSUME NEW v \in Views, OnTables(v), NEW tables, NEW t \in Tables
  PROVE  Computed(v, tables)[t] = IF t \in Reads[v] THEN {tables[t]} ELSE {}
<1>1. Reads[v] \intersect Views = {}
  BY MatviewAssumption DEF OnTables
<1> QED
  BY <1>1 DEF Computed

LEMMA ContentOfTable ==
  ASSUME NEW t \in Tables PROVE Content(t)[t] = {data[t]}
  BY DEF Content

\* The invariant gives the property.
LEMMA TablesInvIsEnough == TypeOK /\ TablesInv => ClaimsOnTables
<1> SUFFICES ASSUME TypeOK, TablesInv, NEW v \in Views, OnTables(v), Claimed(v)
             PROVE  Current(v)
  BY DEF ClaimsOnTables, OnTables
<1>1. ASSUME NEW t \in Reads[v] PROVE view[v][t] = {data[t]}
  <2>1. t \in Tables /\ t \in declared[v]
    BY DeclaredAreObjects DEF OnTables
  <2>2. t \in DOMAIN etat[v] /\ etat[v][t][t] = {data[t]}
    BY <2>1, ContentOfTable DEF Claimed, Hash
  <2>3. PICK n \in Loads : view[v][t] = {n} /\ n <= data[t] /\ NotAfter(etat[v][t], t, n)
    BY <2>2 DEF TablesInv, ShowsOne
  <2>4. data[t] <= n
    BY <2>2, <2>3 DEF NotAfter
  <2>5. n \in Nat /\ data[t] \in Nat
    BY <2>1, LoadsAreNumbers DEF TypeOK
  <2> QED
    BY <2>3, <2>4, <2>5
<1>2. ASSUME NEW t \in Tables PROVE view[v][t] = Computed(v, data)[t]
  <2>1. Computed(v, data)[t] = IF t \in Reads[v] THEN {data[t]} ELSE {}
    BY ComputedOnTables
  <2>2. t \notin Reads[v] => view[v][t] = {}
    BY DEF TablesInv
  <2> QED
    BY <1>1, <2>1, <2>2
<1>3. view[v] = [t \in Tables |-> view[v][t]]
  BY DEF TypeOK, Contents
<1>4. Computed(v, data) = [t \in Tables |-> Computed(v, data)[t]]
  BY DEF Computed
<1> QED
  BY <1>2, <1>3, <1>4 DEF Current

LEMMA TablesInvInitially == Init => TablesInv
<1> SUFFICES ASSUME Init PROVE TablesInv
  OBVIOUS
<1>1. DOMAIN NoHash = {} /\ DOMAIN NoSnapshot = {}
  BY DEF NoHash, NoSnapshot
<1>2. \A c \in Commands, v \in Views : \A t \in Tables : HashFirst(c, v, t)
  BY <1>1 DEF Init, HashFirst
<1>3. ASSUME NEW v \in Views, OnTables(v), NEW t \in Reads[v] PROVE ShowsOne(v, t)
  <2>1. t \in Tables
    BY <1>3 DEF OnTables
  <2>2. view[v][t] = {data[t]}
    BY ZenonT(30), <1>3, <2>1, ComputedOnTables DEF Init
  <2> QED
    BY <1>1, <2>1, <2>2, LoadsAreNumbers DEF Init, ShowsOne
<1>4. ASSUME NEW v \in Views, OnTables(v), NEW t \in Tables \ Reads[v]
      PROVE  view[v][t] = {}
  BY <1>4, ComputedOnTables DEF Init
<1> QED
  BY <1>2, <1>3, <1>4 DEF TablesInv

\* Only a load writes a table, only a commit writes a view and its row.
LEMMA WhoWrites ==
  ASSUME [Next]_vars
  PROVE  /\ data' = data \/ \E c \in Commands, t \in Tables : Load(c, t)
         /\ UNCHANGED <<view, etat>> \/ \E c \in Commands, v \in Views : Commit(c, v)
<1>1. CASE UNCHANGED vars
  BY <1>1 DEF vars
<1>2. ASSUME NEW c \in Commands, NEW t \in Tables, Load(c, t)
      PROVE  UNCHANGED <<view, etat>>
  BY <1>2 DEF Load
<1>3. ASSUME NEW c \in Commands, NEW v \in Views, Commit(c, v)
      PROVE  data' = data
  BY <1>3 DEF Commit
<1>4. ASSUME NEW c \in Commands, Refresh(c) \/ RefusesToRefresh(c) \/ Kill(c) \/ Return(c)
      PROVE  UNCHANGED <<data, view, etat>>
  BY <1>4 DEF Refresh, RefusesToRefresh, Kill, Return
<1>5. ASSUME NEW c \in Commands, NEW v \in Views, NEW o, HashSource(c, v, o)
      PROVE  UNCHANGED <<data, view, etat>>
  BY <1>5 DEF HashSource
<1>6. ASSUME NEW c \in Commands, NEW v \in Views,
             \/ Start(c, v) \/ UpToDate(c, v) \/ AskLock(c, v)
             \/ Lock(c, v) \/ Fill(c, v) \/ Fail(c, v)
      PROVE  UNCHANGED <<data, view, etat>>
  BY <1>6 DEF Start, UpToDate, AskLock, Lock, Fill, Fail
<1> QED
  BY <1>1, <1>2, <1>3, <1>4, <1>5, <1>6 DEF Next, Proceeds, Hashes

\* Tables only move forward.
LEMMA DataMovesForward ==
  ASSUME TypeOK, [Next]_vars, NEW t \in Tables
  PROVE  data[t] \in Nat /\ data'[t] \in Nat /\ data[t] <= data'[t]
<1>1. data[t] \in Nat
  BY LoadsAreNumbers DEF TypeOK
<1>2. CASE data' = data
  BY <1>1, <1>2
<1>3. ASSUME NEW c \in Commands, NEW u \in Tables, Load(c, u)
      PROVE  data'[t] \in Nat /\ data[t] <= data'[t]
  BY <1>1, <1>3 DEF Load, TypeOK
<1> QED
  BY <1>1, <1>2, <1>3, WhoWrites

LEMMA PartValue ==
  ASSUME TypeOK, NEW c \in Commands, NEW v \in Views, NEW t \in Tables
  PROVE  /\ t \in DOMAIN hash[c][v] => hash[c][v][t][t] \subseteq Nat
         /\ t \in DOMAIN snapshot[c][v] => snapshot[c][v][t] \in Nat
         /\ t \in DOMAIN etat[v] => etat[v][t][t] \subseteq Nat
<1>1. \A f \in Parts(Objects, Contents) : t \in DOMAIN f => f[t][t] \subseteq Nat
  BY LoadsAreNumbers DEF Parts, Contents
<1>2. \A f \in Parts(Tables, Loads) : t \in DOMAIN f => f[t] \in Nat
  BY LoadsAreNumbers DEF Parts
<1> QED
  BY <1>1, <1>2 DEF TypeOK

\* A step that neither hashes nor takes a snapshot keeps HashFirst.
LEMMA HashFirstKept ==
  ASSUME TypeOK, [Next]_vars, NEW c \in Commands, NEW v \in Views, NEW t \in Tables,
         HashFirst(c, v, t),
         hash'[c][v] = hash[c][v] /\ snapshot'[c][v] = snapshot[c][v]
  PROVE  HashFirst(c, v, t)'
<1>1. data[t] \in Nat /\ data'[t] \in Nat /\ data[t] <= data'[t]
  BY DataMovesForward
<1>2. /\ t \in DOMAIN hash[c][v] => hash[c][v][t][t] \subseteq Nat
      /\ t \in DOMAIN snapshot[c][v] => snapshot[c][v][t] \in Nat
  BY PartValue
<1> QED
  BY <1>1, <1>2 DEF HashFirst, NotAfter

LEMMA HashFirstCleared ==
  ASSUME NEW c \in Commands, NEW v \in Views, NEW t \in Tables,
         hash'[c][v] = NoHash /\ snapshot'[c][v] = NoSnapshot
  PROVE  HashFirst(c, v, t)'
  BY DEF HashFirst, NoHash, NoSnapshot

LEMMA HashFirstStep ==
  ASSUME TypeOK, TablesInv, [Next]_vars, NEW d \in Commands, NEW w \in Views, NEW t \in Tables
  PROVE  HashFirst(d, w, t)'
<1>0. HashFirst(d, w, t)
  BY DEF TablesInv
<1>1. CASE UNCHANGED <<hash, snapshot>>
  BY <1>0, <1>1, HashFirstKept
<1>2. ASSUME NEW c \in Commands, Kill(c) PROVE HashFirst(d, w, t)'
  <2>1. CASE d = c
    BY <1>2, <2>1, HashFirstCleared DEF Kill, TypeOK
  <2>2. CASE d # c
    BY <1>0, <1>2, <2>2, HashFirstKept DEF Kill, TypeOK
  <2> QED
    BY <2>1, <2>2
<1>3. ASSUME NEW c \in Commands, NEW v \in Views, NEW st, Ends(c, v, st)
      PROVE  HashFirst(d, w, t)'
  <2>1. CASE d = c /\ w = v
    BY <1>3, <2>1, HashFirstCleared DEF Ends, TypeOK
  <2>2. CASE ~(d = c /\ w = v)
    BY <1>0, <1>3, <2>2, HashFirstKept DEF Ends, TypeOK
  <2> QED
    BY <2>1, <2>2
<1>4. ASSUME NEW c \in Commands, NEW v \in Views, NEW o \in Objects, HashSource(c, v, o)
      PROVE  HashFirst(d, w, t)'
  <2>1. CASE d = c /\ w = v
    <3>1. t \notin DOMAIN snapshot'[d][w]
      BY <1>4, <2>1 DEF HashSource, TypeOK, HoldsWhatItUses
    <3>2. CASE t = o
      <4>1. hash'[d][w][t] = Content(t)
        BY <1>4, <2>1, <3>2 DEF HashSource, TypeOK
      <4>2. data'[t] = data[t] /\ data[t] \in Nat
        BY <1>4, DataMovesForward DEF HashSource
      <4> QED
        BY <3>1, <4>1, <4>2, ContentOfTable DEF HashFirst, NotAfter
    <3>3. CASE t # o
      <4>1. t \in DOMAIN hash'[d][w] => t \in DOMAIN hash[d][w] /\ hash'[d][w][t] = hash[d][w][t]
        BY <1>4, <2>1, <3>3 DEF HashSource, TypeOK
      <4>2. data'[t] = data[t]
        BY <1>4 DEF HashSource
      <4> QED
        BY <1>0, <3>1, <4>1, <4>2 DEF HashFirst, NotAfter
    <3> QED
      BY <3>2, <3>3
  <2>2. CASE ~(d = c /\ w = v)
    BY <1>0, <1>4, <2>2, HashFirstKept DEF HashSource, TypeOK
  <2> QED
    BY <2>1, <2>2
<1>5. ASSUME NEW c \in Commands, NEW v \in Views, AskLock(c, v) PROVE HashFirst(d, w, t)'
  <2>1. CASE d = c /\ w = v
    <3>1. snapshot'[d][w] = data /\ hash'[d][w] = hash[d][w] /\ data' = data
      BY <1>5, <2>1 DEF AskLock, TypeOK
    <3>2. data[t] \in Nat
      BY DataMovesForward
    <3> QED
      BY <1>0, <3>1, <3>2 DEF HashFirst
  <2>2. CASE ~(d = c /\ w = v)
    BY <1>0, <1>5, <2>2, HashFirstKept DEF AskLock, TypeOK
  <2> QED
    BY <2>1, <2>2
<1>6. ASSUME NEW c \in Commands,
             \/ \E u \in Tables : Load(c, u)
             \/ Refresh(c) \/ RefusesToRefresh(c) \/ Return(c)
             \/ \E v \in Views : Start(c, v) \/ Lock(c, v) \/ Fill(c, v)
      PROVE  UNCHANGED <<hash, snapshot>>
  BY <1>6 DEF Load, Refresh, RefusesToRefresh, Return, Start, Lock, Fill, step
<1>7. CASE UNCHANGED vars
  BY <1>1, <1>7 DEF vars, step
<1>8. ASSUME NEW c \in Commands, NEW v \in Views,
             UpToDate(c, v) \/ Commit(c, v) \/ Fail(c, v)
      PROVE  \E st \in Stages : Ends(c, v, st)
  BY <1>8 DEF UpToDate, Commit, Fail, Stages
<1> QED
  BY <1>1, <1>2, <1>3, <1>4, <1>5, <1>6, <1>7, <1>8 DEF Next, Proceeds, Hashes

LEMMA ShowsOneStep ==
  ASSUME TypeOK, TablesInv, [Next]_vars, NEW v \in Views, OnTables(v)
  PROVE  /\ \A t \in Reads[v] : ShowsOne(v, t)'
         /\ \A t \in Tables \ Reads[v] : view'[v][t] = {}
<1>1. CASE view'[v] = view[v] /\ etat'[v] = etat[v]
  <2>1. ASSUME NEW t \in Reads[v] PROVE ShowsOne(v, t)'
    <3>1. t \in Tables
      BY DEF OnTables
    <3>2. data[t] \in Nat /\ data'[t] \in Nat /\ data[t] <= data'[t]
      BY <3>1, DataMovesForward
    <3>3. PICK n \in Loads :
             /\ view[v][t] = {n} /\ n <= data[t]
             /\ t \in DOMAIN etat[v] => NotAfter(etat[v][t], t, n)
      BY DEF TablesInv, ShowsOne
    <3>4. n \in Nat
      BY LoadsAreNumbers
    <3>5. n <= data'[t]
      BY <3>2, <3>3, <3>4
    <3> QED
      BY <1>1, <3>3, <3>5 DEF ShowsOne, NotAfter
  <2> QED
    BY <1>1, <2>1 DEF TablesInv
<1>2. ASSUME NEW c \in Commands, Commit(c, v)
      PROVE  /\ \A t \in Reads[v] : ShowsOne(v, t)'
             /\ \A t \in Tables \ Reads[v] : view'[v][t] = {}
  <2>1. /\ view'[v] = Computed(v, snapshot[c][v]) /\ etat'[v] = hash[c][v]
        /\ data' = data
    BY <1>2 DEF Commit, Record, TypeOK
  <2>2. DOMAIN snapshot[c][v] = Tables
    BY <1>2 DEF Commit, TypeOK, HoldsWhatItUses
  <2>3. ASSUME NEW t \in Reads[v] PROVE ShowsOne(v, t)'
    <3>1. t \in Tables
      BY DEF OnTables
    <3>2. view'[v][t] = {snapshot[c][v][t]}
      BY <2>1, <3>1, ComputedOnTables
    <3>3. HashFirst(c, v, t)
      BY <3>1 DEF TablesInv
    <3>4. snapshot[c][v][t] \in Loads
      BY <2>2, <3>1 DEF TypeOK, Parts
    <3> QED
      BY <2>1, <2>2, <3>1, <3>2, <3>3, <3>4 DEF HashFirst, ShowsOne
  <2>4. ASSUME NEW t \in Tables \ Reads[v] PROVE view'[v][t] = {}
    BY <2>1, ComputedOnTables
  <2> QED
    BY <2>3, <2>4
<1>3. ASSUME NEW c \in Commands, NEW w \in Views, w # v, Commit(c, w)
      PROVE  view'[v] = view[v] /\ etat'[v] = etat[v]
  BY <1>3 DEF Commit, TypeOK
<1>4. UNCHANGED <<view, etat>> \/ \E c \in Commands, w \in Views : Commit(c, w)
  BY WhoWrites
<1> QED
  BY <1>1, <1>2, <1>3, <1>4

LEMMA TablesStep == TypeOK /\ TablesInv /\ [Next]_vars => TablesInv'
<1> SUFFICES ASSUME TypeOK, TablesInv, [Next]_vars PROVE TablesInv'
  OBVIOUS
<1>1. \A c \in Commands, v \in Views : \A t \in Tables : HashFirst(c, v, t)'
  BY HashFirstStep
<1> QED
  BY <1>1, ShowsOneStep DEF TablesInv, OnTables

\* For a view that reads tables only, mv.etat never claims a freshness that the
\* view has not reached: whatever the commands that run at the same time, their
\* failures and their kills, whatever the tables loaded meanwhile.
THEOREM TableClaimsAreTrue == Spec => []ClaimsOnTables
  BY TypeInitially, TypeStep, TablesInvInitially, TablesStep, TablesInvIsEnough, PTL DEF Spec
-----------------------------------------------------------------------------
(* Every view, as long as one command refreshes at a time                  *)

Active == {"hashing", "asking", "locked", "filled"}

\* What mv.etat says of a view already refreshed: its hash was that of the views it
\* was computed from, and was taken before the tables it was computed from.
Dated(v) ==
    \/ etat[v] = NoHash
    \/ /\ DOMAIN etat[v] = declared[v]
       /\ \E tables \in [Tables -> Loads] : \A t \in Tables :
             /\ tables[t] <= data[t]
             /\ t \in declared[v] => NotAfter(etat[v][t], t, tables[t])
             /\ view[v][t] = (IF t \in Reads[v] THEN {tables[t]} ELSE {})
                             \union UNION {etat[v][w][t] : w \in Reads[v] \intersect Views}

\* A view under refresh comes after those it reads, has hashed them as they are, and
\* what it has seen of the tables is not older than the beginning of the refresh.
Progress(c, v) ==
    /\ stage[c][v] \in Active => \A w \in declared[v] \intersect Views : stage[c][w] = "done"
    /\ DOMAIN hash[c][v] \subseteq declared[v]
    /\ \A w \in DOMAIN hash[c][v] \intersect Views : hash[c][v][w] = view[w]
    /\ \A t \in DOMAIN hash[c][v] \intersect Tables : \E k \in hash[c][v][t][t] : since[c][t] <= k
    /\ \A t \in DOMAIN snapshot[c][v] : since[c][t] <= snapshot[c][v][t]
    /\ stage[c][v] = "done" => Shows(v, since[c])

\* The refreshes come one after the other, and each sees the loads of those before.
InTurn ==
    /\ \A c, d \in Commands : phase[c] = "refreshing" /\ phase[d] = "refreshing" => c = d
    /\ \A c \in Commands : \A t \in Tables : since[c][t] <= data[t]
    /\ \A c, d \in Commands : ended[c] = "ok" /\ phase[d] = "refreshing" =>
          \A t \in Tables : since[c][t] <= since[d][t]
    /\ \A c \in Commands : ended[c] = "ok" =>
          phase[c] = "loading" /\ \A v \in Views : Shows(v, since[c])

\* A catalogue that misses a dependency refreshes nothing.
NothingRefreshed ==
    /\ \A c \in Commands : phase[c] = "loading" /\ ended[c] # "ok"
    /\ \A v \in Views : etat[v] = NoHash

Alone ==
    /\ InTurn
    /\ \A v \in Views : Dated(v)
    /\ \A c \in Commands, v \in Views : Progress(c, v)

AloneInv ==
    /\ \A v \in Views : declared[v] = {} => Current(v)
    /\ ~RealIsDeclared => NothingRefreshed
    /\ RealIsDeclared /\ ~overlapped => Alone

LEMMA ReadsAreDeclared ==
  ASSUME TypeOK, NEW v \in Views
  PROVE  /\ Reads[v] \subseteq Objects /\ Reads[v] \intersect Tables \subseteq declared[v]
         /\ RealIsDeclared => Reads[v] \subseteq declared[v]
  BY DeclaredAreObjects, MatviewAssumption DEF Catalogues, Objects, RealIsDeclared

LEMMA ViewType ==
  ASSUME TypeOK, NEW v \in Views, NEW t \in Tables
  PROVE  view[v][t] \subseteq Nat /\ data[t] \in Nat
  BY LoadsAreNumbers DEF TypeOK, Contents

\* The invariant gives both properties.
LEMMA DatedClaims ==
  ASSUME TypeOK, RealIsDeclared, NEW v \in Views, Dated(v), declared[v] = {} => Current(v), Claimed(v)
  PROVE  Current(v)
<1>1. DOMAIN etat[v] = declared[v]
  BY DEF Claimed, Hash
<1>2. CASE etat[v] = NoHash
  <2>1. declared[v] = {}
    BY <1>1, <1>2 DEF NoHash
  <2>2. QED
    BY <2>1
<1>3. CASE etat[v] # NoHash
  <2>1. PICK tables \in [Tables -> Loads] : \A t \in Tables :
             /\ tables[t] <= data[t]
             /\ t \in declared[v] => NotAfter(etat[v][t], t, tables[t])
             /\ view[v][t] = (IF t \in Reads[v] THEN {tables[t]} ELSE {})
                             \union UNION {etat[v][w][t] : w \in Reads[v] \intersect Views}
    BY <1>3 DEF Dated
  <2>2. \A o \in declared[v] : etat[v][o] = Content(o)
    BY DEF Claimed, Hash
  <2>3. \A w \in Reads[v] \intersect Views : etat[v][w] = view[w]
    <3>1. \A w \in Views : Content(w) = view[w]
      BY MatviewAssumption DEF Content
    <3>2. QED
      BY <2>2, <3>1, ReadsAreDeclared
  <2>4. ASSUME NEW t \in Tables PROVE view[v][t] = Computed(v, data)[t]
    <3>1. Computed(v, data)[t] = (IF t \in Reads[v] THEN {data[t]} ELSE {})
                      \union UNION {view[w][t] : w \in Reads[v] \intersect Views}
      BY DEF Computed
    <3>2. UNION {etat[v][w][t] : w \in Reads[v] \intersect Views}
            = UNION {view[w][t] : w \in Reads[v] \intersect Views}
      BY <2>3
    <3>3. t \in Reads[v] => tables[t] = data[t]
      <4>1. SUFFICES ASSUME t \in Reads[v] PROVE tables[t] = data[t]
        OBVIOUS
      <4>2. t \in declared[v]
        BY <4>1, ReadsAreDeclared
      <4>3. etat[v][t][t] = {data[t]}
        BY <2>2, <4>2, ContentOfTable
      <4>4. data[t] <= tables[t] /\ tables[t] <= data[t]
        BY <2>1, <4>2, <4>3 DEF NotAfter
      <4>5. data[t] \in Nat /\ tables[t] \in Nat
        BY ViewType, LoadsAreNumbers
      <4>6. QED
        BY <4>4, <4>5
    <3>4. QED
      BY <2>1, <3>1, <3>2, <3>3
  <2>5. view[v] = [t \in Tables |-> view[v][t]]
    BY DEF TypeOK, Contents
  <2>6. Computed(v, data) = [t \in Tables |-> Computed(v, data)[t]]
    BY DEF Computed
  <2>7. QED
    BY <2>4, <2>5, <2>6 DEF Current
<1>4. QED
  BY <1>2, <1>3

LEMMA AloneIsEnough == TypeOK /\ AloneInv => ClaimsOnViews /\ CoreThenMv
<1> SUFFICES ASSUME TypeOK, AloneInv, ~overlapped PROVE ClaimsOnViews /\ CoreThenMv
  BY DEF ClaimsOnViews, CoreThenMv
<1>1. ASSUME RealIsDeclared PROVE ClaimsOnViews /\ CoreThenMv
  BY <1>1, DatedClaims DEF AloneInv, Alone, InTurn, ClaimsOnViews, CoreThenMv
<1>2. ASSUME ~RealIsDeclared PROVE ClaimsOnViews /\ CoreThenMv
  <2>1. NothingRefreshed
    BY <1>2 DEF AloneInv
  <2>2. ASSUME NEW v \in Views, Claimed(v) PROVE Current(v)
    <3>1. declared[v] = {}
      BY <2>1, <2>2 DEF NothingRefreshed, Claimed, Hash, NoHash
    <3>2. QED
      BY <3>1 DEF AloneInv
  <2>3. QED
    BY <2>1, <2>2 DEF ClaimsOnViews, CoreThenMv, NothingRefreshed
<1>3. QED
  BY <1>1, <1>2

LEMMA AloneInitially == Init => AloneInv
<1> SUFFICES ASSUME Init PROVE AloneInv
  OBVIOUS
<1>1. DOMAIN NoHash = {} /\ DOMAIN NoSnapshot = {}
  BY DEF NoHash, NoSnapshot
<1>2. \A c \in Commands, v \in Views : Progress(c, v)
  BY <1>1 DEF Init, Progress, Active
<1>3. InTurn
  BY DEF Init, InTurn
<1>4. (\A v \in Views : Dated(v)) /\ NothingRefreshed /\ \A v \in Views : Current(v)
  BY DEF Init, Dated, NothingRefreshed, Current
<1>5. QED
  BY <1>2, <1>3, <1>4 DEF AloneInv, Alone

\* A view whose catalogue line is empty is computed from nothing, or from views that
\* nothing refreshes.
LEMMA EmptyLineStep ==
  ASSUME TypeOK, AloneInv, [Next]_vars, NEW v \in Views, declared[v] = {},
         declared' = declared, RealIsDeclared \/ UNCHANGED view
  PROVE  Current(v)'
<1>1. Reads[v] \intersect Tables = {}
  BY ReadsAreDeclared
<1>2. view[v] = Computed(v, data)
  BY DEF AloneInv, Current
<1>3. CASE UNCHANGED view
  <2>1. \A t \in Tables : t \notin Reads[v]
    BY <1>1
  <2>2. Computed(v, data)' = Computed(v, data)
    BY <1>3, <2>1 DEF Computed
  <2>3. QED
    BY <1>2, <1>3, <2>2 DEF Current
<1>4. CASE RealIsDeclared /\ ~UNCHANGED view
  <2>1. Reads[v] = {}
    BY <1>4, ReadsAreDeclared
  <2>2. \A tables : Computed(v, tables) = [t \in Tables |-> {}] /\ Computed(v, tables)' = [t \in Tables |-> {}]
    BY <2>1 DEF Computed
  <2>3. PICK c \in Commands, w \in Views : Commit(c, w)
    BY <1>4, WhoWrites
  <2>4. view'[v] = [t \in Tables |-> {}]
    BY <1>2, <2>2, <2>3 DEF Commit, TypeOK
  <2>5. QED
    BY <2>2, <2>4 DEF Current
<1>5. QED
  BY <1>3, <1>4

\* A step that does not write the view or its row keeps what the row says.
LEMMA DatedKept ==
  ASSUME TypeOK, [Next]_vars, NEW v \in Views, Dated(v), declared' = declared,
         view'[v] = view[v], etat'[v] = etat[v]
  PROVE  Dated(v)'
<1>1. CASE etat[v] = NoHash
  BY <1>1 DEF Dated
<1>2. CASE etat[v] # NoHash
  <2>1. PICK tables \in [Tables -> Loads] : \A t \in Tables :
             /\ tables[t] <= data[t]
             /\ t \in declared[v] => NotAfter(etat[v][t], t, tables[t])
             /\ view[v][t] = (IF t \in Reads[v] THEN {tables[t]} ELSE {})
                             \union UNION {etat[v][w][t] : w \in Reads[v] \intersect Views}
    BY <1>2 DEF Dated
  <2>2. ASSUME NEW t \in Tables PROVE tables[t] <= data'[t]
    <3>1. tables[t] \in Nat /\ data[t] \in Nat /\ data'[t] \in Nat /\ data[t] <= data'[t]
      BY DataMovesForward, LoadsAreNumbers
    <3>2. QED
      BY <2>1, <3>1
  <2>3. QED
    BY <1>2, <2>1, <2>2 DEF Dated, NotAfter
<1>3. QED
  BY <1>1, <1>2

\* What a step that is not of this view keeps.
LEMMA ProgressKept ==
  ASSUME TypeOK, NEW c \in Commands, NEW v \in Views, Progress(c, v),
         declared' = declared, stage'[c][v] = stage[c][v], hash'[c][v] = hash[c][v],
         snapshot'[c][v] = snapshot[c][v], since'[c] = since[c],
         \A w \in Views : stage[c][w] = "done" => stage'[c][w] = "done" /\ view'[w] = view[w]
  PROVE  Progress(c, v)'
<1>1. DOMAIN hash[c][v] # {} => stage[c][v] \in Active
  <2>1. stage[c][v] \in Stages /\ HoldsWhatItUses(c, v)
    BY DEF TypeOK
  <2>2. DOMAIN NoHash = {}
    BY DEF NoHash
  <2>3. QED
    BY <2>1, <2>2 DEF HoldsWhatItUses, Stages, Active
<1>2. \A w \in DOMAIN hash[c][v] \intersect Views : view'[w] = view[w]
  BY <1>1 DEF Progress
<1>3. stage[c][v] = "done" => view'[v] = view[v]
  OBVIOUS
<1>4. QED
  BY <1>2, <1>3 DEF Progress, Shows

\* A view that waits, or whose step is over, has nothing in hand.
LEMMA ProgressCleared ==
  ASSUME NEW c \in Commands, NEW v \in Views, stage'[c][v] \in {"waiting", "failed"},
         hash'[c][v] = NoHash, DOMAIN snapshot'[c][v] = {}
  PROVE  Progress(c, v)'
  BY DEF Progress, Active, NoHash

LEMMA ProgressWaits ==
  ASSUME TypeOK', NEW c \in Commands, NEW v \in Views, stage'[c][v] = "waiting"
  PROVE  Progress(c, v)'
<1>1. HoldsWhatItUses(c, v)'
  BY DEF TypeOK
<1>2. hash'[c][v] = NoHash /\ DOMAIN snapshot'[c][v] = {}
  BY <1>1 DEF HoldsWhatItUses
<1>3. QED
  BY <1>2, ProgressCleared

\* A view shows what its refresh has read, which is not older than its beginning.
LEMMA ShownAfterCommit ==
  ASSUME TypeOK, RealIsDeclared, NEW c \in Commands, NEW v \in Views,
         \A w \in Views : Progress(c, w), stage[c][v] = "filled"
  PROVE  \A t \in Tables : \A n \in Computed(v, snapshot[c][v])[t] : since[c][t] <= n
<1> SUFFICES ASSUME NEW t \in Tables, NEW n \in Computed(v, snapshot[c][v])[t] PROVE since[c][t] <= n
  OBVIOUS
<1>1. n \in (IF t \in Reads[v] THEN {snapshot[c][v][t]} ELSE {})
             \union UNION {view[w][t] : w \in Reads[v] \intersect Views}
  BY DEF Computed
<1>2. CASE n = snapshot[c][v][t]
  BY <1>2 DEF TypeOK, HoldsWhatItUses, Progress
<1>3. ASSUME NEW w \in Reads[v] \intersect Views, n \in view[w][t] PROVE since[c][t] <= n
  <2>1. stage[c][w] = "done"
    BY ReadsAreDeclared DEF Progress, Active
  <2>2. QED
    BY <1>3, <2>1 DEF Progress, Shows
<1>4. QED
  BY <1>1, <1>2, <1>3

LEMMA ShownWhenUpToDate ==
  ASSUME TypeOK, RealIsDeclared, NEW c \in Commands, NEW v \in Views, Dated(v),
         declared[v] = {} => Current(v),
         \A w \in Views : Progress(c, w), UpToDate(c, v)
  PROVE  Shows(v, since[c])
<1>1. stage[c][v] = "hashing" /\ DOMAIN hash[c][v] = declared[v] /\ etat[v] = hash[c][v]
  BY DEF UpToDate, Hashed
<1>2. CASE etat[v] = NoHash
  <2>1. declared[v] = {} /\ Reads[v] = {}
    BY <1>1, <1>2, ReadsAreDeclared DEF NoHash
  <2>2. \A t \in Tables : view[v][t] = {}
    BY <2>1 DEF Current, Computed
  <2>3. QED
    BY <2>2 DEF Shows
<1>3. CASE etat[v] # NoHash
  <2>1. PICK tables \in [Tables -> Loads] : \A t \in Tables :
             /\ tables[t] <= data[t]
             /\ t \in declared[v] => NotAfter(etat[v][t], t, tables[t])
             /\ view[v][t] = (IF t \in Reads[v] THEN {tables[t]} ELSE {})
                             \union UNION {etat[v][w][t] : w \in Reads[v] \intersect Views}
    BY <1>3 DEF Dated
  <2>2. SUFFICES ASSUME NEW t \in Tables, NEW n \in view[v][t] PROVE since[c][t] <= n
    BY DEF Shows
  <2>3. CASE t \in Reads[v] /\ n = tables[t]
    <3>1. t \in declared[v]
      BY <2>3, ReadsAreDeclared
    <3>2. PICK k \in etat[v][t][t] : since[c][t] <= k
      BY <1>1, <3>1 DEF Progress
    <3>3. k <= tables[t]
      BY <2>1, <3>1, <3>2 DEF NotAfter
    <3>4. k \in Nat /\ tables[t] \in Nat /\ since[c][t] \in Nat
      <4>1. etat[v][t][t] \subseteq Nat
        BY <1>1, <3>1, PartValue
      <4>2. tables[t] \in Loads /\ since[c][t] \in Loads
        BY DEF TypeOK
      <4>3. QED
        BY <3>2, <4>1, <4>2, LoadsAreNumbers
    <3>5. QED
      BY <2>3, <3>2, <3>3, <3>4
  <2>4. ASSUME NEW w \in Reads[v] \intersect Views, n \in etat[v][w][t] PROVE since[c][t] <= n
    <3>1. w \in declared[v]
      BY ReadsAreDeclared
    <3>2. etat[v][w] = view[w] /\ stage[c][w] = "done"
      BY <1>1, <3>1 DEF Progress, Active
    <3>3. QED
      BY <2>4, <3>2 DEF Progress, Shows
  <2>5. QED
    BY <2>1, <2>3, <2>4
<1>4. QED
  BY <1>2, <1>3

\* The row a commit writes.
LEMMA DatedAfterCommit ==
  ASSUME TypeOK, TablesInv, RealIsDeclared, NEW c \in Commands, NEW v \in Views,
         Progress(c, v), Commit(c, v)
  PROVE  Dated(v)'
<1>1. /\ view'[v] = Computed(v, snapshot[c][v]) /\ etat'[v] = hash[c][v]
      /\ data' = data /\ declared' = declared
  BY DEF Commit, Record, TypeOK
<1>2. /\ DOMAIN hash[c][v] = declared[v] /\ DOMAIN snapshot[c][v] = Tables
      /\ snapshot[c][v] \in Parts(Tables, Loads)
  BY DEF Commit, TypeOK, HoldsWhatItUses
<1>3. snapshot[c][v] \in [Tables -> Loads]
  BY <1>2 DEF Parts
<1>4. ASSUME NEW t \in Tables
      PROVE  /\ snapshot[c][v][t] <= data[t]
             /\ t \in declared[v] => NotAfter(hash[c][v][t], t, snapshot[c][v][t])
  BY <1>2 DEF TablesInv, HashFirst
<1>5. \A w \in Reads[v] \intersect Views : hash[c][v][w] = view[w]
  BY <1>2, ReadsAreDeclared DEF Progress
<1>6. ASSUME NEW t \in Tables
      PROVE  view'[v][t] = (IF t \in Reads[v] THEN {snapshot[c][v][t]} ELSE {})
                           \union UNION {etat'[v][w][t] : w \in Reads[v] \intersect Views}
  <2>1. view'[v][t] = (IF t \in Reads[v] THEN {snapshot[c][v][t]} ELSE {})
                           \union UNION {view[w][t] : w \in Reads[v] \intersect Views}
    BY <1>1 DEF Computed
  <2>2. UNION {view[w][t] : w \in Reads[v] \intersect Views}
          = UNION {etat'[v][w][t] : w \in Reads[v] \intersect Views}
    BY <1>1, <1>5
  <2>3. QED
    BY <2>1, <2>2
<1>7. QED
  BY <1>1, <1>2, <1>3, <1>4, <1>6 DEF Dated, NotAfter

\* The catalogue is compiled in, and an overlap is not forgotten.
LEMMA RigidStep ==
  ASSUME [Next]_vars
  PROVE  /\ declared' = declared /\ (RealIsDeclared' <=> RealIsDeclared)
         /\ overlapped => overlapped'
<1>1. declared' = declared /\ (overlapped => overlapped')
  <2>1. CASE UNCHANGED vars
    BY <2>1 DEF vars, history
  <2>2. ASSUME NEW c \in Commands, NEW t \in Tables, Load(c, t)
        PROVE  declared' = declared /\ overlapped' = overlapped
    BY <2>2 DEF Load, history
  <2>3. ASSUME NEW c \in Commands, Refresh(c)
        PROVE  declared' = declared /\ (overlapped => overlapped')
    BY <2>3 DEF Refresh
  <2>4. ASSUME NEW c \in Commands, RefusesToRefresh(c) \/ Kill(c) \/ Return(c)
        PROVE  declared' = declared /\ overlapped' = overlapped
    BY <2>4 DEF RefusesToRefresh, Kill, Return, history
  <2>5. ASSUME NEW c \in Commands, NEW v \in Views,
               \/ Start(c, v) \/ Hashes(c, v) \/ UpToDate(c, v) \/ AskLock(c, v)
               \/ Lock(c, v) \/ Fill(c, v) \/ Commit(c, v) \/ Fail(c, v)
        PROVE  declared' = declared /\ overlapped' = overlapped
    BY <2>5 DEF Start, Hashes, HashSource, UpToDate, AskLock, Lock, Fill, Commit, Fail, history
  <2>6. QED
    BY <2>1, <2>2, <2>3, <2>4, <2>5 DEF Next, Proceeds
<1>2. QED
  BY <1>1 DEF RealIsDeclared

\* The steps of a view are those of a command that refreshes.
LEMMA WorksWhileRefreshing ==
  ASSUME TypeOK, NEW c \in Commands, NEW v \in Views, stage[c][v] # "waiting"
  PROVE  phase[c] = "refreshing"
  BY DEF TypeOK, HoldsWhatItUses

LEMMA NothingRefreshedStep ==
  ASSUME TypeOK, NothingRefreshed, ~RealIsDeclared, [Next]_vars
  PROVE  NothingRefreshed' /\ UNCHANGED view
<1>1. CASE UNCHANGED vars
  BY <1>1 DEF vars, NothingRefreshed
<1>2. ASSUME NEW c \in Commands, (\E t \in Tables : Load(c, t)) \/ RefusesToRefresh(c)
      PROVE  NothingRefreshed' /\ UNCHANGED view
  BY <1>2 DEF Load, RefusesToRefresh, NothingRefreshed, TypeOK
<1>3. ASSUME NEW c \in Commands, Refresh(c) \/ Kill(c) \/ Return(c)
      PROVE  FALSE
  BY <1>3 DEF Refresh, Kill, Return, NothingRefreshed
<1>4. ASSUME NEW c \in Commands, NEW v \in Views,
             \/ Start(c, v) \/ Hashes(c, v) \/ UpToDate(c, v) \/ AskLock(c, v)
             \/ Lock(c, v) \/ Fill(c, v) \/ Commit(c, v) \/ Fail(c, v)
      PROVE  FALSE
  <2>1. stage[c][v] = "waiting"
    BY WorksWhileRefreshing DEF NothingRefreshed
  <2>2. QED
    BY <1>4, <2>1 DEF Start, Hashes, HashSource, UpToDate, AskLock, Hashed,
                       Lock, Fill, Commit, Fail, Running, NothingRefreshed
<1>5. QED
  BY <1>1, <1>2, <1>3, <1>4 DEF Next, Proceeds

\* The step of one view leaves the progress of every other view, of its command and
\* of the others: those that read it have not begun, and no other command refreshes.
LEMMA OthersProgress ==
  ASSUME TypeOK, Alone, NEW c \in Commands, NEW v \in Views, NEW st, NEW h, NEW s,
         phase[c] = "refreshing", stage[c][v] # "done",
         stage' = [stage EXCEPT ![c][v] = st],
         hash' = [hash EXCEPT ![c][v] = h],
         snapshot' = [snapshot EXCEPT ![c][v] = s],
         declared' = declared, since' = since,
         \A x \in Views \ {v} : view'[x] = view[x],
         NEW d \in Commands, NEW w \in Views, ~(d = c /\ w = v)
  PROVE  Progress(d, w)'
<1>1. stage'[d][w] = stage[d][w] /\ hash'[d][w] = hash[d][w] /\ snapshot'[d][w] = snapshot[d][w]
  BY DEF TypeOK
<1>2. ASSUME NEW x \in Views, stage[d][x] = "done"
      PROVE  stage'[d][x] = "done" /\ view'[x] = view[x]
  <2>1. phase[d] = "refreshing"
    BY <1>2, WorksWhileRefreshing
  <2>2. d = c
    BY <2>1 DEF Alone, InTurn
  <2>3. x # v
    BY <1>2, <2>2
  <2>4. QED
    BY <1>2, <2>3 DEF TypeOK
<1>3. Progress(d, w)
  BY DEF Alone
<1>4. QED
  BY <1>1, <1>2, <1>3, ProgressKept

\* A step that writes no view and no row, and ends no refresh, leaves the commands in turn.
LEMMA TurnsKept ==
  ASSUME TypeOK, InTurn, [Next]_vars, phase' = phase, ended' = ended, since' = since, view' = view
  PROVE  InTurn'
<1>1. ASSUME NEW c \in Commands, NEW t \in Tables PROVE since[c][t] <= data'[t]
  <2>1. since[c][t] \in Nat /\ since[c][t] <= data[t]
    BY ZenonT(30), LoadsAreNumbers DEF TypeOK, InTurn
  <2>2. QED
    BY <2>1, DataMovesForward
<1>2. QED
  BY <1>1 DEF InTurn, Shows

\* The steps of a view that end nothing and write nothing.
LEMMA QuietStepAlone ==
  ASSUME TypeOK, RealIsDeclared, Alone, [Next]_vars, NEW c \in Commands, NEW v \in Views,
         Start(c, v) \/ Hashes(c, v) \/ AskLock(c, v) \/ Lock(c, v) \/ Fill(c, v)
  PROVE  Alone'
<1>1. UNCHANGED <<declared, data, view, etat, phase, ended, since>>
  BY DEF Start, Hashes, HashSource, AskLock, Lock, Fill, history
<1>2. InTurn'
  BY <1>1, TurnsKept DEF Alone
<1>3. ASSUME NEW w \in Views PROVE Dated(w)'
  BY <1>1, DatedKept DEF Alone
<1>4. phase[c] = "refreshing" /\ stage[c][v] # "done"
  <2>1. stage[c][v] # "done" /\ (stage[c][v] = "waiting" => Start(c, v))
    BY DEF Start, Hashes, HashSource, AskLock, Hashed, Lock, Fill
  <2>2. Start(c, v) => phase[c] = "refreshing"
    BY DEF Start
  <2>3. QED
    BY <2>1, <2>2, WorksWhileRefreshing
<1>5. \E st, h, s :
         /\ stage' = [stage EXCEPT ![c][v] = st]
         /\ hash' = [hash EXCEPT ![c][v] = h]
         /\ snapshot' = [snapshot EXCEPT ![c][v] = s]
  <2>1. /\ stage = [stage EXCEPT ![c][v] = stage[c][v]]
        /\ hash = [hash EXCEPT ![c][v] = hash[c][v]]
        /\ snapshot = [snapshot EXCEPT ![c][v] = snapshot[c][v]]
    BY DEF TypeOK
  <2>2. CASE Start(c, v) \/ Lock(c, v) \/ Fill(c, v)
    BY <2>1, <2>2 DEF Start, Lock, Fill, To
  <2>3. CASE Hashes(c, v)
    <3>1. PICK o \in Objects : HashSource(c, v, o)
      BY <2>3 DEF Hashes
    <3>2. \E h : hash' = [hash EXCEPT ![c][v] = h]
      <4>1. hash' = [hash EXCEPT ![c][v] =
              [p \in DOMAIN hash[c][v] \union {o} |-> IF p = o THEN Content(o) ELSE hash[c][v][p]]]
        BY <3>1 DEF HashSource, TypeOK
      <4>2. QED
        BY <4>1
    <3>3. stage' = stage /\ snapshot' = snapshot
      BY <3>1 DEF HashSource
    <3>4. /\ stage' = [stage EXCEPT ![c][v] = stage[c][v]]
          /\ snapshot' = [snapshot EXCEPT ![c][v] = snapshot[c][v]]
      BY <2>1, <3>3
    <3>5. QED
      BY <3>2, <3>4
  <2>4. CASE AskLock(c, v)
    BY <2>1, <2>4 DEF AskLock, To
  <2>5. QED
    BY <2>2, <2>3, <2>4
<1>6. Progress(c, v)'
  <2>1. Progress(c, v) /\ \A x \in Views : Progress(c, x)
    BY DEF Alone
  <2>2. \A x \in Views \ {v} : stage'[c][x] = stage[c][x]
    BY <1>5 DEF TypeOK
  <2>3. \A t \in Tables : since[c][t] <= data[t]
    BY DEF Alone, InTurn
  <2>4. CASE Start(c, v)
    <3>1. /\ \A w \in declared[v] \intersect Views : stage[c][w] = "done"
          /\ stage[c][v] = "waiting" /\ stage'[c][v] = "hashing"
          /\ hash'[c][v] = hash[c][v] /\ snapshot'[c][v] = snapshot[c][v]
      BY <2>4 DEF Start, Before, To, TypeOK
    <3>2. \A w \in declared[v] \intersect Views : stage'[c][w] = "done"
      BY <2>2, <3>1
    <3>3. QED
      BY <1>1, <2>1, <3>1, <3>2 DEF Progress, Active
  <2>5. ASSUME NEW o \in Objects, HashSource(c, v, o) PROVE Progress(c, v)'
    <3>1. /\ stage[c][v] = "hashing" /\ stage'[c][v] = "hashing" /\ stage' = stage
          /\ hash'[c][v] = [p \in DOMAIN hash[c][v] \union {o} |->
                              IF p = o THEN Content(o) ELSE hash[c][v][p]]
          /\ o \in declared[v] /\ snapshot'[c][v] = snapshot[c][v]
      BY <2>5 DEF HashSource, TypeOK
    <3>2. DOMAIN hash'[c][v] \subseteq declared[v]
      BY <2>1, <3>1 DEF Progress
    <3>3. \A w \in DOMAIN hash'[c][v] \intersect Views : hash'[c][v][w] = view[w]
      <4>1. \A w \in Views : Content(w) = view[w]
        BY MatviewAssumption DEF Content
      <4>2. QED
        BY <2>1, <3>1, <4>1 DEF Progress
    <3>4. \A t \in DOMAIN hash'[c][v] \intersect Tables : \E k \in hash'[c][v][t][t] : since[c][t] <= k
      <4>1. ASSUME NEW t \in DOMAIN hash'[c][v] \intersect Tables
            PROVE  \E k \in hash'[c][v][t][t] : since[c][t] <= k
        <5>1. CASE t = o
          <6>1. hash'[c][v][t][t] = {data[t]}
            BY <3>1, <5>1, ContentOfTable
          <6>2. QED
            BY <2>3, <6>1
        <5>2. CASE t # o
          <6>1. t \in DOMAIN hash[c][v] /\ hash'[c][v][t] = hash[c][v][t]
            BY <3>1, <5>2
          <6>2. QED
            BY <2>1, <6>1 DEF Progress
        <5>3. QED
          BY <5>1, <5>2
      <4>2. QED
        BY <4>1
    <3>5. QED
      BY <1>1, <2>1, <3>1, <3>2, <3>3, <3>4 DEF Progress, Active
  <2>6. CASE AskLock(c, v)
    <3>1. /\ stage[c][v] = "hashing" /\ stage'[c][v] = "asking"
          /\ hash'[c][v] = hash[c][v] /\ snapshot'[c][v] = data
      BY <2>6 DEF AskLock, Hashed, To, TypeOK
    <3>2. \A w \in declared[v] \intersect Views : stage'[c][w] = "done"
      BY <2>1, <2>2, <3>1 DEF Progress, Active
    <3>3. DOMAIN data = Tables
      BY DEF TypeOK
    <3>4. QED
      BY <1>1, <2>1, <2>3, <3>1, <3>2, <3>3 DEF Progress, Active
  <2>7. CASE Lock(c, v) \/ Fill(c, v)
    <3>1. /\ stage[c][v] \in Active /\ stage'[c][v] \in Active
          /\ stage'[c][v] # "done"
          /\ hash'[c][v] = hash[c][v] /\ snapshot'[c][v] = snapshot[c][v]
      BY <2>7 DEF Lock, Fill, To, TypeOK, Active
    <3>2. \A w \in declared[v] \intersect Views : stage'[c][w] = "done"
      BY <2>1, <2>2, <3>1 DEF Progress, Active
    <3>3. QED
      BY <1>1, <2>1, <3>1, <3>2 DEF Progress
  <2>8. QED
    BY <2>4, <2>5, <2>6, <2>7 DEF Hashes
<1>7. ASSUME NEW d \in Commands, NEW w \in Views PROVE Progress(d, w)'
  <2>1. PICK st, h, s :
           /\ stage' = [stage EXCEPT ![c][v] = st]
           /\ hash' = [hash EXCEPT ![c][v] = h]
           /\ snapshot' = [snapshot EXCEPT ![c][v] = s]
    BY <1>5
  <2>2. QED
    BY <1>1, <1>4, <1>6, <2>1, OthersProgress
<1>8. QED
  BY <1>2, <1>3, <1>7 DEF Alone

\* The steps of a view that end without writing.
LEMMA EndStepAlone ==
  ASSUME TypeOK, RealIsDeclared, Alone, [Next]_vars, NEW c \in Commands, NEW v \in Views,
         declared[v] = {} => Current(v),
         UpToDate(c, v) \/ Fail(c, v)
  PROVE  Alone'
<1>1. UNCHANGED <<declared, data, view, etat, phase, ended, since>>
  BY DEF UpToDate, Fail, history
<1>2. InTurn'
  BY <1>1, TurnsKept DEF Alone
<1>3. ASSUME NEW w \in Views PROVE Dated(w)'
  BY <1>1, DatedKept DEF Alone
<1>4. stage[c][v] # "done" /\ stage[c][v] # "waiting" /\ phase[c] = "refreshing"
  BY WorksWhileRefreshing DEF UpToDate, Hashed, Fail, Running
<1>5. PICK st \in {"done", "failed"} : Ends(c, v, st) /\ (st = "done" => UpToDate(c, v))
  BY DEF UpToDate, Fail
<1>6. Progress(c, v)'
  <2>1. stage'[c][v] = st /\ hash'[c][v] = NoHash /\ snapshot'[c][v] = NoSnapshot
    BY <1>5 DEF Ends, To, TypeOK
  <2>2. DOMAIN NoHash = {} /\ DOMAIN NoSnapshot = {}
    BY DEF NoHash, NoSnapshot
  <2>3. st = "done" => Shows(v, since[c])
    BY <1>5, ShownWhenUpToDate DEF Alone
  <2>4. stage'[c][v] \notin Active
    BY <2>1 DEF Active
  <2>5. QED
    BY <1>1, <2>1, <2>2, <2>3, <2>4 DEF Progress, Shows
<1>7. ASSUME NEW d \in Commands, NEW w \in Views PROVE Progress(d, w)'
  BY <1>1, <1>4, <1>5, <1>6, OthersProgress DEF Ends, To
<1>8. QED
  BY <1>2, <1>3, <1>7 DEF Alone

LEMMA CommitAlone ==
  ASSUME TypeOK, TablesInv, RealIsDeclared, Alone, [Next]_vars,
         NEW c \in Commands, NEW v \in Views, Commit(c, v)
  PROVE  Alone'
<1>1. UNCHANGED <<declared, data, phase, ended, since>> /\ stage[c][v] = "filled"
  BY DEF Commit, history
<1>2. /\ view'[v] = Computed(v, snapshot[c][v])
      /\ \A x \in Views \ {v} : view'[x] = view[x] /\ etat'[x] = etat[x]
  BY DEF Commit, TypeOK
<1>3. phase[c] = "refreshing"
  BY <1>1, WorksWhileRefreshing
<1>4. \A t \in Tables : \A n \in view'[v][t] : since[c][t] <= n
  BY <1>1, <1>2, ShownAfterCommit DEF Alone
<1>5. InTurn'
  <2>1. ASSUME NEW d \in Commands, ended[d] = "ok", NEW x \in Views PROVE Shows(x, since[d])'
    <3>1. CASE x # v
      BY <1>1, <1>2, <2>1, <3>1 DEF Alone, InTurn, Shows
    <3>2. CASE x = v
      <4>1. SUFFICES ASSUME NEW t \in Tables, NEW n \in view'[v][t] PROVE since[d][t] <= n
        BY <1>1, <3>2 DEF Shows
      <4>2. since[d][t] <= since[c][t] /\ since[c][t] <= n
        BY <1>3, <1>4, <2>1 DEF Alone, InTurn
      <4>3. since[d][t] \in Nat /\ since[c][t] \in Nat
        BY LoadsAreNumbers DEF TypeOK
      <4>4. n \in Nat
        <5>1. snapshot[c][v] \in [Tables -> Loads]
          BY <1>1 DEF TypeOK, HoldsWhatItUses, Parts
        <5>2. Computed(v, snapshot[c][v]) \in Contents
          BY <5>1, ComputedType
        <5>3. QED
          BY <1>2, <5>2, LoadsAreNumbers DEF Contents
      <4>5. QED
        BY <4>2, <4>3, <4>4
    <3>3. QED
      BY <3>1, <3>2
  <2>2. QED
    BY <1>1, <2>1 DEF Alone, InTurn
<1>6. ASSUME NEW w \in Views PROVE Dated(w)'
  <2>1. CASE w = v
    BY <2>1, DatedAfterCommit DEF Alone
  <2>2. CASE w # v
    BY <1>1, <1>2, <2>2, DatedKept DEF Alone
  <2>3. QED
    BY <2>1, <2>2
<1>7. PICK st \in {"done", "failed"} : Ends(c, v, st)
  BY DEF Commit
<1>8. Progress(c, v)'
  <2>1. stage'[c][v] = st /\ hash'[c][v] = NoHash /\ snapshot'[c][v] = NoSnapshot
    BY <1>7 DEF Ends, To, TypeOK
  <2>2. DOMAIN NoHash = {} /\ DOMAIN NoSnapshot = {}
    BY DEF NoHash, NoSnapshot
  <2>3. stage'[c][v] \notin Active
    BY <2>1 DEF Active
  <2>4. \A t \in Tables : \A n \in view'[v][t] : n >= since[c][t]
    <3>1. SUFFICES ASSUME NEW t \in Tables, NEW n \in view'[v][t] PROVE n >= since[c][t]
      OBVIOUS
    <3>2. QED
      BY <1>4
  <2>5. QED
    BY <1>1, <2>1, <2>2, <2>3, <2>4 DEF Progress, Shows
<1>9. ASSUME NEW d \in Commands, NEW w \in Views PROVE Progress(d, w)'
  BY <1>1, <1>2, <1>3, <1>7, <1>8, OthersProgress DEF Ends, To
<1>10. QED
  BY <1>5, <1>6, <1>9 DEF Alone

LEMMA LoadAlone ==
  ASSUME TypeOK, Alone, [Next]_vars, NEW c \in Commands, NEW t \in Tables, Load(c, t)
  PROVE  Alone'
<1>1. UNCHANGED <<declared, view, etat, phase, stage, hash, snapshot, ended, since>>
  BY DEF Load, step, history
<1>2. InTurn'
  BY <1>1, TurnsKept DEF Alone
<1>3. ASSUME NEW w \in Views PROVE Dated(w)'
  BY <1>1, DatedKept DEF Alone
<1>4. ASSUME NEW d \in Commands, NEW w \in Views PROVE Progress(d, w)'
  BY <1>1, ProgressKept DEF Alone
<1>5. QED
  BY <1>2, <1>3, <1>4 DEF Alone

\* The beginning and the end of a refresh, when no other one is under way.
LEMMA RefreshAlone ==
  ASSUME TypeOK, TypeOK', Alone, [Next]_vars, NEW c \in Commands,
         Refresh(c) \/ Return(c) \/ Kill(c), ~overlapped'
  PROVE  Alone'
<1>1. /\ UNCHANGED <<declared, data, view, etat>>
      /\ stage'[c] = [v \in Views |-> "waiting"]
      /\ \A d \in Commands \ {c} :
            /\ stage'[d] = stage[d] /\ hash'[d] = hash[d] /\ snapshot'[d] = snapshot[d]
            /\ phase'[d] = phase[d] /\ ended'[d] = ended[d] /\ since'[d] = since[d]
  BY DEF Refresh, Return, Kill, history, TypeOK
<1>2. ASSUME NEW w \in Views PROVE Dated(w)'
  BY <1>1, DatedKept DEF Alone
<1>3. ASSUME NEW d \in Commands, NEW w \in Views PROVE Progress(d, w)'
  <2>1. CASE d = c
    BY <1>1, <2>1, ProgressWaits
  <2>2. CASE d # c
    BY <1>1, <2>2, ProgressKept DEF Alone
  <2>3. QED
    BY <2>1, <2>2
<1>4. InTurn'
  <2>1. \A d \in Commands \ {c} : phase[d] = "loading"
    <3>1. CASE Refresh(c)
      BY <3>1 DEF Refresh, TypeOK
    <3>2. CASE Return(c) \/ Kill(c)
      <4>1. phase[c] = "refreshing"
        BY <3>2 DEF Return, Kill
      <4>2. QED
        BY <4>1 DEF Alone, InTurn, TypeOK
    <3>3. QED
      BY <3>1, <3>2
  <2>2. \A a, d \in Commands : phase'[a] = "refreshing" /\ phase'[d] = "refreshing" => a = d
    BY <1>1, <2>1
  <2>3. \A t \in Tables : since'[c][t] <= data[t]
    <3>1. CASE Refresh(c)
      <4>1. since'[c] = data /\ \A t \in Tables : data[t] \in Nat
        BY ZenonT(30), <3>1, LoadsAreNumbers DEF Refresh, TypeOK
      <4>2. QED
        BY <4>1
    <3>2. CASE Return(c) \/ Kill(c)
      BY <3>2 DEF Return, Kill, history, Alone, InTurn
    <3>3. QED
      BY <3>1, <3>2
  <2>4. \A d \in Commands : \A t \in Tables : since'[d][t] <= data'[t]
    BY <1>1, <2>3 DEF Alone, InTurn
  <2>5. ASSUME NEW a \in Commands, NEW d \in Commands,
               ended'[a] = "ok", phase'[d] = "refreshing", NEW t \in Tables
        PROVE  since'[a][t] <= since'[d][t]
    <3>1. d = c /\ Refresh(c)
      <4>1. d = c
        BY <1>1, <2>1, <2>5
      <4>2. Return(c) \/ Kill(c) => phase'[c] = "loading"
        BY DEF Return, Kill, TypeOK
      <4>3. QED
        BY <2>5, <4>1, <4>2
    <3>2. since'[c] = data /\ ended'[c] = "none"
      BY <3>1 DEF Refresh, TypeOK
    <3>3. a # c /\ since'[a] = since[a]
      BY <1>1, <2>5, <3>2
    <3>4. QED
      BY <3>1, <3>2, <3>3 DEF Alone, InTurn
  <2>6. ASSUME NEW a \in Commands, ended'[a] = "ok"
        PROVE  phase'[a] = "loading" /\ \A v \in Views : Shows(v, since[a])' 
    <3>1. CASE a # c
      BY <1>1, <2>6, <3>1 DEF Alone, InTurn, Shows
    <3>2. CASE a = c
      <4>1. CASE Refresh(c)
        BY <2>6, <3>2, <4>1 DEF Refresh, TypeOK
      <4>2. CASE Return(c)
        <5>1. Failed(c) = {} /\ Over(c) /\ phase'[c] = "loading" /\ since' = since
          BY <2>6, <3>2, <4>2 DEF Return, TypeOK, history
        <5>2. \A v \in Views : stage[c][v] = "done"
          BY <5>1 DEF Over
        <5>3. QED
          BY <1>1, <3>2, <5>1, <5>2 DEF Alone, Progress, Shows
      <4>3. CASE Kill(c)
        <5>1. ended[c] = "ok" /\ phase[c] = "refreshing"
          BY <2>6, <3>2, <4>3 DEF Kill
        <5>2. QED
          BY <5>1 DEF Alone, InTurn
      <4>4. QED
        BY <4>1, <4>2, <4>3
    <3>3. QED
      BY <3>1, <3>2
  <2>7. QED
    BY <2>2, <2>4, <2>5, <2>6 DEF InTurn
<1>5. QED
  BY <1>2, <1>3, <1>4 DEF Alone

LEMMA AloneStep == TypeOK /\ TypeOK' /\ TablesInv /\ AloneInv /\ [Next]_vars => AloneInv'
<1> SUFFICES ASSUME TypeOK, TypeOK', TablesInv, AloneInv, [Next]_vars PROVE AloneInv'
  OBVIOUS
<1>1. declared' = declared /\ (RealIsDeclared' <=> RealIsDeclared) /\ (overlapped => overlapped')
  BY RigidStep
<1>2. ~RealIsDeclared => NothingRefreshed' /\ UNCHANGED view
  BY NothingRefreshedStep DEF AloneInv
<1>3. ASSUME NEW v \in Views, declared'[v] = {} PROVE Current(v)'
  BY <1>1, <1>2, <1>3, EmptyLineStep
<1>4. ASSUME RealIsDeclared, ~overlapped' PROVE Alone'
  <2>1. Alone /\ \A v \in Views : declared[v] = {} => Current(v)
    BY <1>1, <1>4 DEF AloneInv
  <2>2. CASE UNCHANGED vars
    BY <2>1, <2>2 DEF vars, step, history, Alone, InTurn, Dated, Progress, Shows
  <2>3. ASSUME NEW c \in Commands, NEW t \in Tables, Load(c, t) PROVE Alone'
    BY <2>1, <2>3, LoadAlone
  <2>4. ASSUME NEW c \in Commands, Refresh(c) \/ Return(c) \/ Kill(c) PROVE Alone'
    BY <1>4, <2>1, <2>4, RefreshAlone
  <2>5. ASSUME NEW c \in Commands, RefusesToRefresh(c) PROVE FALSE
    BY <1>4, <2>5 DEF RefusesToRefresh
  <2>6. ASSUME NEW c \in Commands, NEW v \in Views,
               Start(c, v) \/ Hashes(c, v) \/ AskLock(c, v) \/ Lock(c, v) \/ Fill(c, v)
        PROVE  Alone'
    BY <1>4, <2>1, <2>6, QuietStepAlone
  <2>7. ASSUME NEW c \in Commands, NEW v \in Views, UpToDate(c, v) \/ Fail(c, v)
        PROVE  Alone'
    BY <1>4, <2>1, <2>7, EndStepAlone
  <2>8. ASSUME NEW c \in Commands, NEW v \in Views, Commit(c, v) PROVE Alone'
    BY <1>4, <2>1, <2>8, CommitAlone
  <2>9. QED
    BY <2>2, <2>3, <2>4, <2>5, <2>6, <2>7, <2>8 DEF Next, Proceeds
<1>5. QED
  BY <1>1, <1>2, <1>3, <1>4 DEF AloneInv

\* What holds of all the refreshes, those of several commands at once included, and
\* what holds as long as there is one at a time: the latter needs the former for the
\* order in which a hash and a snapshot are taken.
RefreshInv == TypeOK /\ TablesInv /\ AloneInv

\* Every step keeps them: a load, a command's end, its failure or kill included.
THEOREM RefreshInductive == Spec => []RefreshInv
<1>1. Init => RefreshInv
  BY TypeInitially, TablesInvInitially, AloneInitially DEF RefreshInv
<1>2. RefreshInv /\ [Next]_vars => RefreshInv'
  BY TypeStep, TablesStep, AloneStep DEF RefreshInv
<1>3. QED
  BY <1>1, <1>2, PTL DEF Spec

\* As long as two commands have not refreshed at once, mv.etat never claims for a
\* view, be it computed from other views, a freshness that it has not reached.
THEOREM ViewClaimsAreTrue == Spec => []ClaimsOnViews
<1>1. RefreshInv => ClaimsOnViews
  BY AloneIsEnough DEF RefreshInv
<1>2. QED
  BY <1>1, RefreshInductive, PTL

\* As long as two commands have not refreshed at once, a command that has ended well
\* leaves, now and later, no view that shows less than what it had loaded.
THEOREM CoreBeforeViews == Spec => []CoreThenMv
<1>1. RefreshInv => CoreThenMv
  BY AloneIsEnough DEF RefreshInv
<1>2. QED
  BY <1>1, RefreshInductive, PTL
===============================================================================

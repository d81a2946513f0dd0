---------------------------- MODULE ArchiveProofs ----------------------------
(***************************************************************************)
(* Proofs about Archive, for any number of goroutines, URLs, contents, days *)
(* and attempts: what Fetch returns can be read, was served, and is named by *)
(* raw.document only once its file is there. Then about Download: what is    *)
(* sealed of one version is all of it, and failures are earned.             *)
(***************************************************************************)
EXTENDS Archive, Download, SequenceTheorems, TLAPS

\* A 304 is about the content of the row: its ETag is the one of its document.
RowIsDated(row) == row.etag \in {NoContent, row.doc}
Sealed(c) == c \in Contents /\ KeyOf(c) \in files
Readable(outcome) == outcome.path \in files /\ outcome.path.sha = outcome.doc

\* What a call of Fetch knows at each of its steps, and that no other call, no midnight
\* and no publication makes untrue before it uses it.
CallInv(w) ==
    LET call == worker[w] IN
    /\ call.pc # "idle" => call.url \in Urls /\ server[call.url] \in served[w]
    /\ call.pc \in {"get", "attest"} =>
          call.prev = NoRow \/ (Sealed(call.prev.doc) /\ RowIsDated(call.prev))
    /\ call.pc = "attest" => call.prev.etag \in served[w]
    /\ call.pc \in {"place", "document", "retrieval"} => call.got \in served[w]
    /\ call.pc \in {"document", "retrieval"} => call.out.doc = call.got
    /\ call.pc \in {"document", "retrieval", "done", "replayed"} => Readable(call.out)
    /\ call.pc = "done" => call.out.doc \in served[w]

DatabaseInv ==
    /\ \A c \in Contents : docs[c] = NoPath \/ docs[c].sha = c
    /\ \A u \in Urls : RowIsDated(latest[u])
    /\ \A u \in Urls : prefetched[u].doc # NoContent => Readable(prefetched[u])

ArchiveInv == TypeOK /\ DatabaseInv /\ \A w \in Workers : CallInv(w)

LEMMA Values ==
  /\ NoPath \notin Paths /\ NoRow \in Rows /\ NoResult \in Results /\ Idle \in Calls
  /\ \A p \in Paths : p.sha \in Contents
  /\ NoContent \notin Contents
<1>1. NoPath \notin Paths /\ \A p \in Paths : p.sha \in Contents
  BY DEF NoPath, Paths
<1>2. NoRow \in Rows /\ NoResult \in Results
  BY DEF NoRow, Rows, NoResult, Results
<1>3. Idle \in Calls
  BY <1>2, ArchiveAssumption DEF Idle, Calls, NoUrl
<1>4. QED
  BY <1>1, <1>2, <1>3, ArchiveAssumption

LEMMA ArchiveInit == Init => ArchiveInv
<1> SUFFICES ASSUME Init PROVE ArchiveInv
  OBVIOUS
<1>1. TypeOK
  BY Values, ArchiveAssumption DEF Init, TypeOK
<1>2. DatabaseInv
  BY DEF Init, DatabaseInv, RowIsDated, NoRow, NoResult
<1>3. \A w \in Workers : worker[w].pc = "idle"
  BY DEF Init, Idle
<1>4. QED
  BY <1>1, <1>2, <1>3 DEF ArchiveInv, CallInv

\* While a call is under way, files are only added and a key is only given once.
LEMMA CallKept ==
  ASSUME ArchiveInv, NEW v \in Workers, worker'[v] = worker[v], served[v] \subseteq served'[v],
         worker[v].pc # "idle" => server'[worker[v].url] \in served'[v],
         worker[v].pc # "idle" => files \subseteq files',
         \A c \in Contents : docs[c] # NoPath => docs'[c] = docs[c]
  PROVE  CallInv(v)'
<1>1. CallInv(v) /\ files \subseteq Paths
  BY DEF ArchiveInv, TypeOK
<1>2. CASE worker[v].pc = "idle"
  BY <1>2 DEF CallInv
<1>3. CASE worker[v].pc # "idle"
  <2>1. \A c : Sealed(c) => Sealed(c)'
    BY <1>1, <1>3, Values DEF Sealed, KeyOf
  <2>2. \A r : Readable(r) => r.path \in files' /\ r.path.sha = r.doc
    BY <1>3 DEF Readable
  <2>3. QED
    BY <1>1, <1>3, <2>1, <2>2 DEF CallInv, Readable, RowIsDated
<1>4. QED
  BY <1>2, <1>3

\* The same for what the other goroutines of a step of w know.
LEMMA OthersKept ==
  ASSUME ArchiveInv, NEW w \in Workers, server' = server, files \subseteq files',
         \A c \in Contents : docs[c] # NoPath => docs'[c] = docs[c],
         \A v \in Workers \ {w} : worker'[v] = worker[v] /\ served'[v] = served[v],
         CallInv(w)'
  PROVE  \A v \in Workers : CallInv(v)'
<1> SUFFICES ASSUME NEW v \in Workers \ {w} PROVE CallInv(v)'
  OBVIOUS
<1>1. worker[v].pc # "idle" => server[worker[v].url] \in served[v]
  BY DEF ArchiveInv, CallInv
<1>2. QED
  BY <1>1, CallKept

\* The row of raw.document, inserted or there already.
LEMMA RegisterKeeps ==
  ASSUME ArchiveInv, NEW w \in Workers, At(w, "document"), Register(w)
  PROVE  /\ docs' \in [Contents -> Paths \union {NoPath}]
         /\ \A c \in Contents : docs[c] # NoPath => docs'[c] = docs[c]
         /\ \A c \in Contents : docs[c] = NoPath /\ docs'[c] # NoPath =>
               docs'[c].sha = c /\ docs'[c] \in files
<1>1. /\ worker[w].got \in Contents /\ Readable(worker[w].out)
      /\ worker[w].out.doc = worker[w].got
  BY DEF ArchiveInv, CallInv, At, TypeOK
<1>2. docs \in [Contents -> Paths \union {NoPath}] /\ files \subseteq Paths
  BY DEF ArchiveInv, TypeOK
<1>3. docs' = [docs EXCEPT ![worker[w].got] = IF @ = NoPath THEN worker[w].out.path ELSE @]
  BY DEF Register, KeyInserted
<1>4. QED
  BY <1>1, <1>2, <1>3 DEF Readable

-----------------------------------------------------------------------------
(* One lemma per step of a call                                            *)

\* What a step of one goroutine shows of it is enough: the others are as before.
LEMMA StepOfOne ==
  ASSUME ArchiveInv, NEW w \in Workers, NEW call \in Calls, NEW seen \in SUBSET Contents,
         worker' = [worker EXCEPT ![w] = call], served' = [served EXCEPT ![w] = seen],
         UNCHANGED outside, files \subseteq files', files' \subseteq Paths,
         docs' \in [Contents -> Paths \union {NoPath}], latest' \in [Urls -> Rows],
         prefetched' \in [Urls -> Results],
         \A c \in Contents : docs[c] # NoPath => docs'[c] = docs[c],
         DatabaseInv', CallInv(w)'
  PROVE  ArchiveInv'
<1>1. TypeOK'
  BY DEF ArchiveInv, TypeOK, outside
<1>2. \A v \in Workers \ {w} : worker'[v] = worker[v] /\ served'[v] = served[v]
  BY DEF ArchiveInv, TypeOK
<1>3. server' = server
  BY DEF outside
<1>4. \A v \in Workers : CallInv(v)'
  BY <1>2, <1>3, OthersKept
<1>5. QED
  BY <1>1, <1>4 DEF ArchiveInv

LEMMA CallStep ==
  ASSUME ArchiveInv, NEW w \in Workers, Call(w)
  PROVE  ArchiveInv'
<1>1. PICK u \in Urls, ahead \in BOOLEAN :
         /\ worker' = [worker EXCEPT ![w] = [Idle EXCEPT !.pc = "start", !.url = u, !.ahead = ahead, !.try = 1]]
         /\ served' = [served EXCEPT ![w] = {server[u]}]
  BY DEF Call
<1> DEFINE call == [Idle EXCEPT !.pc = "start", !.url = u, !.ahead = ahead, !.try = 1]
<1>2. call \in Calls /\ call.pc = "start" /\ call.url = u
  <2>1. 1 \in 0..MaxTries
    BY ArchiveAssumption
  <2>2. Idle \in Calls
    BY Values
  <2>3. QED
    BY <2>1, <2>2 DEF Calls
<1>3. server[u] \in Contents /\ UNCHANGED <<outside, files, docs, latest, prefetched>>
  BY DEF Call, ArchiveInv, TypeOK
<1>4. worker'[w] = call /\ served'[w] = {server[u]} /\ server' = server
  BY <1>1, <1>3 DEF ArchiveInv, TypeOK, outside
<1>5. CallInv(w)'
  BY <1>2, <1>4 DEF CallInv
<1>6. DatabaseInv'
  BY <1>3 DEF ArchiveInv, DatabaseInv, Readable, RowIsDated
<1>7. QED
  <2>1. {server[u]} \in SUBSET Contents
    BY <1>3
  <2>2. /\ files' \subseteq Paths /\ files \subseteq files'
        /\ docs' \in [Contents -> Paths \union {NoPath}] /\ latest' \in [Urls -> Rows]
        /\ prefetched' \in [Urls -> Results]
    BY <1>3 DEF ArchiveInv, TypeOK
  <2> HIDE DEF call
  <2>3. worker' = [worker EXCEPT ![w] = call]
    BY <1>1 DEF call
  <2>4. QED
    BY <1>1, <1>2, <1>3, <1>5, <1>6, <2>1, <2>2, <2>3, StepOfOne

\* Three steps that only read: the lookup of the last row and the two answers.
LEMMA ReadStep ==
  ASSUME ArchiveInv, NEW w \in Workers, Lookup(w) \/ GetNotModified(w) \/ GetBody(w)
  PROVE  ArchiveInv'
<1> DEFINE call == worker[w]
<1>1. /\ UNCHANGED <<outside, files, docs, latest, prefetched, served>>
      /\ call \in Calls /\ call.pc # "idle" /\ call.url \in Urls /\ server[call.url] \in served[w]
      /\ served[w] \in SUBSET Contents /\ latest[call.url] \in Rows /\ RowIsDated(latest[call.url])
      /\ served' = [served EXCEPT ![w] = served[w]]
  BY DEF Lookup, GetNotModified, GetBody, At, ArchiveInv, TypeOK, CallInv, DatabaseInv
<1>2. DatabaseInv'
  BY <1>1 DEF ArchiveInv, DatabaseInv, Readable, RowIsDated
<1>3. \E new \in Calls : worker' = [worker EXCEPT ![w] = new] /\ CallInv(w)'
  <2>1. CASE Lookup(w)
    <3> DEFINE row == IF Usable(latest[call.url]) THEN latest[call.url] ELSE NoRow
               new == [call EXCEPT !.pc = "get", !.prev = row]
    <3>1. new \in Calls /\ new.pc = "get" /\ new.url = call.url /\ new.prev = row
      BY <1>1, Values DEF Calls
    <3>2. worker' = [worker EXCEPT ![w] = new]
      BY <2>1 DEF Lookup, Url, ArchiveInv, TypeOK, Calls
    <3>3. worker'[w] = new
      BY <3>2 DEF ArchiveInv, TypeOK
    <3>4. row = NoRow \/ (Sealed(row.doc) /\ RowIsDated(row))
      BY <1>1 DEF Usable, Sealed, Rows
    <3> HIDE DEF row, new
    <3>5. CallInv(w)'
      BY <1>1, <3>1, <3>3, <3>4 DEF CallInv, outside, Sealed, KeyOf, RowIsDated
    <3>6. QED
      BY <3>1, <3>2, <3>5
  <2>2. CASE GetNotModified(w)
    <3> DEFINE new == [call EXCEPT !.pc = "attest"]
    <3>1. new \in Calls /\ new.pc = "attest" /\ new.url = call.url /\ new.prev = call.prev
      BY <1>1 DEF Calls
    <3>2. worker' = [worker EXCEPT ![w] = new] /\ worker'[w] = new
      BY <2>2 DEF GetNotModified, Goto, ArchiveInv, TypeOK
    <3>3. /\ call.prev.etag \in served[w]
          /\ call.prev = NoRow \/ (Sealed(call.prev.doc) /\ RowIsDated(call.prev))
      BY <1>1, <2>2 DEF GetNotModified, At, Url, ArchiveInv, CallInv
    <3> HIDE DEF new
    <3>4. CallInv(w)'
      BY <1>1, <3>1, <3>2, <3>3 DEF CallInv, outside, Sealed, KeyOf, RowIsDated
    <3>5. QED
      BY <3>1, <3>2, <3>4
  <2>3. CASE GetBody(w)
    <3> DEFINE new == [call EXCEPT !.pc = "place", !.got = server[call.url], !.prev = NoRow]
    <3>1. new \in Calls /\ new.pc = "place" /\ new.url = call.url /\ new.got = server[call.url]
      BY <1>1, Values DEF Calls
    <3>2. worker' = [worker EXCEPT ![w] = new]
      BY <2>3 DEF GetBody, Url, ArchiveInv, TypeOK, Calls
    <3>3. worker'[w] = new
      BY <3>2 DEF ArchiveInv, TypeOK
    <3> HIDE DEF new
    <3>4. CallInv(w)'
      BY <1>1, <3>1, <3>3 DEF CallInv, outside
    <3>5. QED
      BY <3>1, <3>2, <3>4
  <2>4. QED
    BY <2>1, <2>2, <2>3
<1>4. QED
  BY <1>1, <1>2, <1>3, StepOfOne DEF ArchiveInv, TypeOK

\* The two steps that only write a row of raw.retrieval and give the result: the
\* replay of a prefetched document and the row of a 304.
LEMMA EndsIsACall ==
  ASSUME ArchiveInv, NEW w \in Workers, worker[w].pc # "idle", NEW step \in {"done", "replayed"},
         NEW out \in Results, Ends(w, step, out)
  PROVE  \E new \in Calls : /\ worker' = [worker EXCEPT ![w] = new] /\ worker'[w] = new
                            /\ new.pc = step /\ new.url = worker[w].url /\ new.out = out
<1> DEFINE new == [Idle EXCEPT !.pc = step, !.url = worker[w].url, !.ahead = worker[w].ahead, !.out = out]
<1>1. Idle \in Calls /\ worker[w] \in Calls
  BY Values DEF ArchiveInv, TypeOK
<1>2. new \in Calls /\ new.pc = step /\ new.url = worker[w].url /\ new.out = out
  BY <1>1 DEF Calls
<1>3. worker' = [worker EXCEPT ![w] = new] /\ worker'[w] = new
  BY DEF Ends, ArchiveInv, TypeOK
<1>4. QED
  BY <1>2, <1>3

LEMMA InsertKeeps ==
  ASSUME ArchiveInv, NEW w \in Workers, Url(w) \in Urls,
         NEW doc \in Contents \union {NoContent}, NEW etag \in Contents \union {NoContent},
         RowIsDated([doc |-> doc, etag |-> etag]), Insert(w, doc, etag)
  PROVE  latest' \in [Urls -> Rows] /\ \A u \in Urls : RowIsDated(latest'[u])
<1> DEFINE row == [doc |-> doc, etag |-> etag]
<1>1. row \in Rows /\ latest' = [latest EXCEPT ![Url(w)] = row] /\ RowIsDated(row)
  BY DEF Rows, Insert
<1>2. latest \in [Urls -> Rows] /\ \A u \in Urls : RowIsDated(latest[u])
  BY DEF ArchiveInv, TypeOK, DatabaseInv
<1> HIDE DEF row
<1>3. latest' \in [Urls -> Rows] /\ \A u \in Urls : latest'[u] \in {row, latest[u]}
  BY <1>1, <1>2
<1>4. QED
  BY <1>1, <1>2, <1>3

LEMMA AnsweredStep ==
  ASSUME ArchiveInv, NEW w \in Workers, Replay(w) \/ Attest(w)
  PROVE  ArchiveInv'
<1>1. /\ UNCHANGED <<outside, files, docs, prefetched, served>>
      /\ worker[w] \in Calls /\ worker[w].pc # "idle" /\ worker[w].url \in Urls /\ Url(w) \in Urls
      /\ server[worker[w].url] \in served[w]
      /\ served[w] \in SUBSET Contents /\ served' = [served EXCEPT ![w] = served[w]]
  BY DEF Replay, Attest, At, Url, ArchiveInv, TypeOK, CallInv
<1>2. \E step \in {"done", "replayed"}, out \in Results :
         /\ Ends(w, step, out) /\ Readable(out)
         /\ step = "done" => out.doc \in served[w]
         /\ latest' \in [Urls -> Rows] /\ \A u \in Urls : RowIsDated(latest'[u])
  <2>1. CASE Replay(w)
    <3> DEFINE out == prefetched[Url(w)]
    <3>1. out \in Results /\ Readable(out) /\ out.doc \in Contents \union {NoContent}
      BY <1>1, <2>1 DEF Replay, ArchiveInv, TypeOK, DatabaseInv, Results
    <3>2. RowIsDated([doc |-> out.doc, etag |-> NoContent])
      BY DEF RowIsDated
    <3>3. Insert(w, out.doc, NoContent) /\ Ends(w, "replayed", out)
      BY <2>1 DEF Replay, ReplayEtag
    <3>4. latest' \in [Urls -> Rows] /\ \A u \in Urls : RowIsDated(latest'[u])
      BY <1>1, <3>1, <3>2, <3>3, InsertKeeps
    <3>5. QED
      BY <3>1, <3>3, <3>4
  <2>2. CASE Attest(w)
    <3> DEFINE row == worker[w].prev
               out == [doc |-> row.doc, path |-> KeyOf(row.doc)]
    <3>1. /\ row = NoRow \/ (Sealed(row.doc) /\ RowIsDated(row))
          /\ row.etag \in served[w] /\ row \in Rows
      BY <1>1, <2>2 DEF Attest, At, ArchiveInv, CallInv, Calls
    <3>2. row.etag \in Contents /\ row.etag # NoContent
      BY <1>1, <3>1, Values
    <3>3. Sealed(row.doc) /\ RowIsDated(row) /\ row.doc = row.etag
      BY <3>1, <3>2 DEF NoRow, RowIsDated
    <3>4. row.doc \in Contents /\ docs[row.doc] \in files /\ docs[row.doc] \in Paths
      BY <3>3 DEF Sealed, KeyOf, ArchiveInv, TypeOK
    <3>5. docs[row.doc].sha = row.doc
      BY <3>4, Values DEF ArchiveInv, DatabaseInv
    <3>6. out \in Results /\ Readable(out) /\ out.doc \in served[w]
      BY <3>1, <3>3, <3>4, <3>5 DEF Results, Readable, KeyOf
    <3>7. RowIsDated([doc |-> row.doc, etag |-> row.etag])
      BY <3>3 DEF RowIsDated
    <3>8. Insert(w, row.doc, row.etag) /\ Ends(w, "done", out)
      BY <2>2 DEF Attest
    <3>9. latest' \in [Urls -> Rows] /\ \A u \in Urls : RowIsDated(latest'[u])
      BY <1>1, <3>2, <3>3, <3>7, <3>8, InsertKeeps
    <3>10. QED
      BY <3>6, <3>8, <3>9
  <2>3. QED
    BY <2>1, <2>2
<1>3. PICK step \in {"done", "replayed"}, out \in Results :
         /\ Ends(w, step, out) /\ Readable(out)
         /\ step = "done" => out.doc \in served[w]
         /\ latest' \in [Urls -> Rows] /\ \A u \in Urls : RowIsDated(latest'[u])
  BY <1>2
<1>4. PICK new \in Calls : /\ worker' = [worker EXCEPT ![w] = new] /\ worker'[w] = new
                           /\ new.pc = step /\ new.url = worker[w].url /\ new.out = out
  BY <1>1, <1>3, EndsIsACall
<1>5. CallInv(w)'
  BY <1>1, <1>3, <1>4 DEF CallInv, Readable, outside
<1>6. DatabaseInv'
  BY <1>1, <1>3 DEF ArchiveInv, DatabaseInv, Readable
<1>7. QED
  BY <1>1, <1>3, <1>4, <1>5, <1>6, StepOfOne DEF ArchiveInv, TypeOK

\* The rename, the row of raw.document and the row of raw.retrieval.
LEMMA PlaceStep ==
  ASSUME ArchiveInv, NEW w \in Workers, Place(w)
  PROVE  ArchiveInv'
<1> DEFINE path == PathNow(worker[w].got)
           out == [doc |-> worker[w].got, path |-> path]
           new == [worker[w] EXCEPT !.pc = "document", !.out = out]
<1>1. /\ UNCHANGED <<outside, docs, latest, prefetched, served>>
      /\ worker[w] \in Calls /\ worker[w].url \in Urls /\ worker[w].got \in served[w]
      /\ server[worker[w].url] \in served[w]
      /\ served[w] \in SUBSET Contents /\ served' = [served EXCEPT ![w] = served[w]]
  BY DEF Place, At, ArchiveInv, TypeOK, CallInv
<1>2. path \in Paths /\ path.sha = worker[w].got
  BY <1>1 DEF PathNow, Paths, ArchiveInv, TypeOK
<1>3. files' = files \union {path} /\ files' \subseteq Paths
  BY <1>2 DEF Place, ArchiveInv, TypeOK
<1> HIDE DEF path
<1>4. out \in Results /\ out.doc = worker[w].got /\ out.path = path
  BY <1>1, <1>2 DEF Results
<1>5. worker' = [worker EXCEPT ![w] = new]
  BY DEF Place, ArchiveInv, TypeOK, Calls, path
<1> HIDE DEF out
<1>6. new \in Calls /\ new.pc = "document" /\ new.url = worker[w].url /\ new.got = worker[w].got
      /\ new.out = out
  BY <1>1, <1>4 DEF Calls
<1>7. worker'[w] = new
  BY <1>5 DEF ArchiveInv, TypeOK
<1> HIDE DEF new
<1>8. CallInv(w)'
  BY <1>1, <1>2, <1>3, <1>4, <1>6, <1>7 DEF CallInv, Readable, outside
<1>9. DatabaseInv'
  BY <1>1, <1>3 DEF ArchiveInv, DatabaseInv, Readable
<1>10. QED
  BY <1>1, <1>3, <1>5, <1>6, <1>8, <1>9, StepOfOne DEF ArchiveInv, TypeOK

LEMMA InsertDocumentStep ==
  ASSUME ArchiveInv, NEW w \in Workers, InsertDocument(w)
  PROVE  ArchiveInv'
<1> DEFINE new == [worker[w] EXCEPT !.pc = "retrieval"]
<1>1. /\ UNCHANGED <<outside, files, latest, prefetched, served>>
      /\ worker[w] \in Calls /\ worker[w].url \in Urls /\ worker[w].got \in served[w]
      /\ server[worker[w].url] \in served[w] /\ Readable(worker[w].out)
      /\ worker[w].out.doc = worker[w].got
      /\ served[w] \in SUBSET Contents /\ served' = [served EXCEPT ![w] = served[w]]
  BY DEF InsertDocument, At, ArchiveInv, TypeOK, CallInv
<1>2. /\ docs' \in [Contents -> Paths \union {NoPath}]
      /\ \A c \in Contents : docs[c] # NoPath => docs'[c] = docs[c]
      /\ \A c \in Contents : docs[c] = NoPath /\ docs'[c] # NoPath => docs'[c].sha = c
  BY RegisterKeeps DEF InsertDocument
<1>3. new \in Calls /\ new.pc = "retrieval" /\ new.url = worker[w].url /\ new.got = worker[w].got
      /\ new.out = worker[w].out
  BY <1>1 DEF Calls
<1>4. worker' = [worker EXCEPT ![w] = new] /\ worker'[w] = new
  BY DEF InsertDocument, Goto, ArchiveInv, TypeOK
<1> HIDE DEF new
<1>5. CallInv(w)'
  BY <1>1, <1>3, <1>4 DEF CallInv, Readable, outside
<1>6. DatabaseInv'
  BY <1>1, <1>2 DEF ArchiveInv, DatabaseInv, Readable
<1>7. QED
  BY <1>1, <1>2, <1>3, <1>4, <1>5, <1>6, StepOfOne DEF ArchiveInv, TypeOK

LEMMA InsertRetrievalStep ==
  ASSUME ArchiveInv, NEW w \in Workers, InsertRetrieval(w)
  PROVE  ArchiveInv'
<1> DEFINE got == worker[w].got
           out == worker[w].out
<1>1. /\ UNCHANGED <<outside, files, docs, prefetched, served>>
      /\ worker[w] \in Calls /\ worker[w].pc # "idle" /\ worker[w].url \in Urls /\ Url(w) \in Urls
      /\ server[worker[w].url] \in served[w] /\ got \in served[w]
      /\ out \in Results /\ out.doc = got /\ Readable(out)
      /\ served[w] \in SUBSET Contents /\ served' = [served EXCEPT ![w] = served[w]]
  BY DEF InsertRetrieval, At, Url, ArchiveInv, TypeOK, CallInv, Calls
<1>2. RowIsDated([doc |-> got, etag |-> got])
  BY DEF RowIsDated
<1>3. Insert(w, got, got) /\ Ends(w, "done", out)
  BY DEF InsertRetrieval
<1>4. latest' \in [Urls -> Rows] /\ \A u \in Urls : RowIsDated(latest'[u])
  BY <1>1, <1>2, <1>3, InsertKeeps
<1>5. PICK new \in Calls : /\ worker' = [worker EXCEPT ![w] = new] /\ worker'[w] = new
                           /\ new.pc = "done" /\ new.url = worker[w].url /\ new.out = out
  BY <1>1, <1>3, EndsIsACall
<1>6. CallInv(w)'
  BY <1>1, <1>5 DEF CallInv, Readable, outside
<1>7. DatabaseInv'
  BY <1>1, <1>4 DEF ArchiveInv, DatabaseInv, Readable
<1>8. QED
  BY <1>1, <1>4, <1>5, <1>6, <1>7, StepOfOne DEF ArchiveInv, TypeOK

\* An error of fetchOnce: what the database may have committed nevertheless, then one
\* more attempt or the end of the call.
LEMMA FailsStep ==
  ASSUME ArchiveInv, NEW w \in Workers, Fails(w)
  PROVE  ArchiveInv'
<1> DEFINE again == [worker[w] EXCEPT !.pc = "start", !.try = @ + 1, !.prev = NoRow,
                                      !.got = NoContent, !.out = NoResult]
           new == IF LastTry(w) THEN Idle ELSE again
           seen == IF LastTry(w) THEN {} ELSE served[w]
<1>1. /\ UNCHANGED <<outside, files, prefetched>>
      /\ worker[w] \in Calls /\ worker[w].pc # "idle" /\ worker[w].url \in Urls /\ Url(w) \in Urls
      /\ server[worker[w].url] \in served[w] /\ served[w] \in SUBSET Contents
  BY DEF Fails, At, Url, ArchiveInv, TypeOK, CallInv
<1>2. new \in Calls /\ new.pc \in {"idle", "start"} /\ (new.pc = "idle" <=> LastTry(w))
      /\ (~LastTry(w) => new.url = worker[w].url)
  <2>1. CASE LastTry(w)
    BY <2>1, Values DEF Idle
  <2>2. CASE ~LastTry(w)
    <3>1. worker[w].try \in 0..MaxTries /\ worker[w].try # MaxTries /\ MaxTries \in Nat
      BY <1>1, <2>2, ArchiveAssumption DEF LastTry, Calls
    <3>2. worker[w].try + 1 \in 0..MaxTries
      BY <3>1
    <3>3. again \in Calls /\ again.pc = "start" /\ again.url = worker[w].url
      BY <1>1, <3>2, Values DEF Calls
    <3>4. QED
      BY <2>2, <3>3
  <2>3. QED
    BY <2>1, <2>2
<1>3. worker' = [worker EXCEPT ![w] = new]
  BY DEF Fails, NextTry
<1> HIDE DEF new
<1>4. worker'[w] = new
  BY <1>3 DEF ArchiveInv, TypeOK
<1>5. served' = [served EXCEPT ![w] = seen] /\ served'[w] = seen /\ seen \in SUBSET Contents
  <2>1. At(w, "idle")' <=> LastTry(w)
    BY <1>2, <1>4 DEF At
  <2>2. served \in [Workers -> SUBSET Contents]
    BY DEF ArchiveInv, TypeOK
  <2>3. served' = [served EXCEPT ![w] = seen]
    BY <2>1, <2>2 DEF Fails
  <2>4. QED
    BY <1>1, <2>2, <2>3
<1>6. CallInv(w)'
  BY <1>1, <1>2, <1>4, <1>5 DEF CallInv, outside
<1>7. /\ docs' \in [Contents -> Paths \union {NoPath}]
      /\ \A c \in Contents : docs[c] # NoPath => docs'[c] = docs[c]
      /\ \A c \in Contents : docs'[c] = NoPath \/ docs'[c].sha = c
  <2>1. CASE UNCHANGED docs
    BY <2>1 DEF ArchiveInv, TypeOK, DatabaseInv
  <2>2. CASE At(w, "document") /\ Register(w)
    BY <2>2, RegisterKeeps DEF ArchiveInv, DatabaseInv
  <2>3. QED
    BY <2>1, <2>2 DEF Fails
<1>8. latest' \in [Urls -> Rows] /\ \A u \in Urls : RowIsDated(latest'[u])
  <2>1. CASE UNCHANGED latest
    BY <2>1 DEF ArchiveInv, TypeOK, DatabaseInv
  <2>2. CASE At(w, "retrieval") /\ Insert(w, worker[w].got, worker[w].got)
    <3>1. worker[w].got \in Contents
      BY <1>1, <2>2 DEF At, ArchiveInv, CallInv
    <3>2. RowIsDated([doc |-> worker[w].got, etag |-> worker[w].got])
      BY DEF RowIsDated
    <3>3. QED
      BY <1>1, <2>2, <3>1, <3>2, InsertKeeps
  <2>3. CASE At(w, "attest") /\ Insert(w, worker[w].prev.doc, worker[w].prev.etag)
    <3>1. /\ worker[w].prev = NoRow \/ RowIsDated(worker[w].prev)
          /\ worker[w].prev \in Rows
      BY <1>1, <2>3 DEF At, ArchiveInv, CallInv, Calls
    <3>2. RowIsDated([doc |-> worker[w].prev.doc, etag |-> worker[w].prev.etag])
      BY <3>1 DEF RowIsDated, NoRow
    <3>3. worker[w].prev.doc \in Contents \union {NoContent}
          /\ worker[w].prev.etag \in Contents \union {NoContent}
      BY <3>1 DEF Rows
    <3>4. QED
      BY <1>1, <2>3, <3>2, <3>3, InsertKeeps
  <2>4. QED
    BY <2>1, <2>2, <2>3 DEF Fails
<1>9. DatabaseInv'
  BY <1>1, <1>7, <1>8 DEF ArchiveInv, DatabaseInv, Readable
<1> HIDE DEF seen
<1>10. QED
  BY <1>1, <1>2, <1>3, <1>5, <1>6, <1>7, <1>8, <1>9, StepOfOne DEF ArchiveInv, TypeOK

LEMMA ReturnStep ==
  ASSUME ArchiveInv, NEW w \in Workers, Return(w)
  PROVE  ArchiveInv'
<1>1. /\ UNCHANGED <<outside, files, docs, latest>>
      /\ worker[w].out \in Results /\ Readable(worker[w].out)
      /\ prefetched \in [Urls -> Results]
      /\ \A u \in Urls : prefetched[u].doc # NoContent => Readable(prefetched[u])
  BY DEF Return, At, ArchiveInv, TypeOK, CallInv, Calls, DatabaseInv
<1>2. /\ prefetched' \in [Urls -> Results]
      /\ \A u \in Urls : prefetched'[u] \in {prefetched[u], worker[w].out}
  BY <1>1 DEF Return
<1>3. DatabaseInv'
  BY <1>1, <1>2 DEF ArchiveInv, DatabaseInv, Readable
<1>4. Idle \in Calls /\ worker' = [worker EXCEPT ![w] = Idle] /\ served' = [served EXCEPT ![w] = {}]
  BY Values DEF Return
<1>5. worker'[w] = Idle
  BY <1>4 DEF ArchiveInv, TypeOK
<1>6. CallInv(w)'
  BY <1>5 DEF CallInv, Idle
<1>7. {} \in SUBSET Contents /\ files' \subseteq Paths /\ files \subseteq files'
      /\ docs' \in [Contents -> Paths \union {NoPath}] /\ latest' \in [Urls -> Rows]
  BY <1>1 DEF ArchiveInv, TypeOK
<1>8. QED
  BY <1>1, <1>2, <1>3, <1>4, <1>6, <1>7, StepOfOne

-----------------------------------------------------------------------------
(* The outside                                                             *)

LEMMA PublishStep ==
  ASSUME ArchiveInv, NEW u \in Urls, NEW c \in Contents, Publish(u, c)
  PROVE  ArchiveInv'
<1>1. UNCHANGED <<today, files, docs, latest, prefetched, worker>>
  BY DEF Publish
<1>2. TypeOK'
  BY <1>1 DEF ArchiveInv, TypeOK, Publish
<1>3. DatabaseInv'
  BY <1>1 DEF ArchiveInv, DatabaseInv, Readable
<1>4. ASSUME NEW v \in Workers PROVE CallInv(v)'
  <2>1. /\ server \in [Urls -> Contents] /\ served \in [Workers -> SUBSET Contents]
        /\ worker[v].pc # "idle" => worker[v].url \in Urls /\ server[worker[v].url] \in served[v]
    BY DEF ArchiveInv, TypeOK, CallInv
  <2>2. served'[v] = IF worker[v].url = u /\ worker[v].pc # "idle"
                     THEN served[v] \union {c} ELSE served[v]
    BY DEF Publish, Url, At
  <2>3. server' = [server EXCEPT ![u] = c]
    BY DEF Publish
  <2>4. worker[v].pc # "idle" => server'[worker[v].url] \in served'[v]
    BY <2>1, <2>2, <2>3
  <2>5. served[v] \subseteq served'[v]
    BY <2>2
  <2>6. QED
    BY <1>1, <2>4, <2>5, CallKept
<1>5. QED
  BY <1>2, <1>3, <1>4 DEF ArchiveInv

LEMMA ClockStep ==
  ASSUME ArchiveInv, Midnight \/ UNCHANGED vars
  PROVE  ArchiveInv'
<1>1. UNCHANGED <<server, files, docs, latest, prefetched, worker, served>>
  BY DEF Midnight, vars, outside
<1>2. today' \in 1..Days
  BY ArchiveAssumption DEF ArchiveInv, TypeOK, Midnight, vars, outside
<1>3. TypeOK' /\ DatabaseInv'
  BY <1>1, <1>2 DEF ArchiveInv, TypeOK, DatabaseInv, Readable
<1>4. ASSUME NEW v \in Workers PROVE CallInv(v)'
  BY <1>1 DEF ArchiveInv, CallInv, Sealed, KeyOf, Readable, RowIsDated
<1>5. QED
  BY <1>3, <1>4 DEF ArchiveInv

LEMMA ExitStep ==
  ASSUME ArchiveInv, Exit
  PROVE  ArchiveInv'
<1>1. UNCHANGED <<outside, files, docs, latest>> /\ worker' = [w \in Workers |-> Idle]
      /\ prefetched' = [u \in Urls |-> NoResult] /\ served' = [w \in Workers |-> {}]
  BY DEF Exit
<1>2. TypeOK'
  BY <1>1, Values DEF ArchiveInv, TypeOK, outside
<1>3. DatabaseInv'
  BY <1>1 DEF ArchiveInv, DatabaseInv, NoResult, RowIsDated
<1>4. ASSUME NEW v \in Workers PROVE CallInv(v)'
  BY <1>1 DEF CallInv, Idle
<1>5. QED
  BY <1>2, <1>3, <1>4 DEF ArchiveInv

LEMMA LoseStep ==
  ASSUME ArchiveInv, NEW f \in files, Lose(f)
  PROVE  ArchiveInv'
<1>1. UNCHANGED <<server, today, docs, latest, prefetched, worker, served>>
      /\ files' \subseteq files /\ prefetched = [u \in Urls |-> NoResult]
      /\ \A v \in Workers : worker[v].pc = "idle"
  BY DEF Lose, Quiet, At
<1>2. TypeOK'
  BY <1>1 DEF ArchiveInv, TypeOK
<1>3. DatabaseInv'
  BY <1>1 DEF ArchiveInv, DatabaseInv, NoResult, RowIsDated
<1>4. ASSUME NEW v \in Workers PROVE CallInv(v)'
  BY <1>1 DEF CallInv
<1>5. QED
  BY <1>2, <1>3, <1>4 DEF ArchiveInv

LEMMA ArchiveStep == ArchiveInv /\ [Next]_vars => ArchiveInv'
<1> SUFFICES ASSUME ArchiveInv, [Next]_vars PROVE ArchiveInv'
  OBVIOUS
<1>1. ASSUME NEW w \in Workers, Fetch(w) PROVE ArchiveInv'
  BY <1>1, CallStep, ReadStep, AnsweredStep, PlaceStep, InsertDocumentStep,
     InsertRetrievalStep, FailsStep, ReturnStep DEF Fetch
<1>2. ASSUME NEW u \in Urls, NEW c \in Contents, Publish(u, c) PROVE ArchiveInv'
  BY <1>2, PublishStep
<1>3. CASE Midnight \/ UNCHANGED vars
  BY <1>3, ClockStep
<1>4. CASE Exit
  BY <1>4, ExitStep
<1>5. ASSUME NEW f \in files, Lose(f) PROVE ArchiveInv'
  BY <1>5, LoseStep
<1>6. QED
  BY <1>1, <1>2, <1>3, <1>4, <1>5 DEF Next

-----------------------------------------------------------------------------
(* Theorems                                                                *)

\* The invariant of the archive is inductive: whatever the calls, the crashes, the
\* publications and the files lost between two processes.
THEOREM ArchiveInductive == Spec => []ArchiveInv
<1>1. QED
  BY ArchiveInit, ArchiveStep, PTL DEF Spec

\* The variables keep their types; a call makes at most MaxTries attempts.
THEOREM ArchiveTypeCorrect == Spec => []TypeOK
<1>1. ArchiveInv => TypeOK
  BY DEF ArchiveInv
<1>2. QED
  BY <1>1, ArchiveInductive, PTL

\* What Fetch returns names a file that is there, and of the bytes it says: after a
\* download, after a 304 and after a replay of what the process fetched ahead.
THEOREM ReadableResult == Spec => []FetchedIsReadable
<1>1. ArchiveInv => FetchedIsReadable
  BY DEF ArchiveInv, CallInv, FetchedIsReadable, At, Readable
<1>2. QED
  BY <1>1, ArchiveInductive, PTL

\* What a call that asked the network gives was served by its URL during the call.
THEOREM HonestAttestation == Spec => []AttestsWhatWasServed
<1>1. ArchiveInv => AttestsWhatWasServed
  BY DEF ArchiveInv, CallInv, AttestsWhatWasServed, At
<1>2. QED
  BY <1>1, ArchiveInductive, PTL

\* raw.document names a file only once it exists, with the bytes of its key: the rename
\* comes before the row, and the row keeps the date of the rename.
THEOREM SealedAfterItsFile == Spec => SealedWithItsFile
<1>1. ASSUME ArchiveInv, [Next]_vars
      PROVE  \A c \in Contents :
               KeyOf(c) = NoPath /\ KeyOf(c)' # NoPath => KeyOf(c)'.sha = c /\ KeyOf(c)' \in files'
  <2>1. CASE UNCHANGED docs
    BY <2>1 DEF KeyOf
  <2>2. ASSUME NEW w \in Workers, At(w, "document"), Register(w), files' = files
        PROVE  \A c \in Contents :
                 KeyOf(c) = NoPath /\ KeyOf(c)' # NoPath => KeyOf(c)'.sha = c /\ KeyOf(c)' \in files'
    BY <1>1, <2>2, RegisterKeeps DEF KeyOf
  <2>3. \/ UNCHANGED docs
        \/ \E w \in Workers : At(w, "document") /\ Register(w) /\ files' = files
    BY <1>1 DEF Next, vars, Fetch, Call, Replay, Lookup, GetNotModified, GetBody, Attest, Place,
          InsertDocument, InsertRetrieval, Fails, Return, Publish, Midnight, Exit, Lose
  <2>4. QED
    BY <2>1, <2>2, <2>3
<1>2. QED
  BY <1>1, ArchiveInductive, PTL DEF Spec, SealedWithItsFile
-----------------------------------------------------------------------------
(* The body of one download                                                *)

\* downloadBody, which fetchOnce calls for its body (module Download), for every budget
\* of attempts, every sequence of versions and every server.

LEMMA SizesArePositive ==
  /\ Len(Sizes) \in Nat \ {0} /\ Versions = 1..Len(Sizes)
  /\ \A v \in Versions : Sizes[v] \in Nat /\ Sizes[v] > 0
  /\ MaxAttempts \in Nat /\ MaxAttempts > 0
<1>1. Sizes \in Seq(Nat \ {0}) /\ Sizes # <<>>
  BY DownloadAssumption
<1>2. \A v \in 1..Len(Sizes) : Sizes[v] \in Nat \ {0}
  BY <1>1
<1>3. Len(Sizes) \in Nat \ {0}
  BY <1>1
<1>4. QED
  BY <1>2, <1>3, DownloadAssumption DEF Versions

Chunks == [of : Versions, at : Nat \ {0}]

\* The file holds its chunks in their places, each of a version served before.
FileInv ==
    /\ written = Len(tmp)
    /\ \A i \in 1..Len(tmp) : tmp[i].at = i /\ tmp[i].of <= version

\* An answer being read goes on where the file ends.
RespInv ==
    pc = "copy" =>
        /\ resp.of \in Versions /\ resp.of <= version
        /\ resp.from = written + 1 /\ written < Sizes[resp.of]
        /\ \/ resp.status = 200 /\ written = 0 /\ resp.told = remote.sized
           \/ resp.status = 206 /\ written > 0 /\ announced # -1

\* The size announced is that of a version not older than the beginning of the file.
AnnouncedInv ==
    /\ announced # -1 => \E a \in Versions :
          /\ announced = Sizes[a] /\ a <= version
          /\ written > 0 => tmp[1].of <= a
          /\ pc = "copy" => a <= resp.of /\ (resp.status = 200 => a = resp.of)
    /\ ~remote.sized /\ written = 0 => announced = -1
    /\ pc = "copy" /\ resp.status = 200 /\ remote.sized => announced # -1

LEMMA Rests ==
  ASSUME DownloadTypeOK, RespInv, pc = "copy"
  PROVE  /\ Rest = Sizes[resp.of] - written /\ Rest \in Nat /\ Rest > 0
         /\ written \in Nat /\ Sizes[resp.of] \in Nat
<1>1. resp.from = written + 1 /\ written < Sizes[resp.of] /\ resp.of \in Versions
  BY DEF RespInv
<1>2. Sizes[resp.of] \in Nat
  BY <1>1, SizesArePositive
<1>3. written \in Nat
  BY DEF DownloadTypeOK
<1>4. QED
  BY <1>1, <1>2, <1>3 DEF Rest

LEMMA AppendedChunks ==
  ASSUME DownloadTypeOK, FileInv, RespInv, pc = "copy", NEW n \in 0..Rest
  PROVE  /\ tmp \o Chunk(n) \in Seq(Chunks) /\ Len(tmp \o Chunk(n)) = written + n
         /\ \A i \in 1..written : (tmp \o Chunk(n))[i] = tmp[i]
         /\ \A i \in (written + 1)..(written + n) : (tmp \o Chunk(n))[i] = [of |-> resp.of, at |-> i]
<1>1. n \in Nat /\ written \in Nat
  BY Rests
<1>2. resp.of \in Versions /\ resp.from = written + 1
  BY DEF RespInv
<1>3. \A i \in 1..n : resp.from + i - 1 = written + i /\ written + i \in Nat \ {0}
  BY <1>1, <1>2
<1>4. \A i \in 1..n : Chunk(n)[i] = [of |-> resp.of, at |-> written + i]
  BY <1>3 DEF Chunk
<1>5. \A i \in 1..n : Chunk(n)[i] \in Chunks
  <2>1. SUFFICES ASSUME NEW i \in 1..n PROVE [of |-> resp.of, at |-> written + i] \in Chunks
    BY <1>4
  <2>2. written + i \in Nat \ {0}
    BY <1>3
  <2>3. QED
    BY <2>2, <1>2 DEF Chunks
<1>6. Chunk(n) \in [1..n -> Chunks]
  BY <1>5 DEF Chunk
<1>7. Chunk(n) \in Seq(Chunks) /\ Len(Chunk(n)) = n
  BY <1>1, <1>6
<1>8. tmp \in Seq(Chunks) /\ Len(tmp) = written
  BY DEF DownloadTypeOK, Chunks, FileInv
<1> DEFINE c == Chunk(n)
<1> HIDE DEF c
<1>9. c \in Seq(Chunks) /\ Len(c) = n
  BY <1>7 DEF c
<1>10. /\ tmp \o c \in Seq(Chunks) /\ Len(tmp \o c) = written + n
       /\ \A i \in 1..(written + n) : (tmp \o c)[i] = IF i <= written THEN tmp[i] ELSE c[i - written]
  BY <1>8, <1>9, ConcatProperties
<1>11. \A i \in 1..written : (tmp \o c)[i] = tmp[i]
  BY <1>1, <1>10
<1>12. ASSUME NEW i \in (written + 1)..(written + n)
       PROVE  (tmp \o c)[i] = [of |-> resp.of, at |-> i]
  <2>1. i - written \in 1..n /\ written + (i - written) = i /\ i \in 1..(written + n) /\ ~(i <= written)
    BY <1>1
  <2>2. (tmp \o c)[i] = c[i - written]
    BY <1>10, <2>1
  <2>3. QED
    BY <1>4, <2>1, <2>2 DEF c
<1>13. QED
  BY <1>10, <1>11, <1>12 DEF c

-----------------------------------------------------------------------------
(* What an answer leaves in the file                                       *)

ReceivedInv == DownloadTypeOK /\ FileInv /\ RespInv /\ AnnouncedInv

\* The two ends of a copy: its chunks are written, and the loop fails, starts another
\* attempt, or hands the answer over.
LEMMA CopyStep ==
  ASSUME DownloadTypeOK, RespInv, CopyCut \/ CopyEnds
  PROVE  /\ pc = "copy" /\ resp' = NoResponse /\ UNCHANGED <<env, announced>>
         /\ \E n \in 0..Rest :
              /\ tmp' = tmp \o Chunk(n) /\ written' = written + n
              /\ \/ /\ Spoiled
                    /\ \/ (cancelled \/ LastAttempt) /\ Fail /\ UNCHANGED attempt
                       \/ ~LastAttempt /\ Retry
                 \/ /\ n = Rest /\ EndsShort(written + n) /\ UNCHANGED faults
                    /\ \/ LastAttempt /\ Fail /\ UNCHANGED attempt
                       \/ ~LastAttempt /\ Retry
                 \/ /\ ~EndsShort(written + n) /\ (n < Rest => resp.told)
                    /\ Answer(resp.status, resp.of) /\ UNCHANGED attempt
                    /\ Spoiled \/ UNCHANGED faults
<1>1. CASE CopyCut
  BY <1>1 DEF CopyCut
<1>2. CASE CopyEnds
  <2>1. PICK n \in 0..Rest :
           /\ n < Rest => resp.told
           /\ tmp' = tmp \o Chunk(n)
           /\ written' = written + n
           /\ IF n < Rest THEN Spoiled ELSE UNCHANGED faults
           /\ IF EndsShort(written + n)
              THEN \/ LastAttempt /\ Fail /\ UNCHANGED attempt
                   \/ ~LastAttempt /\ Retry
              ELSE Answer(resp.status, resp.of) /\ UNCHANGED attempt
    BY <1>2 DEF CopyEnds
  <2>2. pc = "copy" /\ resp' = NoResponse /\ UNCHANGED <<env, announced>>
    BY <1>2 DEF CopyEnds
  <2>3. CASE n < Rest
    BY <2>1, <2>2, <2>3
  <2>4. CASE ~(n < Rest)
    <3>1. n = Rest
      BY <2>2, <2>4, Rests
    <3>2. QED
      BY <2>1, <2>2, <2>4, <3>1
  <2>5. QED
    BY <2>3, <2>4
<1>3. QED
  BY <1>1, <1>2

\* What each action does to pc, and to the attempts.
LEMMA Outcomes ==
  /\ Fail => pc' = "done" /\ result' = [err |-> TRUE, status |-> 0, etag |-> 0]
  /\ Retry => pc' = "request" /\ attempt' = attempt + 1 /\ result' = result
  /\ \A s, v : Answer(s, v) => pc' = "done" /\ result' = [err |-> FALSE, status |-> s, etag |-> v]
BY DEF Fail, Retry, Answer

LEMMA ReceivedInitially == DownloadInit => ReceivedInv
<1> SUFFICES ASSUME DownloadInit PROVE ReceivedInv
  OBVIOUS
<1>1. version \in Versions /\ attempt \in 1..MaxAttempts
  BY SizesArePositive DEF DownloadInit
<1>2. tmp \in Seq([of : Versions, at : Nat \ {0}])
  BY DEF DownloadInit
<1>3. resp \in [status : {0, 200, 206}, of : Versions \union {0}, from : Nat, told : BOOLEAN]
  BY DEF DownloadInit, NoResponse
<1>4. result \in [err : BOOLEAN, status : {0, 200, 202, 206, 304, 404, 503},
                  etag : Versions \union {0}]
  BY DEF DownloadInit, NoAnswer
<1>5. DownloadTypeOK
  BY <1>1, <1>2, <1>3, <1>4 DEF DownloadInit, DownloadTypeOK
<1>6. FileInv /\ RespInv /\ AnnouncedInv
  BY DEF DownloadInit, FileInv, RespInv, AnnouncedInv
<1>7. QED
  BY <1>5, <1>6 DEF ReceivedInv

\* An attempt that ends, well or not, without a copy.
NoCopy == RequestFails \/ AnswerRetryable \/ AnswerFinal

AnswerTypes == [err : BOOLEAN, status : {0, 200, 202, 206, 304, 404, 503}, etag : Versions \union {0}]

LEMMA OutcomeTypes ==
  ASSUME DownloadTypeOK
  PROVE  /\ Fail /\ UNCHANGED attempt => pc' = "done" /\ result' \in AnswerTypes /\ attempt' \in 1..MaxAttempts
         /\ ~LastAttempt /\ Retry => pc' = "request" /\ result' \in AnswerTypes /\ attempt' \in 1..MaxAttempts
         /\ \A s \in {200, 202, 206, 304, 404, 503}, v \in Versions \union {0} :
               Answer(s, v) /\ UNCHANGED attempt =>
                  pc' = "done" /\ result' \in AnswerTypes /\ attempt' \in 1..MaxAttempts
         /\ Spoiled \/ UNCHANGED faults => faults' \in Nat
<1>1. attempt \in 1..MaxAttempts /\ result \in AnswerTypes /\ MaxAttempts \in Nat /\ faults \in Nat
  BY SizesArePositive DEF DownloadTypeOK, AnswerTypes
<1>2. ~LastAttempt => attempt + 1 \in 1..MaxAttempts
  BY <1>1 DEF LastAttempt
<1>3. [err |-> TRUE, status |-> 0, etag |-> 0] \in AnswerTypes
  BY DEF AnswerTypes
<1>4. \A s \in {200, 202, 206, 304, 404, 503}, v \in Versions \union {0} :
        [err |-> FALSE, status |-> s, etag |-> v] \in AnswerTypes
  BY DEF AnswerTypes
<1>5. Spoiled \/ UNCHANGED faults => faults' \in Nat
  BY <1>1 DEF Spoiled
<1>6. Fail /\ UNCHANGED attempt => pc' = "done" /\ result' \in AnswerTypes /\ attempt' \in 1..MaxAttempts
  BY <1>1, <1>3, Outcomes
<1>7. ~LastAttempt /\ Retry => pc' = "request" /\ result' \in AnswerTypes /\ attempt' \in 1..MaxAttempts
  BY <1>1, <1>2, Outcomes
<1>8. ASSUME NEW s \in {200, 202, 206, 304, 404, 503}, NEW v \in Versions \union {0},
             Answer(s, v), UNCHANGED attempt
      PROVE  pc' = "done" /\ result' \in AnswerTypes /\ attempt' \in 1..MaxAttempts
  BY <1>1, <1>4, <1>8 DEF Answer
<1>9. QED
  BY <1>5, <1>6, <1>7, <1>8

LEMMA ReceivedStep == ReceivedInv /\ [DownloadNext]_downloadVars => ReceivedInv'
<1> SUFFICES ASSUME ReceivedInv, [DownloadNext]_downloadVars PROVE ReceivedInv'
  OBVIOUS
<1> USE DEF ReceivedInv
<1>t. /\ remote \in Requests /\ version \in Versions /\ attempt \in 1..MaxAttempts
      /\ tmp \in Seq(Chunks) /\ written \in Nat /\ announced \in Nat \union {-1}
      /\ resp \in [status : {0, 200, 206}, of : Versions \union {0}, from : Nat, told : BOOLEAN]
      /\ cancelled \in BOOLEAN /\ result \in AnswerTypes /\ faults \in Nat
      /\ remote.sized \in BOOLEAN /\ remote.known \in 0..Len(Sizes)
  <2>1. remote \in [sized : BOOLEAN, known : 0..Len(Sizes), other : BOOLEAN]
    BY DownloadAssumption DEF DownloadTypeOK
  <2>2. QED
    BY <2>1 DEF DownloadTypeOK, Chunks, AnswerTypes
<1>u. version \in Nat /\ version > 0 /\ Versions \subseteq Nat /\ \A v \in Versions : Sizes[v] \in Nat /\ Sizes[v] > 0
  BY <1>t, SizesArePositive
<1>1. CASE NoCopy
  <2>1. pc = "request" /\ pc' \in {"request", "done"} /\ result' \in AnswerTypes
        /\ attempt' \in 1..MaxAttempts /\ faults' \in Nat
    <3>1. CASE RequestFails
      BY <3>1, OutcomeTypes DEF RequestFails, Asks
    <3>2. CASE AnswerRetryable
      BY <3>2, OutcomeTypes DEF AnswerRetryable, Asks
    <3>3. CASE AnswerFinal
      BY <3>3, <1>t, OutcomeTypes DEF AnswerFinal, Asks
    <3>4. QED
      BY <1>1, <3>1, <3>2, <3>3 DEF NoCopy
  <2>2. UNCHANGED <<env, tmp, written, announced, resp>>
    BY <1>1 DEF NoCopy, RequestFails, AnswerRetryable, AnswerFinal
  <2>3. DownloadTypeOK'
    BY <1>t, <2>1, <2>2 DEF DownloadTypeOK, env, Chunks, AnswerTypes
  <2>4. QED
    BY <2>1, <2>2, <2>3 DEF env, FileInv, RespInv, AnnouncedInv
<1>2. CASE Answer200
  <2>1. /\ tmp' = <<>> /\ written' = 0 /\ pc' = "copy"
        /\ resp' = [status |-> 200, of |-> version, from |-> 1, told |-> remote.sized]
        /\ UNCHANGED <<env, attempt, result, faults>>
    <3>1. CASE Resumes
      BY <1>2, <3>1 DEF Answer200
    <3>2. CASE ~Resumes
      <4>1. written = 0
        BY <3>2, <1>t DEF Resumes
      <4>2. tmp = <<>>
        <5>1. tmp \in Seq(Chunks) /\ ~(Len(tmp) \in Nat \ {0})
          BY <4>1, <1>t DEF FileInv
        <5>2. QED
          BY <5>1, EmptySeq
      <4>3. QED
        BY <1>2, <3>2, <4>1, <4>2 DEF Answer200
    <3>3. QED
      BY <3>1, <3>2
  <2>2. announced' = IF remote.sized THEN Sizes[version] ELSE -1
    <3>1. remote.sized => announced' = Sizes[version]
      BY <1>2 DEF Answer200, AnnouncedBy200
    <3>2. ~remote.sized /\ ~Resumes => announced' = -1
      BY <1>2, <1>t DEF Answer200, Resumes, AnnouncedInv
    <3>3. ~remote.sized /\ Resumes => announced' = -1
      BY <1>2 DEF Answer200
    <3>4. QED
      BY <3>1, <3>2, <3>3
  <2>3. announced' \in Nat \union {-1} /\ Sizes[version] # -1
    BY <2>2, <1>t, <1>u
  <2>4. resp' \in [status : {0, 200, 206}, of : Versions \union {0}, from : Nat, told : BOOLEAN]
    BY <2>1, <1>t
  <2>5. DownloadTypeOK'
    BY <2>1, <2>3, <2>4, <1>t DEF DownloadTypeOK, env, AnswerTypes
  <2>6. FileInv'
    BY <2>1 DEF FileInv
  <2>7. RespInv'
    BY <2>1, <1>t, <1>u DEF RespInv, env
  <2>8. AnnouncedInv'
    BY <2>1, <2>2, <1>t, <1>u DEF AnnouncedInv, env
  <2>9. QED
    BY <2>5, <2>6, <2>7, <2>8
<1>3. CASE Answer206
  <2>1. /\ pc' = "copy" /\ written > 0 /\ written < Sizes[version] /\ announced' = AnnouncedBy206(version)
        /\ resp' = [status |-> 206, of |-> version, from |-> written + 1, told |-> TRUE]
        /\ pc = "request" /\ UNCHANGED <<env, attempt, tmp, written, result, faults>>
    BY <1>3 DEF Answer206, Resumes, Asks
  <2>2. announced' = IF announced = -1 THEN Sizes[version] ELSE announced
    BY <2>1, <1>t DEF AnnouncedBy206
  <2>3. announced' \in Nat /\ announced' # -1
    BY <2>2, <1>t, <1>u
  <2>4. resp' \in [status : {0, 200, 206}, of : Versions \union {0}, from : Nat, told : BOOLEAN]
    BY <2>1, <1>t
  <2>5. DownloadTypeOK'
    BY <2>1, <2>3, <2>4, <1>t DEF DownloadTypeOK, env, AnswerTypes, Chunks
  <2>6. FileInv'
    BY <2>1 DEF FileInv, env
  <2>7. RespInv'
    BY <2>1, <2>3, <1>t, <1>u DEF RespInv, env
  <2>8. AnnouncedInv'
    <3>1. \E a \in Versions : announced' = Sizes[a] /\ a <= version /\ tmp[1].of <= a
      <4>1. CASE announced = -1
        <5>1. 1 \in 1..Len(tmp)
          BY <2>1, <1>t DEF FileInv
        <5>2. tmp[1].of <= version /\ version <= version
          BY <5>1, <1>u DEF FileInv
        <5>3. QED
          BY <4>1, <5>2, <2>2, <1>t
      <4>2. CASE announced # -1
        BY <4>2, <2>1, <2>2 DEF AnnouncedInv
      <4>3. QED
        BY <4>1, <4>2
    <3>2. resp'.of = version /\ resp'.status # 200 /\ written' # 0 /\ written' = written /\ tmp' = tmp
          /\ version' = version
      BY <2>1, <1>t DEF env
    <3>3. QED
      BY <3>1, <3>2 DEF AnnouncedInv
  <2>9. QED
    BY <2>5, <2>6, <2>7, <2>8
<1>4. CASE Answer416
  <2>1. /\ tmp' = <<>> /\ written' = 0 /\ announced' = -1 /\ UNCHANGED <<env, resp, faults>>
    BY <1>4 DEF Answer416, Restart
  <2>2. pc' \in {"request", "done"} /\ result' \in AnswerTypes /\ attempt' \in 1..MaxAttempts
    BY <1>4, OutcomeTypes DEF Answer416
  <2>3. DownloadTypeOK'
    BY <2>1, <2>2, <1>t DEF DownloadTypeOK, env, AnswerTypes
  <2>4. QED
    BY <2>1, <2>2, <2>3 DEF FileInv, RespInv, AnnouncedInv
<1>5. CASE CopyCut \/ CopyEnds
  <2>1. pc = "copy" /\ resp' = NoResponse /\ UNCHANGED <<env, announced>>
    BY <1>5, CopyStep
  <2>2. PICK n \in 0..Rest :
              /\ tmp' = tmp \o Chunk(n) /\ written' = written + n
              /\ \/ /\ Spoiled
                    /\ \/ (cancelled \/ LastAttempt) /\ Fail /\ UNCHANGED attempt
                       \/ ~LastAttempt /\ Retry
                 \/ /\ n = Rest /\ EndsShort(written + n) /\ UNCHANGED faults
                    /\ \/ LastAttempt /\ Fail /\ UNCHANGED attempt
                       \/ ~LastAttempt /\ Retry
                 \/ /\ ~EndsShort(written + n) /\ (n < Rest => resp.told)
                    /\ Answer(resp.status, resp.of) /\ UNCHANGED attempt
                    /\ Spoiled \/ UNCHANGED faults
    BY <1>5, CopyStep
  <2>3. resp.status \in {200, 206} /\ resp.of \in Versions /\ resp.of <= version
    BY <2>1 DEF RespInv
  <2>4. pc' \in {"request", "done"} /\ result' \in AnswerTypes /\ attempt' \in 1..MaxAttempts /\ faults' \in Nat
    BY <2>2, <2>3, OutcomeTypes
  <2>5. n \in Nat /\ written + n \in Nat
    BY <2>1, <1>t, Rests
  <2>6. /\ tmp' \in Seq(Chunks) /\ Len(tmp') = written + n
        /\ \A i \in 1..written : tmp'[i] = tmp[i]
        /\ \A i \in (written + 1)..(written + n) : tmp'[i] = [of |-> resp.of, at |-> i]
    BY <2>1, <2>2, AppendedChunks
  <2>7. DownloadTypeOK'
    <3>1. resp' \in [status : {0, 200, 206}, of : Versions \union {0}, from : Nat, told : BOOLEAN]
      BY <2>1 DEF NoResponse
    <3>2. QED
      BY <3>1, <2>1, <2>2, <2>4, <2>5, <2>6, <1>t DEF DownloadTypeOK, env, Chunks, AnswerTypes
  <2>8. FileInv'
    <3>1. SUFFICES ASSUME NEW i \in 1..(written + n) PROVE tmp'[i].at = i /\ tmp'[i].of <= version
      BY <2>1, <2>2, <2>6 DEF FileInv, env
    <3>2. CASE i <= written
      <4>1. i \in 1..written /\ i \in 1..Len(tmp)
        BY <3>2, <1>t, <2>5 DEF FileInv
      <4>2. QED
        BY <4>1, <2>6 DEF FileInv
    <3>3. CASE ~(i <= written)
      <4>1. i \in (written + 1)..(written + n)
        BY <3>3, <1>t, <2>5
      <4>2. tmp'[i] = [of |-> resp.of, at |-> i]
        BY <4>1, <2>6
      <4>3. tmp'[i].at = i /\ tmp'[i].of = resp.of
        BY <4>2
      <4>4. QED
        BY <4>3, <2>3
    <3>4. QED
      BY <3>2, <3>3
  <2>9. AnnouncedInv'
    <3>1. ASSUME announced # -1
          PROVE  \E a \in Versions : announced = Sizes[a] /\ a <= version /\ (written + n > 0 => tmp'[1].of <= a)
      <4>1. PICK a \in Versions : /\ announced = Sizes[a] /\ a <= version
                                  /\ written > 0 => tmp[1].of <= a
                                  /\ resp.status = 200 => a = resp.of
        BY <3>1, <2>1 DEF AnnouncedInv
      <4>2. CASE written > 0
        <5>1. 1 \in 1..written
          BY <4>2, <1>t
        <5>2. tmp'[1] = tmp[1]
          BY <5>1, <2>6
        <5>3. QED
          BY <4>1, <4>2, <5>2
      <4>3. CASE written = 0
        <5>1. resp.status = 200
          BY <4>3, <2>1, <1>t DEF RespInv
        <5>2. ASSUME n > 0 PROVE tmp'[1].of <= a
          <6>1. 1 \in (written + 1)..(written + n)
            BY <4>3, <5>2, <2>5
          <6>2. tmp'[1] = [of |-> resp.of, at |-> 1]
            BY <6>1, <2>6
          <6>3. tmp'[1].of = resp.of
            BY <6>2
          <6>4. a <= a
            BY <1>u
          <6>5. QED
            BY <6>3, <6>4, <4>1, <5>1
        <5>3. written + n > 0 => n > 0
          BY <4>3, <2>5
        <5>4. QED
          BY <4>1, <5>2, <5>3
      <4>4. QED
        BY <4>2, <4>3, <1>t
    <3>2. ~remote.sized /\ written + n = 0 => announced = -1
      <4>1. written + n = 0 => written = 0
        BY <1>t, <2>5
      <4>2. QED
        BY <4>1 DEF AnnouncedInv
    <3>3. QED
      BY <3>1, <3>2, <2>1, <2>2, <2>4 DEF AnnouncedInv, env
  <2>10. QED
    BY <2>4, <2>7, <2>8, <2>9 DEF RespInv
<1>6. CASE Replace
  <2>1. version' = version + 1 /\ version' \in Versions /\ version <= version'
        /\ UNCHANGED <<remote, pc, attempt, tmp, written, announced, resp, cancelled, result, faults>>
    BY <1>6, <1>t, SizesArePositive DEF Replace
  <2>2. DownloadTypeOK'
    BY <2>1 DEF DownloadTypeOK
  <2>3. \A x \in Nat : x <= version => x <= version'
    BY <2>1, <1>u
  <2>4. \A i \in 1..Len(tmp) : tmp[i].of \in Nat
    <3>1. \A i \in 1..Len(tmp) : tmp[i] \in Chunks
      BY <1>t
    <3>2. \A c \in Chunks : c.of \in Versions
      BY DEF Chunks
    <3>3. QED
      BY <3>1, <3>2, <1>u
  <2>5. FileInv'
    BY <2>1, <2>3, <2>4 DEF FileInv
  <2>6. RespInv'
    <3>1. pc = "copy" => resp.of \in Versions /\ resp.of <= version
      BY DEF RespInv
    <3>2. pc = "copy" => resp.of <= version'
      BY <3>1, <2>3, <1>u
    <3>3. QED
      BY <2>1, <3>2 DEF RespInv
  <2>7. AnnouncedInv'
    BY <2>1, <2>3, <1>u DEF AnnouncedInv
  <2>8. QED
    BY <2>2, <2>5, <2>6, <2>7
<1>7. CASE Cancel
  BY <1>7 DEF Cancel, DownloadTypeOK, FileInv, RespInv, AnnouncedInv
<1>8. CASE UNCHANGED downloadVars
  BY <1>8 DEF downloadVars, DownloadTypeOK, FileInv, RespInv, AnnouncedInv
<1>9. QED
  BY <1>1, <1>2, <1>3, <1>4, <1>5, <1>6, <1>7, <1>8 DEF DownloadNext, Attempt, NoCopy, Terminated

\* The state of a download keeps its type: the chunks of the file, the attempt within
\* the budget, the status and version handed over.
THEOREM DownloadTypeCorrect == DownloadSpec => []DownloadTypeOK
<1>1. ReceivedInv => DownloadTypeOK
  BY DEF ReceivedInv
<1> QED
  BY <1>1, ReceivedInitially, ReceivedStep, PTL DEF DownloadSpec
-----------------------------------------------------------------------------
(* What is sealed                                                          *)

\* A body handed over as complete, and which comes from the version of the answer only,
\* is complete: either its answer told its length, or its end was explicit.
LEMMA CompleteBody ==
  ASSUME ReceivedInv, pc = "copy", NEW n \in 0..Rest, ~EndsShort(written + n), n < Rest => resp.told,
         written > 0 => tmp[1].of = resp.of
  PROVE  n = Rest
<1> USE DEF ReceivedInv
<1>1. SUFFICES ASSUME n < Rest PROVE FALSE
  BY Rests
<1>2. resp.told /\ written + n < Sizes[resp.of] /\ written + n \in Nat
  BY <1>1, Rests
<1>3. announced = -1 \/ announced = written + n
  BY DEF EndsShort, DownloadTypeOK
<1>4. announced # -1
  BY <1>2 DEF RespInv, AnnouncedInv
<1>5. PICK a \in Versions : /\ announced = Sizes[a] /\ a <= resp.of
                            /\ written > 0 => tmp[1].of <= a
                            /\ resp.status = 200 => a = resp.of
  BY <1>4 DEF AnnouncedInv
<1>6. a = resp.of
  <2>1. CASE resp.status = 200
    BY <1>5, <2>1
  <2>2. CASE resp.status # 200
    <3>1. written > 0 /\ resp.of \in Versions
      BY <2>2 DEF RespInv
    <3>2. resp.of <= a /\ a <= resp.of
      BY <1>5, <3>1
    <3>3. a \in Nat /\ resp.of \in Nat
      BY <3>1, SizesArePositive
    <3>4. QED
      BY <3>2, <3>3
  <2>3. QED
    BY <2>1, <2>2
<1>7. Sizes[resp.of] = written + n
  BY <1>3, <1>4, <1>5, <1>6
<1>8. QED
  BY <1>2, <1>7

LEMMA Unsealed == SealedIsWhole /\ UNCHANGED <<pc, tmp, result>> => SealedIsWhole'
<1> SUFFICES ASSUME SealedIsWhole, UNCHANGED <<pc, tmp, result>> PROVE SealedIsWhole'
  OBVIOUS
<1>1. Contributors' = Contributors
  BY DEF Contributors
<1>2. Sealable' = Sealable
  BY DEF Sealable
<1>3. Body(result'.etag) = Body(result.etag)
  OBVIOUS
<1>4. QED
  BY <1>1, <1>2, <1>3 DEF SealedIsWhole

LEMMA SealedStep == ReceivedInv /\ SealedIsWhole /\ [DownloadNext]_downloadVars => SealedIsWhole'
<1> SUFFICES ASSUME ReceivedInv, SealedIsWhole, [DownloadNext]_downloadVars PROVE SealedIsWhole'
  OBVIOUS
<1>1. CASE RequestFails \/ Answer416
  <2>1. pc' = "request" \/ (pc' = "done" /\ result'.err)
    BY <1>1, Outcomes DEF RequestFails, Answer416
  <2>2. QED
    BY <2>1 DEF SealedIsWhole, Sealable
<1>2. CASE Answer200 \/ Answer206
  BY <1>2 DEF Answer200, Answer206, SealedIsWhole, Sealable
<1>3. CASE AnswerRetryable
  <2>1. pc' = "request" \/ (pc' = "done" /\ result'.status = 503)
    BY <1>3, Outcomes DEF AnswerRetryable
  <2>2. QED
    BY <2>1 DEF SealedIsWhole, Sealable
<1>4. CASE AnswerFinal
  <2>1. result'.status \in {304, 404, 202}
    BY <1>4, Outcomes DEF AnswerFinal
  <2>2. QED
    BY <2>1 DEF SealedIsWhole, Sealable
<1>5. CASE CopyCut \/ CopyEnds
  <2> USE DEF ReceivedInv
  <2>1. pc = "copy" /\ resp' = NoResponse /\ UNCHANGED <<env, announced>>
    BY <1>5, CopyStep
  <2>2. PICK n \in 0..Rest :
              /\ tmp' = tmp \o Chunk(n) /\ written' = written + n
              /\ \/ /\ Spoiled
                    /\ \/ (cancelled \/ LastAttempt) /\ Fail /\ UNCHANGED attempt
                       \/ ~LastAttempt /\ Retry
                 \/ /\ n = Rest /\ EndsShort(written + n) /\ UNCHANGED faults
                    /\ \/ LastAttempt /\ Fail /\ UNCHANGED attempt
                       \/ ~LastAttempt /\ Retry
                 \/ /\ ~EndsShort(written + n) /\ (n < Rest => resp.told)
                    /\ Answer(resp.status, resp.of) /\ UNCHANGED attempt
                    /\ Spoiled \/ UNCHANGED faults
    BY <1>5, CopyStep
  <2>3. CASE Fail \/ Retry
    <3>1. pc' = "request" \/ (pc' = "done" /\ result'.err)
      BY <2>3, Outcomes
    <3>2. QED
      BY <3>1 DEF SealedIsWhole, Sealable
  <2>4. CASE /\ ~EndsShort(written + n) /\ (n < Rest => resp.told)
             /\ Answer(resp.status, resp.of)
    <3>1. SUFFICES ASSUME Contributors' = {result'.etag} PROVE tmp' = Body(result'.etag)
      BY DEF SealedIsWhole, Body
    <3>2. result'.etag = resp.of
      BY <2>4, Outcomes
    <3>3. /\ tmp' \in Seq(Chunks) /\ Len(tmp') = written + n
          /\ \A i \in 1..written : tmp'[i] = tmp[i]
          /\ \A i \in (written + 1)..(written + n) : tmp'[i] = [of |-> resp.of, at |-> i]
      BY <2>1, <2>2, AppendedChunks
    <3>4. \A i \in 1..(written + n) : tmp'[i].of = resp.of
      BY <3>1, <3>2, <3>3 DEF Contributors
    <3>5. written \in Nat /\ n \in Nat /\ written + n \in Nat
      BY <2>1, Rests
    <3>6. written > 0 => tmp[1].of = resp.of
      <4>1. written > 0 => 1 \in 1..written /\ 1 \in 1..(written + n)
        BY <3>5
      <4>2. QED
        BY <4>1, <3>3, <3>4
    <3>7. n = Rest
      BY <2>1, <2>4, <3>6, CompleteBody
    <3>8. written + n = Sizes[resp.of]
      BY <3>7, <2>1, Rests
    <3>9. \A i \in 1..Len(tmp') : tmp'[i].at = i
      BY <1>5, ReceivedStep DEF FileInv
    <3>10. \A i \in 1..(written + n) : tmp'[i] = [of |-> resp.of, at |-> i]
      <4>1. \A i \in 1..(written + n) : tmp'[i] \in Chunks
        BY <3>3
      <4>2. \A c \in Chunks : c = [of |-> c.of, at |-> c.at]
        BY DEF Chunks
      <4>3. QED
        BY <4>1, <4>2, <3>3, <3>4, <3>9
    <3>11. tmp' = [i \in 1..(written + n) |-> tmp'[i]]
      BY <3>3, <3>5
    <3>12. QED
      BY <3>2, <3>8, <3>10, <3>11 DEF Body
  <2>5. QED
    BY <2>2, <2>3, <2>4
<1>6. CASE Replace \/ Cancel
  <2>1. UNCHANGED <<pc, tmp, result>>
    BY <1>6 DEF Replace, Cancel
  <2>2. QED
    BY <2>1, Unsealed
<1>7. CASE UNCHANGED downloadVars
  <2>1. UNCHANGED <<pc, tmp, result>>
    BY <1>7 DEF downloadVars
  <2>2. QED
    BY <2>1, Unsealed
<1>8. QED
  BY <1>1, <1>2, <1>3, <1>4, <1>5, <1>6, <1>7 DEF DownloadNext, Attempt, Terminated

\* No truncated document is sealed, whatever is cut, resumed, restarted or replaced: a
\* body received from one version is the whole of it, to which its ETag is attached.
THEOREM WholeBodies == DownloadSpec => []SealedIsWhole
<1>1. DownloadInit => SealedIsWhole
  BY DEF DownloadInit, SealedIsWhole, Sealable
<1> QED
  BY <1>1, ReceivedInitially, ReceivedStep, SealedStep, PTL DEF DownloadSpec
-----------------------------------------------------------------------------
(* What a failure costs                                                    *)

\* A fault pays for two attempts, the one it spoils and a restart; each version but the
\* first pays for one more. While a file is resumed the restart is still to come: only
\* when it started in an older version than the one served, or the size announced is
\* that of the one served, or the file is already as long.
Paid(u) == 2 * faults + (u - 1)

BudgetInv ==
    /\ faults \in 0..MaxAttempts
    /\ pc = "request" /\ written = 0 => attempt - 1 <= Paid(version)
    /\ pc = "copy" /\ resp.status = 200 => attempt - 1 <= Paid(resp.of)
    /\ pc = "request" /\ written > 0 => \E u \in 1..version :
          /\ attempt <= Paid(u)
          /\ u = version => announced \in {-1, Sizes[version]} \/ written >= Sizes[version]
    /\ pc = "copy" /\ resp.status = 206 => \E u \in 1..resp.of :
          /\ attempt <= Paid(u)
          /\ u = resp.of => announced = Sizes[resp.of]
    /\ FailureIsEarned

\* The types that the arithmetic of the budget needs.
LEMMA Numbers ==
  ASSUME DownloadTypeOK
  PROVE  /\ attempt \in 1..MaxAttempts /\ attempt \in Nat /\ MaxAttempts \in Nat
         /\ version \in Nat /\ version >= 1 /\ faults \in Nat /\ written \in Nat
         /\ announced \in Nat \union {-1}
         /\ Sizes[version] \in Nat /\ Sizes[version] > 0
<1>1. version \in Versions /\ attempt \in 1..MaxAttempts
  BY DEF DownloadTypeOK
<1>2. Sizes[version] \in Nat /\ Sizes[version] > 0 /\ version \in Nat /\ version >= 1
  BY <1>1, SizesArePositive
<1>3. QED
  BY <1>1, <1>2, SizesArePositive DEF DownloadTypeOK

\* A fault pays for the attempt it spoils and one more, whether it is counted or not:
\* the count stops at the budget, which covers all attempts by itself.
LEMMA FaultPays ==
  ASSUME DownloadTypeOK, faults \in 0..MaxAttempts, Spoiled, NEW p \in Nat
  PROVE  /\ faults' \in 0..MaxAttempts /\ 2 * faults' + p \in Nat
         /\ attempt - 1 <= 2 * faults + p => attempt + 1 <= 2 * faults' + p
<1>1. /\ attempt \in Nat /\ MaxAttempts \in Nat /\ faults \in Nat
      /\ attempt <= MaxAttempts /\ MaxAttempts >= 1
  BY Numbers
<1>2. CASE faults < MaxAttempts
  <2>1. faults' = faults + 1
    BY <1>2 DEF Spoiled
  <2>2. 2 * faults' = 2 * faults + 2
    BY <2>1, <1>1
  <2>3. QED
    BY <2>1, <2>2, <1>1, <1>2
<1>3. CASE ~(faults < MaxAttempts)
  <2>1. faults' = MaxAttempts
    BY <1>3, <1>1 DEF Spoiled
  <2>2. 2 * faults' = MaxAttempts + MaxAttempts
    BY <2>1, <1>1
  <2>3. QED
    BY <2>1, <2>2, <1>1
<1>4. QED
  BY <1>2, <1>3

\* An attempt that failed while it asked: what was paid for covers the next one.
LEMMA AskAgain ==
  ASSUME ReceivedInv, BudgetInv, Asks, Spoiled, UNCHANGED <<env, tmp, written, announced, resp>>,
         \/ pc' = "done" /\ attempt' = attempt /\ (cancelled \/ LastAttempt \/ ~result'.err)
         \/ pc' = "request" /\ attempt' = attempt + 1
  PROVE  BudgetInv'
<1> USE DEF ReceivedInv
<1>t. /\ attempt \in 1..MaxAttempts /\ attempt \in Nat /\ MaxAttempts \in Nat
      /\ version \in Nat /\ version >= 1 /\ version - 1 \in Nat /\ written \in Nat
  BY Numbers
<1>f. faults \in 0..MaxAttempts /\ faults' \in 0..MaxAttempts /\ 2 * faults \in Nat /\ 2 * faults' \in Nat
  BY <1>t, FaultPays DEF BudgetInv
<1>n. /\ version' = version /\ written' = written /\ announced' = announced /\ cancelled' = cancelled
      /\ pc = "request" /\ pc' # "copy"
  BY DEF env, Asks
<1>l. \A x \in Nat : attempt + 1 <= x => attempt <= x /\ (LastAttempt => x >= MaxAttempts)
  BY <1>t DEF LastAttempt
<1>1. CASE written = 0
  <2>1. attempt - 1 <= 2 * faults + (version - 1)
    BY <1>1, <1>n DEF BudgetInv, Paid
  <2>2. /\ 2 * faults' + (version - 1) \in Nat
        /\ attempt + 1 <= 2 * faults' + (version - 1)
    BY <2>1, <1>t, <1>f, FaultPays
  <2>3. FailureIsEarned'
    BY <2>2, <1>n, <1>l DEF FailureIsEarned
  <2>4. pc' = "request" => attempt' - 1 <= 2 * faults' + (version - 1)
    <3>1. pc' = "request" => attempt' - 1 = attempt
      BY <1>t
    <3>2. QED
      BY <2>2, <1>l, <3>1
  <2>5. QED
    BY <2>3, <2>4, <1>1, <1>n, <1>f DEF BudgetInv, Paid
<1>2. CASE written > 0
  <2>1. PICK u \in 1..version :
          /\ attempt <= 2 * faults + (u - 1)
          /\ u = version => announced \in {-1, Sizes[version]} \/ written >= Sizes[version]
    BY <1>2, <1>n DEF BudgetInv, Paid
  <2>2. u - 1 \in Nat /\ u - 1 <= version - 1
    BY <1>t
  <2>3. attempt + 1 <= 2 * faults' + (u - 1)
    <3>1. attempt - 1 <= 2 * faults + (u - 1)
      BY <2>1, <2>2, <1>t, <1>f
    <3>2. QED
      BY <3>1, <2>2, <1>f, FaultPays
  <2>4. FailureIsEarned'
    <3>1. 2 * faults' + (u - 1) \in Nat /\ 2 * faults' + (version - 1) \in Nat
      BY <2>2, <1>t, <1>f, FaultPays
    <3>2. 2 * faults' + (u - 1) <= 2 * faults' + (version - 1)
      <4>1. \A x \in Nat : x + (u - 1) <= x + (version - 1)
        BY <2>2, <1>t
      <4>2. QED
        BY <4>1, <1>f
    <3>3. LastAttempt => 2 * faults' + (u - 1) >= MaxAttempts
      BY <2>3, <3>1, <1>l
    <3>4. LastAttempt => 2 * faults' + (version - 1) >= MaxAttempts
      BY <3>1, <3>2, <3>3, <1>t
    <3>5. QED
      BY <3>4, <1>n DEF FailureIsEarned
  <2>5. QED
    BY <2>1, <2>3, <2>4, <1>2, <1>n, <1>f DEF BudgetInv, Paid
<1>3. QED
  BY <1>1, <1>2, <1>t

LEMMA BudgetStep == ReceivedInv /\ BudgetInv /\ [DownloadNext]_downloadVars => BudgetInv'
<1> SUFFICES ASSUME ReceivedInv, BudgetInv, [DownloadNext]_downloadVars PROVE BudgetInv'
  OBVIOUS
<1> USE DEF ReceivedInv
<1>t. /\ attempt \in 1..MaxAttempts /\ attempt \in Nat /\ MaxAttempts \in Nat
      /\ version \in Nat /\ version >= 1 /\ version - 1 \in Nat /\ written \in Nat
      /\ faults \in Nat /\ 2 * faults \in Nat /\ announced \in Nat \union {-1}
      /\ Sizes[version] \in Nat
  BY Numbers
<1>l. LastAttempt => attempt = MaxAttempts
  BY <1>t DEF LastAttempt
\* what is paid for grows with the version it is counted from
<1>p. \A x, u, v \in Nat : u <= v => x + (u - 1) <= x + (v - 1)
  OBVIOUS
<1>r. pc = "copy" => /\ resp.of \in Nat /\ resp.of >= 1 /\ resp.of <= version
                     /\ Sizes[resp.of] \in Nat /\ Sizes[resp.of] > 0
  BY SizesArePositive DEF RespInv
<1>1. CASE RequestFails
  <2>1. \/ pc' = "done" /\ attempt' = attempt /\ (cancelled \/ LastAttempt)
        \/ pc' = "request" /\ attempt' = attempt + 1
    BY <1>1, Outcomes DEF RequestFails
  <2>2. Asks /\ Spoiled /\ UNCHANGED <<env, tmp, written, announced, resp>>
    BY <1>1 DEF RequestFails
  <2>3. QED
    BY <2>1, <2>2, AskAgain
<1>2. CASE AnswerRetryable
  <2>1. \/ pc' = "done" /\ attempt' = attempt /\ ~result'.err
        \/ pc' = "request" /\ attempt' = attempt + 1
    BY <1>2, Outcomes DEF AnswerRetryable
  <2>2. Asks /\ Spoiled /\ UNCHANGED <<env, tmp, written, announced, resp>>
    BY <1>2 DEF AnswerRetryable
  <2>3. QED
    BY <2>1, <2>2, AskAgain
<1>3. CASE AnswerFinal
  <2>1. pc' = "done" /\ ~result'.err /\ faults' = faults
    BY <1>3, Outcomes DEF AnswerFinal
  <2>2. QED
    BY <2>1 DEF BudgetInv, FailureIsEarned
\* what was paid for when an attempt begins
<1>a. ASSUME pc = "request"
      PROVE  /\ attempt - 1 <= 2 * faults + (version - 1)
             /\ written > 0 => attempt <= 2 * faults + (version - 1)
  <2>1. CASE written = 0
    BY <1>a, <2>1 DEF BudgetInv, Paid
  <2>2. CASE written > 0
    <3>1. PICK u \in 1..version : attempt <= 2 * faults + (u - 1)
      BY <1>a, <2>2 DEF BudgetInv, Paid
    <3>2. 2 * faults + (u - 1) <= 2 * faults + (version - 1)
      BY <1>p, <1>t
    <3>3. QED
      BY <3>1, <3>2, <1>t
  <2>3. QED
    BY <2>1, <2>2, <1>t
<1>4. CASE Answer200
  <2>1. /\ pc = "request" /\ pc' = "copy" /\ UNCHANGED <<attempt, faults, version>>
        /\ resp' = [status |-> 200, of |-> version, from |-> 1, told |-> remote.sized]
    BY <1>4 DEF Answer200, Asks, env
  <2>2. resp'.status = 200 /\ resp'.of = version
    BY <2>1
  <2>3. QED
    BY <2>1, <2>2, <1>a DEF BudgetInv, FailureIsEarned, Paid
<1>5. CASE Answer206
  <2>1. /\ pc = "request" /\ pc' = "copy" /\ UNCHANGED <<attempt, faults, version, written>>
        /\ written > 0 /\ written < Sizes[version] /\ announced' = AnnouncedBy206(version)
        /\ resp' = [status |-> 206, of |-> version, from |-> written + 1, told |-> TRUE]
    BY <1>5 DEF Answer206, Asks, Resumes, env
  <2>2. resp'.status = 206 /\ resp'.of = version
    BY <2>1
  <2>3. PICK u \in 1..version :
          /\ attempt <= Paid(u)
          /\ u = version => announced \in {-1, Sizes[version]} \/ written >= Sizes[version]
    BY <2>1 DEF BudgetInv
  <2>4. u = version => announced' = Sizes[version]
    <3>1. announced \in {-1, Sizes[version]} => announced' = Sizes[version]
      BY <2>1, <1>t DEF AnnouncedBy206
    <3>2. ~(written >= Sizes[version])
      BY <2>1, <1>t
    <3>3. QED
      BY <2>3, <3>1, <3>2
  <2>5. QED
    BY <2>1, <2>2, <2>3, <2>4 DEF BudgetInv, FailureIsEarned, Paid
<1>6. CASE Answer416
  <2>1. /\ pc = "request" /\ written > 0 /\ written' = 0 /\ UNCHANGED <<faults, version, cancelled>>
        /\ \/ LastAttempt /\ pc' = "done" /\ attempt' = attempt
           \/ pc' = "request" /\ attempt' = attempt + 1
    BY <1>6, Outcomes DEF Answer416, Asks, Resumes, Restart, env
  <2>2. pc' = "request" => attempt' - 1 = attempt
    BY <2>1, <1>t
  <2>3. FailureIsEarned'
    BY <2>1, <1>a, <1>l, <1>t DEF FailureIsEarned
  <2>4. QED
    BY <2>1, <2>2, <2>3, <1>a DEF BudgetInv, Paid
<1>7. CASE CopyCut \/ CopyEnds
  <2>1. pc = "copy" /\ resp' = NoResponse /\ UNCHANGED <<env, announced>>
    BY <1>7, CopyStep
  <2>2. PICK n \in 0..Rest :
              /\ tmp' = tmp \o Chunk(n) /\ written' = written + n
              /\ \/ /\ Spoiled
                    /\ \/ (cancelled \/ LastAttempt) /\ Fail /\ UNCHANGED attempt
                       \/ ~LastAttempt /\ Retry
                 \/ /\ n = Rest /\ EndsShort(written + n) /\ UNCHANGED faults
                    /\ \/ LastAttempt /\ Fail /\ UNCHANGED attempt
                       \/ ~LastAttempt /\ Retry
                 \/ /\ ~EndsShort(written + n) /\ (n < Rest => resp.told)
                    /\ Answer(resp.status, resp.of) /\ UNCHANGED attempt
                    /\ Spoiled \/ UNCHANGED faults
    BY <1>7, CopyStep
  \* the version from which the attempts were paid for, and the size announced beside it
  <2>3. PICK u \in 1..resp.of :
          /\ attempt - 1 <= 2 * faults + (u - 1)
          /\ resp.status = 206 => attempt <= 2 * faults + (u - 1)
          /\ u = resp.of => announced \in {-1, Sizes[resp.of]}
          /\ resp.status = 200 => u = resp.of
    <3>1. CASE resp.status = 200
      <4>1. announced # -1 => announced = Sizes[resp.of]
        BY <2>1, <3>1 DEF AnnouncedInv
      <4>2. attempt - 1 <= 2 * faults + (resp.of - 1)
        BY <2>1, <3>1 DEF BudgetInv, Paid
      <4>3. QED
        BY <4>1, <4>2, <3>1, <2>1, <1>r
    <3>2. CASE resp.status = 206
      <4>1. PICK u \in 1..resp.of : /\ attempt <= 2 * faults + (u - 1)
                                    /\ u = resp.of => announced = Sizes[resp.of]
        BY <2>1, <3>2 DEF BudgetInv, Paid
      <4>2. attempt - 1 <= 2 * faults + (u - 1)
        BY <4>1, <1>t, <2>1, <1>r
      <4>3. QED
        BY <4>1, <4>2, <3>2
    <3>3. QED
      BY <2>1, <3>1, <3>2 DEF RespInv
  <2>4. /\ u \in Nat /\ u >= 1 /\ u - 1 \in Nat /\ u <= resp.of /\ u <= version
        /\ \A x \in Nat : x + (u - 1) <= x + (version - 1)
    BY <2>1, <1>r, <1>t, <1>p
  <2>5. version' = version /\ announced' = announced /\ cancelled' = cancelled
    BY <2>1 DEF env
  <2>6. n \in Nat /\ written' \in Nat
    BY <2>1, <2>2, <1>t, Rests
  <2>7. CASE /\ Spoiled
             /\ \/ (cancelled \/ LastAttempt) /\ Fail /\ UNCHANGED attempt
                \/ Retry
    <3>1. /\ faults' \in 0..MaxAttempts
          /\ 2 * faults' + (u - 1) \in Nat /\ 2 * faults' + (version - 1) \in Nat
          /\ attempt + 1 <= 2 * faults' + (u - 1)
      BY <2>3, <2>4, <2>7, <1>t, FaultPays DEF BudgetInv
    <3>2. 2 * faults' + (u - 1) <= 2 * faults' + (version - 1)
      <4>1. faults' \in Nat
        BY <3>1, <1>t
      <4>2. \A x \in Nat : 2 * x \in Nat
        OBVIOUS
      <4>3. QED
        BY <4>1, <4>2, <2>4
    <3>3. attempt <= 2 * faults' + (u - 1) /\ attempt <= 2 * faults' + (version - 1)
      <4>1. \A x, y \in Nat : attempt + 1 <= x /\ x <= y => attempt <= x /\ attempt <= y
        BY <1>t
      <4>2. QED
        BY <4>1, <3>1, <3>2
    <3>4. CASE (cancelled \/ LastAttempt) /\ Fail
      <4>1. LastAttempt => 2 * faults' + (version - 1) >= MaxAttempts
        BY <3>3, <3>1, <1>l, <1>t
      <4>2. pc' = "done"
        BY <3>4, Outcomes
      <4>3. QED
        BY <3>1, <3>4, <4>1, <4>2, <2>5 DEF BudgetInv, FailureIsEarned
    <3>5. CASE Retry
      <4>1. pc' = "request" /\ attempt' = attempt + 1 /\ attempt' - 1 = attempt
        BY <3>5, <1>t, Outcomes
      <4>2. u = version => announced' \in {-1, Sizes[version]}
        BY <2>3, <2>4, <2>5, <2>1, <1>r
      <4>3. QED
        BY <3>1, <3>3, <4>1, <4>2, <2>4, <2>5 DEF BudgetInv, FailureIsEarned, Paid
    <3>6. QED
      BY <2>7, <3>4, <3>5
  <2>8. CASE /\ n = Rest /\ EndsShort(written + n) /\ UNCHANGED faults
             /\ \/ LastAttempt /\ Fail /\ UNCHANGED attempt
                \/ Retry
    <3>1. written' = Sizes[resp.of] /\ written' > 0
      BY <2>1, <2>2, <2>8, <1>r, Rests
    <3>2. announced # -1 /\ announced # Sizes[resp.of]
      BY <2>2, <2>8, <3>1 DEF EndsShort
    <3>3. u # resp.of /\ resp.status = 206
      BY <2>1, <2>3, <3>2 DEF RespInv
    <3>4. attempt <= 2 * faults + (u - 1)
      BY <2>3, <3>3
    <3>5. u + 1 \in 1..version /\ (u + 1 = version => resp.of = version)
      BY <2>1, <2>4, <3>3, <1>r, <1>t
    <3>6. CASE LastAttempt /\ Fail
      <4>1. 2 * faults + (version - 1) >= MaxAttempts
        <5>1. 2 * faults + (u - 1) <= 2 * faults + (version - 1)
          BY <2>4, <1>t
        <5>2. QED
          BY <5>1, <3>4, <3>6, <1>l, <1>t, <2>4
      <4>2. pc' = "done" /\ faults' = faults
        BY <3>6, <2>8, Outcomes
      <4>3. QED
        BY <4>1, <4>2, <2>5 DEF BudgetInv, FailureIsEarned
    <3>7. CASE Retry
      <4>1. pc' = "request" /\ attempt' = attempt + 1 /\ faults' = faults
        BY <3>7, <2>8, Outcomes
      <4>2. attempt' <= 2 * faults' + ((u + 1) - 1)
        BY <4>1, <3>4, <1>t, <2>4
      <4>3. u + 1 = version => written' >= Sizes[version]
        BY <3>1, <3>5, <1>t
      <4>4. QED
        BY <3>1, <3>5, <4>1, <4>2, <4>3, <2>5 DEF BudgetInv, FailureIsEarned, Paid
    <3>8. QED
      BY <2>8, <3>6, <3>7
  <2>9. CASE /\ Answer(resp.status, resp.of)
             /\ Spoiled \/ UNCHANGED faults
    <3>1. pc' = "done" /\ ~result'.err
      BY <2>9, Outcomes
    <3>2. faults' \in 0..MaxAttempts
      BY <2>9, FaultPays, <2>4 DEF BudgetInv
    <3>3. QED
      BY <3>1, <3>2 DEF BudgetInv, FailureIsEarned
  <2>10. QED
    BY <2>2, <2>7, <2>8, <2>9
<1>8. CASE Replace
  <2>1. /\ version' = version + 1 /\ version \in 1..version' /\ pc # "done"
        /\ UNCHANGED <<pc, attempt, written, announced, resp, faults>>
    BY <1>8, <1>t DEF Replace
  <2>2. Paid(version)' = Paid(version) + 1 /\ Paid(version) \in Nat
    BY <2>1, <1>t DEF Paid
  <2>3. ASSUME pc = "request", written = 0 PROVE attempt - 1 <= 2 * faults + (version' - 1)
    <3>1. 2 * faults + (version - 1) <= 2 * faults + (version' - 1)
      BY <1>p, <1>t, <2>1
    <3>2. 2 * faults + (version - 1) \in Nat /\ 2 * faults + (version' - 1) \in Nat
      BY <1>t, <2>1
    <3>3. \A x, y \in Nat : attempt - 1 <= x /\ x <= y => attempt - 1 <= y
      BY <1>t
    <3>4. QED
      BY <3>1, <3>2, <3>3, <2>3, <1>a
  <2>4. ASSUME pc = "request", written > 0
        PROVE  \E u \in 1..version' : attempt <= Paid(u) /\ u # version'
    <3>1. PICK u \in 1..version : attempt <= Paid(u)
      BY <2>4 DEF BudgetInv
    <3>2. u \in 1..version' /\ u # version'
      BY <2>1, <1>t
    <3>3. QED
      BY <3>1, <3>2
  <2>5. QED
    BY <2>1, <2>3, <2>4 DEF BudgetInv, FailureIsEarned, Paid
<1>9. CASE Cancel \/ UNCHANGED downloadVars
  <2>1. /\ UNCHANGED <<pc, version, attempt, written, announced, resp, faults, result>>
        /\ pc = "done" => UNCHANGED cancelled
    BY <1>9 DEF Cancel, downloadVars
  <2>2. QED
    BY <2>1 DEF BudgetInv, FailureIsEarned, Paid
<1>10. QED
  BY <1>1, <1>2, <1>3, <1>4, <1>5, <1>6, <1>7, <1>8, <1>9 DEF DownloadNext, Attempt, Terminated

\* A download fails for want of attempts only when faults and publications have used
\* them, whatever their order: what each of them may cost is bounded.
THEOREM FailuresAreEarned == DownloadSpec => []FailureIsEarned
<1>1. DownloadInit => BudgetInv
  BY SizesArePositive DEF DownloadInit, BudgetInv, FailureIsEarned, Paid
<1>2. BudgetInv => FailureIsEarned
  BY DEF BudgetInv
<1> QED
  BY <1>1, <1>2, ReceivedInitially, ReceivedStep, BudgetStep, PTL DEF DownloadSpec
==============================================================================

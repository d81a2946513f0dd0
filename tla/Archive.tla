------------------------------- MODULE Archive -------------------------------
(***************************************************************************)
(* The sealed archive, internal/archive/archive.go: fetchOnce and the       *)
(* retries of FetchEntetes and FetchSession, run by several goroutines of   *)
(* one process, over the directory Root and the tables raw.document and     *)
(* raw.retrieval.                                                          *)
(*                                                                         *)
(* The bytes of a document are a value of Contents, which stands for their  *)
(* SHA-256 as well; the transfer itself is one step here and is module      *)
(* Download. The ETag a server gives to a content is the content.          *)
(***************************************************************************)
EXTENDS Integers

CONSTANTS
    Urls,
    Contents,
    Workers,      \* goroutines that may be in Fetch at the same time
    Days,         \* bound: the dates the clock shows, 1..Days
    MaxTries,     \* FetchEntetes: attempts of fetchOnce
    NoContent     \* no document, no ETag

ASSUME ArchiveAssumption ==
    /\ Days \in Nat \ {0}
    /\ MaxTries \in Nat \ {0}
    /\ NoContent \notin Contents

VARIABLES
    server,       \* what each URL serves
    today,
    files,        \* the paths of Root that exist
    docs,         \* raw.document: storage_key of each sealed content
    latest,       \* raw.retrieval: per URL, its last row that has a document
    prefetched,   \* WithPrefetched: per URL, what the process fetched ahead
    worker,       \* per goroutine, its call of Fetch
    served        \* history: per goroutine, what its URL served during the call

outside == <<server, today>>
vars == <<server, today, files, docs, latest, prefetched, worker, served>>

\* The storage key: the date of the sealing and the SHA-256.
Paths == [day : 1..Days, sha : Contents]
NoPath == [day |-> 0, sha |-> NoContent]

\* A row of raw.retrieval, as lookupPreviousRetrieval reads it.
Rows == [doc : Contents \union {NoContent}, etag : Contents \union {NoContent}]
NoRow == [doc |-> NoContent, etag |-> NoContent]

\* A Fetched.
Results == [doc : Contents \union {NoContent}, path : Paths \union {NoPath}]
NoResult == [doc |-> NoContent, path |-> NoPath]

NoUrl == NoContent
Idle == [pc |-> "idle", url |-> NoUrl, ahead |-> FALSE, try |-> 0,
         prev |-> NoRow, got |-> NoContent, out |-> NoResult]

Init ==
    /\ server \in [Urls -> Contents]
    /\ today = 1
    /\ files = {}
    /\ docs = [c \in Contents |-> NoPath]
    /\ latest = [u \in Urls |-> NoRow]
    /\ prefetched = [u \in Urls |-> NoResult]
    /\ worker = [w \in Workers |-> Idle]
    /\ served = [w \in Workers |-> {}]
-----------------------------------------------------------------------------
At(w, pc) == worker[w].pc = pc
Goto(w, pc) == worker' = [worker EXCEPT ![w].pc = pc]

\* The call is over: what is left of it is its result.
Ends(w, pc, out) ==
    worker' = [worker EXCEPT ![w] =
        [Idle EXCEPT !.pc = pc, !.url = worker[w].url, !.ahead = worker[w].ahead, !.out = out]]
Url(w) == worker[w].url
Quiet == \A w \in Workers : At(w, "idle")

\* The path a document has according to raw.document.
KeyOf(c) == docs[c]

\* A 304 is only asked for when the file of the last row is still there.
Usable_bug(row) == row.doc # NoContent
Usable(row) == row.doc # NoContent /\ KeyOf(row.doc) \in files

\* The storage key of bytes sealed now.
PathNow(c) == [day |-> today, sha |-> c]

\* What is written in the etag column of the row of a prefetched document.
ReplayEtag_bug(w) == latest[Url(w)].etag
ReplayEtag(w) == NoContent

\* The rows a Fetch inserts.
Insert(w, doc, etag) == latest' = [latest EXCEPT ![Url(w)] = [doc |-> doc, etag |-> etag]]
-----------------------------------------------------------------------------
(* A call of Fetch                                                         *)

\* PrefetchAll calls Fetch without a map; a connector with the map in its ctx.
Call(w) ==
    /\ At(w, "idle")
    /\ \E u \in Urls, ahead \in BOOLEAN :
        /\ worker' = [worker EXCEPT ![w] =
               [Idle EXCEPT !.pc = "start", !.url = u, !.ahead = ahead, !.try = 1]]
        /\ served' = [served EXCEPT ![w] = {server[u]}]
    /\ UNCHANGED <<outside, files, docs, latest, prefetched>>

\* fetchOnce, prefetched: a row for this source and this run, and no GET.
Replay(w) ==
    /\ At(w, "start") /\ ~worker[w].ahead
    /\ prefetched[Url(w)].doc # NoContent
    /\ Insert(w, prefetched[Url(w)].doc, ReplayEtag(w))
    /\ Ends(w, "replayed", prefetched[Url(w)])
    /\ UNCHANGED <<outside, files, docs, prefetched, served>>

\* lookupPreviousRetrieval: the last row of this URL, if its file is there.
Lookup(w) ==
    /\ At(w, "start")
    /\ worker[w].ahead \/ prefetched[Url(w)].doc = NoContent
    /\ worker' = [worker EXCEPT ![w].pc = "get",
           ![w].prev = IF Usable(latest[Url(w)]) THEN latest[Url(w)] ELSE NoRow]
    /\ UNCHANGED <<outside, files, docs, latest, prefetched, served>>

\* The server confirms the ETag that was sent.
GetNotModified(w) ==
    /\ At(w, "get")
    /\ worker[w].prev.etag = server[Url(w)]
    /\ Goto(w, "attest")
    /\ UNCHANGED <<outside, files, docs, latest, prefetched, served>>

\* A body, whole (see Download).
GetBody(w) ==
    /\ At(w, "get")
    /\ worker' = [worker EXCEPT ![w].pc = "place", ![w].got = server[Url(w)], ![w].prev = NoRow]
    /\ UNCHANGED <<outside, files, docs, latest, prefetched, served>>

\* The row of a 304, with the previous document and the ETag.
Attest(w) ==
    /\ At(w, "attest")
    /\ LET row == worker[w].prev
       IN  /\ Insert(w, row.doc, row.etag)
           /\ Ends(w, "done", [doc |-> row.doc, path |-> KeyOf(row.doc)])
    /\ UNCHANGED <<outside, files, docs, prefetched, served>>

\* The temporary file takes its final name, unless a file has that name.
Place(w) ==
    /\ At(w, "place")
    /\ files' = files \union {PathNow(worker[w].got)}
    /\ worker' = [worker EXCEPT ![w].pc = "document",
           ![w].out = [doc |-> worker[w].got, path |-> PathNow(worker[w].got)]]
    /\ UNCHANGED <<outside, docs, latest, prefetched, served>>

\* The row of raw.document; ON CONFLICT (sha256) keeps the key it has.
KeyInserted_bug(w) == PathNow(worker[w].got)     \* the date read a second time
KeyInserted(w) == worker[w].out.path
Register(w) == docs' = [docs EXCEPT ![worker[w].got] = IF @ = NoPath THEN KeyInserted(w) ELSE @]
InsertDocument(w) ==
    /\ At(w, "document")
    /\ Register(w)
    /\ Goto(w, "retrieval")
    /\ UNCHANGED <<outside, files, latest, prefetched, served>>

\* The row of raw.retrieval, with the ETag of the answer.
InsertRetrieval(w) ==
    /\ At(w, "retrieval")
    /\ Insert(w, worker[w].got, worker[w].got)
    /\ Ends(w, "done", worker[w].out)
    /\ UNCHANGED <<outside, files, docs, prefetched, served>>

\* The loop of FetchEntetes and FetchSession is at its last attempt.
LastTry(w) == worker[w].try = MaxTries
NextTry(w) == [worker[w] EXCEPT !.pc = "start", !.try = @ + 1, !.prev = NoRow,
                                !.got = NoContent, !.out = NoResult]

\* fetchOnce returns an error: the network, a status, or the database, which
\* may have committed the row nevertheless. Wait and try again, or give up.
Fails(w) ==
    /\ \/ At(w, "get") /\ UNCHANGED <<docs, latest>>
       \/ At(w, "start") /\ UNCHANGED <<docs, latest>>
       \/ At(w, "place") /\ UNCHANGED <<docs, latest>>
       \/ At(w, "document") /\ UNCHANGED latest /\ (UNCHANGED docs \/ Register(w))
       \/ At(w, "retrieval") /\ UNCHANGED docs
            /\ (UNCHANGED latest \/ Insert(w, worker[w].got, worker[w].got))
       \/ At(w, "attest") /\ UNCHANGED docs
            /\ (UNCHANGED latest \/ Insert(w, worker[w].prev.doc, worker[w].prev.etag))
    /\ worker' = [worker EXCEPT ![w] = IF LastTry(w) THEN Idle ELSE NextTry(w)]
    /\ served' = IF At(w, "idle")' THEN [served EXCEPT ![w] = {}] ELSE served
    /\ UNCHANGED <<outside, files, prefetched>>

\* Fetch returns; what PrefetchAll gets goes into the map of its ctx.
Return(w) ==
    /\ At(w, "done") \/ At(w, "replayed")
    /\ prefetched' = IF worker[w].ahead
                     THEN [prefetched EXCEPT ![Url(w)] = worker[w].out] ELSE prefetched
    /\ worker' = [worker EXCEPT ![w] = Idle]
    /\ served' = [served EXCEPT ![w] = {}]
    /\ UNCHANGED <<outside, files, docs, latest>>

Fetch(w) ==
    \/ Call(w) \/ Replay(w) \/ Lookup(w) \/ GetNotModified(w) \/ GetBody(w)
    \/ Attest(w) \/ Place(w) \/ InsertDocument(w) \/ InsertRetrieval(w)
    \/ Fails(w) \/ Return(w)
-----------------------------------------------------------------------------
(* The outside                                                             *)

\* A producer replaces what a URL serves.
Publish(u, c) ==
    /\ server[u] # c
    /\ server' = [server EXCEPT ![u] = c]
    /\ served' = [w \in Workers |-> IF Url(w) = u /\ ~At(w, "idle")
                                    THEN served[w] \union {c} ELSE served[w]]
    /\ UNCHANGED <<today, files, docs, latest, prefetched, worker>>

Midnight ==
    /\ today < Days
    /\ today' = today + 1
    /\ UNCHANGED <<server, files, docs, latest, prefetched, worker, served>>

\* The process dies or ends; a new one starts with no map.
Exit ==
    /\ worker' = [w \in Workers |-> Idle]
    /\ prefetched' = [u \in Urls |-> NoResult]
    /\ served' = [w \in Workers |-> {}]
    /\ UNCHANGED <<outside, files, docs, latest>>

\* Between two processes, a file disappears: a cleaning, an archive rebuilt in
\* part, another worktree.
Lose(f) ==
    /\ Quiet /\ prefetched = [u \in Urls |-> NoResult]
    /\ files' = files \ {f}
    /\ UNCHANGED <<server, today, docs, latest, prefetched, worker, served>>

Next ==
    \/ \E w \in Workers : Fetch(w)
    \/ \E u \in Urls, c \in Contents : Publish(u, c)
    \/ Midnight
    \/ Exit
    \/ \E f \in files : Lose(f)

Spec == Init /\ [][Next]_vars
-----------------------------------------------------------------------------
(* Properties                                                              *)

Calls == [pc : {"idle", "start", "get", "attest", "place", "document", "retrieval",
                "done", "replayed"},
          url : Urls \union {NoUrl}, ahead : BOOLEAN, try : 0..MaxTries, prev : Rows,
          got : Contents \union {NoContent}, out : Results]

TypeOK ==
    /\ server \in [Urls -> Contents]
    /\ today \in 1..Days
    /\ files \subseteq Paths
    /\ docs \in [Contents -> Paths \union {NoPath}]
    /\ latest \in [Urls -> Rows]
    /\ prefetched \in [Urls -> Results]
    /\ worker \in [Workers -> Calls]
    /\ served \in [Workers -> SUBSET Contents]

\* raw.document never names a file that was not written, whatever the crashes,
\* the concurrent fetches and the midnights between the rename and the INSERT:
\* the key of a new row is the path of a file, and of the same bytes.
SealedWithItsFile ==
    [][\A c \in Contents :
        KeyOf(c) = NoPath /\ KeyOf(c)' # NoPath => KeyOf(c)'.sha = c /\ KeyOf(c)' \in files']_vars

\* A caller of Fetch can open the file it is given, even after a 304 or a replay.
FetchedIsReadable ==
    \A w \in Workers :
        At(w, "done") \/ At(w, "replayed") =>
            worker[w].out.path \in files /\ worker[w].out.path.sha = worker[w].out.doc

\* What a fetch that asked the network attests was served by its URL during the
\* call, a 304 included.
AttestsWhatWasServed ==
    \A w \in Workers : At(w, "done") => worker[w].out.doc \in served[w]
==============================================================================

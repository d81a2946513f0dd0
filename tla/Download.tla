------------------------------- MODULE Download -------------------------------
(***************************************************************************)
(* downloadBody of internal/archive/archive.go: one GET, resumed by Range   *)
(* after a network error, a cut or a retryable status, against a server     *)
(* whose document may be replaced between two attempts.                     *)
(*                                                                         *)
(* A document is a sequence of chunks; a chunk is named by the version it   *)
(* belongs to and its place in it, so that tmp shows where its bytes come   *)
(* from. The server serves versions 1, 2, ... in order, one at a time.      *)
(*                                                                         *)
(* No name is one of Archive's: ArchiveProofs extends both.                 *)
(***************************************************************************)
EXTENDS Integers, Sequences

CONSTANTS
    MaxAttempts,     \* const maxAttempts
    Sizes,           \* length of each successive version, a sequence
    Requests         \* what is downloaded, and from which servers: see remote

ASSUME DownloadAssumption ==
    /\ MaxAttempts \in Nat \ {0}
    /\ Sizes \in Seq(Nat \ {0}) /\ Sizes # <<>>
    /\ Requests \subseteq [sized : BOOLEAN, known : 0..Len(Sizes), other : BOOLEAN]

VARIABLES
    remote,       \* sized: it announces sizes (Content-Length on a 200); known: the
                  \* version whose ETag the request carries, 0 if none; other: it may
                  \* answer a 2xx other than 200 and 206
    version,      \* what the server serves now
    pc,           \* "request", "copy", "done"
    attempt,      \* 1..MaxAttempts
    tmp,          \* the temporary file
    written,      \* bytes the loop believes it has written
    announced,    \* announcedSize, -1 when unknown
    resp,         \* the answer being read: its status, version, first chunk
    cancelled,    \* ctx is cancelled
    result,       \* what downloadBody returns
    faults        \* history: answers the network or the server spoiled

env == <<remote, version, cancelled>>
downloadVars == <<remote, version, pc, attempt, tmp, written, announced, resp, cancelled, result, faults>>

Versions == 1..Len(Sizes)
Body(v) == [i \in 1..Sizes[v] |-> [of |-> v, at |-> i]]
NoResponse == [status |-> 0, of |-> 0, from |-> 0, told |-> FALSE]
NoAnswer == [err |-> FALSE, status |-> 0, etag |-> 0]

DownloadInit ==
    /\ remote \in Requests
    /\ version = 1
    /\ pc = "request"
    /\ attempt = 1
    /\ tmp = <<>>
    /\ written = 0
    /\ announced = -1
    /\ resp = NoResponse
    /\ cancelled = FALSE
    /\ result = NoAnswer
    /\ faults = 0
-----------------------------------------------------------------------------
(* Helpers of the loop                                                     *)

\* restart: the temporary file is emptied and the announced size forgotten.
Restart_bug == tmp' = <<>> /\ written' = 0 /\ UNCHANGED announced
Restart == tmp' = <<>> /\ written' = 0 /\ announced' = -1

\* The size announced by a first answer that is read from its start.
AnnouncedBy200(v) == IF remote.sized THEN Sizes[v] ELSE -1
\* Content-Range of a 206 always carries the total of what is served.
AnnouncedBy206(v) == IF announced < 0 THEN Sizes[v] ELSE announced

\* A body that ended without a network error, yet shorter than announced.
EndsShort_bug(total) == FALSE
EndsShort(total) == announced >= 0 /\ total # announced

Fail == pc' = "done" /\ result' = [err |-> TRUE, status |-> 0, etag |-> 0]
Answer(status, v) == pc' = "done" /\ result' = [err |-> FALSE, status |-> status, etag |-> v]

\* Another attempt if the budget allows one and ctx is alive, else Giving up.
LastAttempt == attempt >= MaxAttempts
Retry_bug == pc' = "request" /\ UNCHANGED attempt /\ UNCHANGED result
Retry == pc' = "request" /\ attempt' = attempt + 1 /\ UNCHANGED result

\* The history counts no further than the budget of attempts.
Spoiled == faults' = IF faults < MaxAttempts THEN faults + 1 ELSE faults
-----------------------------------------------------------------------------
(* One attempt: the request and its answer                                 *)

Asks == pc = "request"
Resumes == written > 0

\* client.Do fails: refused, timed out, or ctx is cancelled.
RequestFails ==
    /\ Asks
    /\ \/ (cancelled \/ LastAttempt) /\ Fail /\ UNCHANGED attempt
       \/ ~cancelled /\ ~LastAttempt /\ Retry
    /\ Spoiled
    /\ UNCHANGED <<env, tmp, written, announced, resp>>

\* 200: the whole document, even to a request that asked for a range.
Answer200 ==
    /\ Asks /\ ~cancelled
    /\ IF Resumes THEN tmp' = <<>> /\ written' = 0 ELSE UNCHANGED <<tmp, written>>
    /\ announced' = IF remote.sized THEN AnnouncedBy200(version) ELSE IF Resumes THEN -1 ELSE announced
    /\ resp' = [status |-> 200, of |-> version, from |-> 1, told |-> remote.sized]
    /\ pc' = "copy"
    /\ UNCHANGED <<env, attempt, result, faults>>

\* 206: the rest of what the server serves now, from the byte asked for.
Answer206 ==
    /\ Asks /\ ~cancelled
    /\ Resumes /\ written < Sizes[version]
    /\ announced' = AnnouncedBy206(version)
    /\ resp' = [status |-> 206, of |-> version, from |-> written + 1, told |-> TRUE]
    /\ pc' = "copy"
    /\ UNCHANGED <<env, attempt, tmp, written, result, faults>>

\* 416: the bytes already written reach past the end of what is served now.
Answer416 ==
    /\ Asks /\ ~cancelled
    /\ Resumes /\ written >= Sizes[version]
    /\ Restart
    /\ \/ LastAttempt /\ Fail /\ UNCHANGED attempt
       \/ ~LastAttempt /\ Retry
    /\ UNCHANGED <<env, resp, faults>>

\* 429, 502, 503, 504: wait and try again, or hand the status over.
AnswerRetryable ==
    /\ Asks /\ ~cancelled
    /\ \/ LastAttempt /\ Answer(503, 0) /\ UNCHANGED attempt
       \/ ~LastAttempt /\ Retry
    /\ Spoiled
    /\ UNCHANGED <<env, tmp, written, announced, resp>>

\* Any other status is final and its body is never copied: a 304 to the ETag
\* sent, a 4xx, and a 2xx that is neither 200 nor 206.
AnswerFinal ==
    /\ Asks /\ ~cancelled
    /\ \/ remote.known = version /\ Answer(304, version)
       \/ Answer(404, 0)
       \/ remote.other /\ Answer(202, version)
    /\ UNCHANGED <<env, attempt, tmp, written, announced, resp, faults>>

\* What the answer still holds, and what of it reaches the file.
Rest == Sizes[resp.of] - resp.from + 1
Chunk(n) == [i \in 1..n |-> [of |-> resp.of, at |-> resp.from + i - 1]]

\* io.Copy reports an error after n chunks: resume after what was written.
CopyCut ==
    /\ pc = "copy"
    /\ \E n \in 0..Rest :
        /\ tmp' = tmp \o Chunk(n)
        /\ written' = written + n
    /\ \/ (cancelled \/ LastAttempt) /\ Fail /\ UNCHANGED attempt
       \/ ~cancelled /\ ~LastAttempt /\ Retry
    /\ resp' = NoResponse
    /\ Spoiled
    /\ UNCHANGED <<env, announced>>

\* io.Copy reports no error after n chunks. All of them, or fewer when a relay
\* closes the connection cleanly; an answer that does not tell its length is
\* chunked, its end is explicit, and a relay cannot do that.
CopyEnds ==
    /\ pc = "copy"
    /\ \E n \in 0..Rest :
        /\ n < Rest => resp.told
        /\ tmp' = tmp \o Chunk(n)
        /\ written' = written + n
        /\ IF n < Rest THEN Spoiled ELSE UNCHANGED faults
        /\ IF EndsShort(written + n)
           THEN \/ LastAttempt /\ Fail /\ UNCHANGED attempt
                \/ ~LastAttempt /\ Retry
           ELSE Answer(resp.status, resp.of) /\ UNCHANGED attempt
    /\ resp' = NoResponse
    /\ UNCHANGED <<env, announced>>
-----------------------------------------------------------------------------
(* The environment                                                         *)

\* The producer publishes the next version.
Replace ==
    /\ pc # "done"
    /\ version < Len(Sizes)
    /\ version' = version + 1
    /\ UNCHANGED <<remote, pc, attempt, tmp, written, announced, resp, cancelled, result, faults>>

Cancel ==
    /\ pc # "done" /\ ~cancelled
    /\ cancelled' = TRUE
    /\ UNCHANGED <<remote, version, pc, attempt, tmp, written, announced, resp, result, faults>>

Terminated == pc = "done" /\ UNCHANGED downloadVars

Attempt ==
    \/ RequestFails \/ Answer200 \/ Answer206 \/ Answer416
    \/ AnswerRetryable \/ AnswerFinal \/ CopyCut \/ CopyEnds

DownloadNext == Attempt \/ Replace \/ Cancel \/ Terminated

DownloadSpec == DownloadInit /\ [][DownloadNext]_downloadVars

\* Every request is answered, or times out (http.Client has a Timeout).
FairSpec == DownloadSpec /\ WF_downloadVars(Attempt)
-----------------------------------------------------------------------------
(* Properties                                                              *)

DownloadTypeOK ==
    /\ remote \in Requests
    /\ version \in Versions
    /\ pc \in {"request", "copy", "done"}
    /\ attempt \in 1..MaxAttempts
    /\ tmp \in Seq([of : Versions, at : Nat \ {0}])
    /\ written \in Nat
    /\ announced \in Nat \union {-1}
    /\ resp \in [status : {0, 200, 206}, of : Versions \union {0}, from : Nat,
                 told : BOOLEAN]
    /\ cancelled \in BOOLEAN
    /\ result \in [err : BOOLEAN, status : {0, 200, 202, 206, 304, 404, 503},
                   etag : Versions \union {0}]
    /\ faults \in Nat

\* fetchOnce seals what a 2xx left in the temporary file.
Sealable == pc = "done" /\ ~result.err /\ result.status \in 200..299

Contributors == {tmp[i].of : i \in 1..Len(tmp)}

\* A sealed body received from one version is the whole of that version: no
\* truncated document is sealed, and a later 304 to the ETag recorded with it
\* confirms these very bytes. (A 2xx that is neither 200 nor 206 is not copied,
\* yet seals the temporary file as it stands.)
SealedIsWhole ==
    (Sealable /\ result.status # 202 /\ Contributors = {result.etag}) => tmp = Body(result.etag)

\* A download only fails for want of attempts when the network, the server and
\* the producer have spoiled enough of them: a fault costs two attempts at most
\* (the one it spoils, and a 416 that starts over), a publication one more.
FailureIsEarned ==
    (pc = "done" /\ result.err /\ ~cancelled) =>
        2 * faults + (version - 1) >= MaxAttempts

\* Every download ends.
Terminates == <>(pc = "done")
==============================================================================

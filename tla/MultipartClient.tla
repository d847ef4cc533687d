-------------------------- MODULE MultipartClient --------------------------
(***************************************************************************)
(* The browser's upload engine: uploadFileDirect in                        *)
(* apps/web/src/features/files/multipartUpload.ts.                         *)
(*                                                                         *)
(* JavaScript runs one handler at a time, so an action is the code between *)
(* two awaits: the workers of the pool, the control flow around them and   *)
(* the user's Cancel interleave only there.  Every request may fail, and   *)
(* may fail at the client after the other side took it: a PUT given up or  *)
(* aborted can still land in storage, and complete() can still commit.     *)
(*                                                                         *)
(* Abstractions.  The API and S3 are what this client sees of them: the    *)
(* session is active or over, a part is stored or not; UploadsService      *)
(* models how they get there.  Chunks, ETags, progress, and the length of  *)
(* a backoff are left out.                                                 *)
(***************************************************************************)
EXTENDS Integers, FiniteSets

CONSTANTS
    TotalParts,            \* parts of the file
    Workers,               \* the CONCURRENCY workers of the pool
    MAX_PART_ATTEMPTS,     \* tries of one part in one round
    MAX_SESSION_RESUMES    \* rounds after the first

ASSUME EngineAssumption ==
    /\ TotalParts \in Nat \ {0}
    /\ MAX_PART_ATTEMPTS \in Nat \ {0}
    /\ MAX_SESSION_RESUMES \in Nat
ASSUME WorkersAssumption == IsFiniteSet(Workers) /\ Workers # {}

VARIABLES
    stage,      \* where uploadFileDirect awaits
    outcome,    \* how its promise settled
    aborted,    \* the flag abort() sets
    round,      \* rounds of the resume loop begun before this one
    pending,    \* parts of this round no worker has taken
    failed,     \* parts of this round that used up their attempts
    cancelled,  \* runWorkers: some worker ended with UploadCancelledError
    completed,  \* parts whose PUT was answered
    worker,     \* where each worker awaits, and on what
    session,    \* the session, as the API keeps it
    reported,   \* UploadPart rows: what getStatus answers
    flying,     \* parts whose PUT may still reach storage
    stored,     \* parts S3 has taken into the upload
    requests    \* "complete" and "delete" requests on their way to the API

control == <<stage, outcome, round>>
pool    == <<pending, failed, cancelled, worker>>
service == <<session, reported, flying, stored, requests>>
engineVars == <<stage, outcome, aborted, round, pending, failed, cancelled,
                completed, worker, session, reported, flying, stored, requests>>

-----------------------------------------------------------------------------
Parts  == 1 .. TotalParts
Stages == {"initiate", "workers", "status", "backoff", "complete", "settled"}
Awaits == {"loop", "url", "put", "report", "sleep", "done"}

At(w, await) == stage = "workers" /\ worker[w].at = await
Part(w)      == worker[w].part

Await(await, n, k) == [at |-> await, part |-> n, attempt |-> k]
Goto(w, await) ==
    worker' = [worker EXCEPT ![w] = Await(await, @.part, @.attempt)]

\* uploadPart threw UploadCancelledError: the worker returns.
Cancelled(w) ==
    /\ cancelled' = TRUE
    /\ worker' = [worker EXCEPT ![w] = Await("done", 0, 0)]

Settle(how) ==
    stage' = "settled" /\ outcome' = how /\ UNCHANGED round

EngineTypeOK ==
    /\ stage \in Stages
    /\ outcome \in {"none", "resolved", "failed", "cancelled"}
    /\ aborted \in BOOLEAN /\ cancelled \in BOOLEAN
    /\ round \in 0 .. MAX_SESSION_RESUMES
    /\ pending \subseteq Parts /\ failed \subseteq Parts
    /\ completed \subseteq Parts /\ reported \subseteq Parts
    /\ flying \subseteq Parts /\ stored \subseteq Parts
    /\ worker \in [Workers -> [at : Awaits, part : Nat,
                               attempt : 0 .. MAX_PART_ATTEMPTS - 1]]
    /\ session \in {"none", "active", "completed", "over"}
    /\ requests \subseteq {"complete", "delete"}

EngineInit ==
    /\ stage = "initiate" /\ outcome = "none" /\ round = 0
    /\ aborted = FALSE /\ cancelled = FALSE
    /\ pending = {} /\ failed = {} /\ completed = {}
    /\ worker = [w \in Workers |-> Await("done", 0, 0)]
    /\ session = "none"
    /\ reported = {} /\ flying = {} /\ stored = {} /\ requests = {}

-----------------------------------------------------------------------------
(* The control flow around the pool *)

\* runWorkers: a fresh pool over the queue, of min(CONCURRENCY, |queue|) workers.
RunWorkers(queue) ==
    /\ pending' = queue /\ failed' = {} /\ cancelled' = FALSE
    /\ stage' = "workers" /\ UNCHANGED outcome
    /\ \E pool_ \in SUBSET Workers :
        /\ Cardinality(pool_) = IF Cardinality(queue) < Cardinality(Workers)
                                THEN Cardinality(queue) ELSE Cardinality(Workers)
        /\ worker' = [w \in Workers |->
                        Await(IF w \in pool_ THEN "loop" ELSE "done", 0, 0)]

\* POST initiate is answered.
Initiated ==
    /\ stage = "initiate"
    /\ session' = "active"
    /\ \/ aborted /\ Settle("cancelled") /\ UNCHANGED pool
       \/ ~aborted /\ RunWorkers(Parts) /\ UNCHANGED round
    /\ UNCHANGED <<aborted, completed, reported, flying, stored, requests>>

\* It fails, or its answer is lost and the session stays behind.
InitiateFails ==
    /\ stage = "initiate"
    /\ session' \in {"none", "active"}
    /\ Settle("failed")
    /\ UNCHANGED <<aborted, pool, completed, reported, flying, stored, requests>>

\* throwIfAborted, then POST complete.
Finalize ==
    \/ aborted /\ Settle("cancelled") /\ UNCHANGED requests
    \/ /\ ~aborted
       /\ stage' = "complete" /\ UNCHANGED <<outcome, round>>
       /\ requests' = requests \cup {"complete"}

\* Promise.all of the workers.
PoolDone ==
    /\ stage = "workers" /\ \A w \in Workers : worker[w].at = "done"
    /\ \/ cancelled /\ Settle("cancelled") /\ UNCHANGED requests
       \/ ~cancelled /\ failed = {} /\ Finalize
       \/ /\ ~cancelled /\ failed # {} /\ round >= MAX_SESSION_RESUMES
          /\ Settle("failed") /\ UNCHANGED requests
       \/ /\ ~cancelled /\ failed # {} /\ round < MAX_SESSION_RESUMES
          /\ stage' = "status" /\ UNCHANGED <<outcome, round, requests>>
    /\ UNCHANGED <<aborted, pool, completed, session, reported, flying, stored>>

Missing == Parts \ (reported \cup completed)

\* Mutant of QueueMissing: the server's answer alone decides.
QueueUnreported == pending' = Parts \ reported

QueueMissing == pending' = Missing

\* getStatus, which answers whatever became of the session.
StatusAnswered ==
    /\ stage = "status"
    /\ \/ aborted /\ Settle("cancelled") /\ UNCHANGED pending
       \/ /\ ~aborted /\ QueueMissing
          /\ stage' = "backoff" /\ UNCHANGED <<outcome, round>>
    /\ UNCHANGED <<aborted, failed, cancelled, completed, worker, service>>

StatusFails ==
    /\ stage = "status"
    /\ Settle("failed")
    /\ UNCHANGED <<aborted, pool, completed, service>>

\* The next round.  Cancel is not looked at here: the workers will.
Resume ==
    /\ stage = "backoff"
    /\ IF pending = {}
       THEN Finalize /\ UNCHANGED pool
       ELSE /\ RunWorkers(pending) /\ round' = round + 1
            /\ UNCHANGED requests
    /\ UNCHANGED <<aborted, completed, session, reported, flying, stored>>

\* The answer of POST complete settles the promise; aborted is not looked at.
CompleteAnswered ==
    /\ stage = "complete"
    /\ \/ session = "completed" /\ "complete" \notin requests /\ Settle("resolved")
       \/ Settle("failed")
    /\ UNCHANGED <<aborted, pool, completed, service>>

-----------------------------------------------------------------------------
(* A worker of the pool: the loop of runWorkers around uploadPart *)

\* pending.shift(): parts are queued in ascending order.
TakePart(w) ==
    /\ At(w, "loop") /\ pending # {} /\ ~cancelled
    /\ \E n \in pending :
        /\ \A m \in pending : n <= m
        /\ pending' = pending \ {n}
        /\ IF aborted
           THEN Cancelled(w)
           ELSE /\ worker' = [worker EXCEPT ![w] = Await("url", n, 0)]
                /\ UNCHANGED cancelled
    /\ UNCHANGED <<control, aborted, failed, completed, service>>

Leave(w) ==
    /\ At(w, "loop")
    /\ pending = {} \/ cancelled
    /\ worker' = [worker EXCEPT ![w] = Await("done", 0, 0)]
    /\ UNCHANGED <<control, aborted, pending, failed, cancelled, completed, service>>

\* Mutant of UrlAnswered: throwIfAborted is missing after the await.
UrlAnsweredUnchecked(w) ==
    /\ At(w, "url") /\ session = "active"
    /\ Goto(w, "put")
    /\ flying' = flying \cup ({Part(w)} \ stored)
    /\ UNCHANGED <<control, aborted, pending, failed, cancelled, completed,
                   session, reported, stored, requests>>

\* part-urls is answered, for an active session only; the PUT starts.
UrlAnswered(w) ==
    /\ At(w, "url") /\ session = "active"
    /\ \/ aborted /\ Cancelled(w) /\ UNCHANGED flying
       \/ /\ ~aborted /\ Goto(w, "put") /\ UNCHANGED cancelled
          /\ flying' = flying \cup ({Part(w)} \ stored)
    /\ UNCHANGED <<control, aborted, pending, failed, completed,
                   session, reported, stored, requests>>

\* Mutant of PutAnswered: counted as done when the request ends, not when S3
\* has answered it.
PutEnded(w) ==
    /\ At(w, "put")
    /\ completed' = completed \cup {Part(w)}
    /\ Goto(w, "report")
    /\ UNCHANGED <<control, aborted, pending, failed, cancelled, service>>

PutAnswered(w) ==
    /\ At(w, "put") /\ Part(w) \in stored
    /\ completed' = completed \cup {Part(w)}
    /\ Goto(w, "report")
    /\ UNCHANGED <<control, aborted, pending, failed, cancelled, service>>

\* The API refuses or cannot be reached, or the PUT fails at the client.
TryFails(w) ==
    /\ At(w, "url") \/ At(w, "put")
    /\ Goto(w, "sleep")
    /\ UNCHANGED <<control, aborted, pending, failed, cancelled, completed, service>>

\* reportPart upserts the row for an active session, or fails: "informational".
Report(w) ==
    /\ At(w, "report")
    /\ \/ session = "active" /\ reported' = reported \cup {Part(w)}
       \/ UNCHANGED reported
    /\ Goto(w, "loop")
    /\ UNCHANGED <<control, aborted, pending, failed, cancelled, completed,
                   session, flying, stored, requests>>

\* Mutant of Retry: the attempt counter is reset, so that a part never fails.
RetryForever(w) ==
    /\ At(w, "sleep")
    /\ \/ aborted /\ Cancelled(w)
       \/ ~aborted /\ Goto(w, "url") /\ UNCHANGED cancelled
    /\ UNCHANGED <<control, aborted, pending, failed, completed, service>>

\* The backoff is over: the next attempt, or, without a look at aborted, the
\* part has failed.
Retry(w) ==
    /\ At(w, "sleep")
    /\ LET next == worker[w].attempt + 1 IN
       \/ /\ next < MAX_PART_ATTEMPTS /\ aborted /\ Cancelled(w)
          /\ UNCHANGED failed
       \/ /\ next < MAX_PART_ATTEMPTS /\ ~aborted
          /\ worker' = [worker EXCEPT ![w] = Await("url", @.part, next)]
          /\ UNCHANGED <<cancelled, failed>>
       \/ /\ next = MAX_PART_ATTEMPTS
          /\ failed' = failed \cup {Part(w)}
          /\ Goto(w, "loop") /\ UNCHANGED cancelled
    /\ UNCHANGED <<control, aborted, pending, completed, service>>

-----------------------------------------------------------------------------
(* Cancel *)

\* abort(): the PUTs in flight reject at once; DELETE only if the session is
\* known by now.  The handle is dropped when the promise settles.
Abort ==
    /\ ~aborted /\ stage # "settled"
    /\ aborted' = TRUE
    /\ cancelled' = (cancelled \/ \E w \in Workers : At(w, "put"))
    /\ worker' = [w \in Workers |->
                    IF At(w, "put") THEN Await("done", 0, 0) ELSE worker[w]]
    /\ requests' = requests \cup (IF stage = "initiate" THEN {} ELSE {"delete"})
    /\ UNCHANGED <<control, pending, failed, completed, session, reported,
                   flying, stored>>

-----------------------------------------------------------------------------
(* What happens on the other side *)

\* A PUT lands, as long as the upload is open.
StorePart(n) ==
    /\ n \in flying /\ session = "active"
    /\ stored' = stored \cup {n}
    /\ flying' = flying \ {n}
    /\ UNCHANGED <<control, aborted, pool, completed, session, reported, requests>>

\* complete() accepts an active session whose parts are all there.
CompleteArrives ==
    /\ "complete" \in requests
    /\ requests' = requests \ {"complete"}
    /\ session' = IF session = "active" /\ stored = Parts THEN "completed" ELSE session
    /\ UNCHANGED <<control, aborted, pool, completed, reported, flying, stored>>

\* DELETE ends the session unless it is COMPLETED, or is lost.
DeleteArrives ==
    /\ "delete" \in requests
    /\ requests' = requests \ {"delete"}
    /\ \/ session = "active" /\ session' = "over"
       \/ UNCHANGED session
    /\ UNCHANGED <<control, aborted, pool, completed, reported, flying, stored>>

\* The session expires, or is swept.
SessionEnds ==
    /\ session = "active"
    /\ session' = "over"
    /\ UNCHANGED <<control, aborted, pool, completed, reported, flying, stored,
                   requests>>

-----------------------------------------------------------------------------
ControlStep ==
    \/ Initiated
    \/ InitiateFails
    \/ PoolDone
    \/ StatusAnswered
    \/ StatusFails
    \/ Resume
    \/ CompleteAnswered

WorkerStep(w) ==
    \/ TakePart(w)
    \/ Leave(w)
    \/ UrlAnswered(w)
    \/ PutAnswered(w)
    \/ TryFails(w)
    \/ Report(w)
    \/ Retry(w)

ServiceStep ==
    \/ \E n \in Parts : StorePart(n)
    \/ CompleteArrives
    \/ DeleteArrives
    \/ SessionEnds

\* The promise has settled and nothing is on its way any more.
Settled == stage = "settled" /\ UNCHANGED engineVars

EngineNext ==
    \/ ControlStep
    \/ \E w \in Workers : WorkerStep(w)
    \/ Abort
    \/ ServiceStep
    \/ Settled

EngineSpec == EngineInit /\ [][EngineNext]_engineVars

-----------------------------------------------------------------------------
(* Safety *)

\* complete() is only ever asked for once S3 has taken every part: retries,
\* resumes, lost answers and late PUTs never let one slip through.
FinalizesOnlyWhenStored == stage = "complete" => stored = Parts

\* After Cancel no URL is asked for, no PUT started and no complete() sent,
\* wherever the workers and the loop around them stood.
QuietAfterCancel ==
    [][aborted =>
        /\ \A w \in Workers :
            /\ worker'[w].at = "put" => worker[w].at = "put"
            /\ worker'[w].at = "url" => worker[w] = worker'[w]
        /\ stage' = "complete" => stage = "complete"]_engineVars

\* "re-queue only the missing ones": no part whose PUT was answered is ever
\* uploaded again, although its report may have been lost.
OnlyMissingResent ==
    [][\A w \in Workers :
        worker'[w].at = "url" => worker'[w].part \notin completed]_engineVars

\* Why they hold: as long as the pool runs undisturbed, each missing part is
\* queued, in one worker's hands, or counted as failed, and nothing else is.
Holding == {"url", "put", "sleep"}
InHand(n) == \E w \in Workers : worker[w].at \in Holding /\ worker[w].part = n

NoneLost ==
    /\ completed \cup reported \subseteq stored
    /\ stage = "workers" /\ ~cancelled =>
        /\ \A n \in Missing : n \in pending \/ n \in failed \/ InHand(n)
        /\ pending # {} => \E w \in Workers : worker[w].at # "done"
    /\ stage = "backoff" => Missing \subseteq pending
    /\ stage \in {"status", "backoff"} => round < MAX_SESSION_RESUMES
    /\ stage = "complete" => stored = Parts

NoneTwice ==
    /\ pending \cap completed = {}
    /\ \A w \in Workers :
        /\ worker[w].at \in Holding => worker[w].part \in Parts \ (pending \cup completed)
        /\ worker[w].at = "report" => worker[w].part \in completed
    /\ \A v, w \in Workers :
        /\ worker[v].at \in Holding /\ worker[w].at \in Holding
        /\ worker[v].part = worker[w].part
        => v = w

AtRest ==
    /\ stage = "initiate" => completed = {}
    /\ stage # "workers" => \A w \in Workers : worker[w].at = "done"

EngineIInv == EngineTypeOK /\ AtRest /\ NoneLost /\ NoneTwice

-----------------------------------------------------------------------------
(* Liveness *)

\* Every request of the browser ends, answered or not, and every timer fires.
\* Nothing is assumed of the user or of the other side.
FairEngineSpec ==
    /\ EngineSpec
    /\ WF_engineVars(ControlStep)
    /\ \A w \in Workers : WF_engineVars(WorkerStep(w))

\* The promise settles: the pool never waits for itself and the retries end.
Settles == <>(outcome # "none")
=============================================================================

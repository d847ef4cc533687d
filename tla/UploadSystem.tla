---------------------------- MODULE UploadSystem ----------------------------
(***************************************************************************)
(* The upload service and the cleanup job on the same rows and the same    *)
(* bucket, and what the two promise together.                              *)
(*                                                                         *)
(* raced is a history variable of this module, not of the program: it      *)
(* remembers that two handlers that can undo each other (complete, abort,  *)
(* the sweep of stale sessions) were in flight on one session together, or *)
(* that a late part-urls request reopened a session that was over.  The    *)
(* code has no lock against either.  The invariants that mention raced say *)
(* what holds short of those races, and so that nothing else breaks it.    *)
(***************************************************************************)
EXTENDS FilesCleanup

VARIABLE raced

vars == <<cleanupVars, raced>>

-----------------------------------------------------------------------------
(* The history variable *)

Completing(p, s) == handler[p].on = s /\ handler[p].at \in CompletingSteps
Aborting(p, s)   == handler[p].on = s /\ handler[p].at \in AbortingSteps
Sweeping(c, s)   == /\ cleaner[c].at \in {"stale", "abortRow"}
                    /\ s \in cleaner[c].todo

\* Two handlers of which at least one is destructive, or two completions.
Conflict(s) ==
    \/ \E p, q \in Procs : /\ p # q
                           /\ Completing(p, s)
                           /\ Completing(q, s) \/ Aborting(q, s)
    \/ \E p \in Procs, c \in Cleaners : Completing(p, s) /\ Sweeping(c, s)

Reopened(s) == ~Active(s) /\ session'[s] = "UPLOADING"

Observe == raced' = [s \in Sessions |-> raced[s] \/ Conflict(s)' \/ Reopened(s)]

SystemInit == InitCleanup /\ raced = [s \in Sessions |-> FALSE]

Next == /\ \/ UploadNext /\ UNCHANGED cleaner
           \/ CleanupNext
        /\ Observe

Spec == SystemInit /\ [][Next]_vars

-----------------------------------------------------------------------------
(* Types *)

\* Every row, request slot, cleanup batch and counter keeps its type: no step
\* of a request or of the cleanup job leaves the statuses the schema knows.
TypeOK == CleanupTypeOK /\ raced \in [Sessions -> BOOLEAN]

-----------------------------------------------------------------------------
(* Safety *)

\* A file a download would serve: READY and within its time to live.
Live(s) == file[s] = "READY" /\ ~FileExpired(s)

Outlived(s) == FileExpired(s) \/ file[s] = "EXPIRED"

\* A live file has its object in the bucket: always for a multipart upload,
\* whatever requests overlap; for a single PUT unless the session was raced,
\* since abort and the stale sweep delete the very object complete() verified.
LiveFileHasObject ==
    \A s \in Sessions : Live(s) /\ (Multipart(s) \/ ~raced[s]) => object[s]

\* What complete() told the client, and mailed, stays true until the file's
\* time to live: the file is READY and its object is there.
AnsweredFileStaysLive ==
    \A s \in Sessions :
        answered[s] /\ ~raced[s] /\ ~FileExpired(s) => Live(s) /\ object[s]

\* Bytes of the wrong size or kind never become READY, whatever overlaps:
\* complete() commits only after the size and magic-byte checks of this object.
ReadyIsValidated ==
    \A s \in Sessions : file[s] = "READY" => content[s] = "valid"

\* A COMPLETED session's file was committed with it and can only have expired:
\* no handler fails the file and leaves the session COMPLETED.
CompletedFileNotFailed ==
    \A s \in Sessions : session[s] = "COMPLETED" => file[s] \in {"READY", "EXPIRED"}

\* A session that is over leaves no multipart upload open in the bucket, nor its
\* parts, unless the storage would not abort it: whichever request or run ended
\* it, and whatever overlapped or died on the way.
NothingLeftOpen ==
    \A s \in Sessions :
        session[s] \in {"COMPLETED", "FAILED", "ABORTED"} /\ upload[s] = "open"
            => s \in unaborted

\* One upload sends one e-mail, however often its complete() is retried, as
\* long as two completions do not overlap.
OneEmailPerUpload ==
    \A s \in Sessions : ~raced[s] => emails[s] <= 1

\* "Upload already completed": short of a race, COMPLETED is final, although
\* no handler that writes the status repeats the check it made when it started.
CompletedIsFinal ==
    [][\A s \in Sessions :
        session[s] = "COMPLETED" /\ ~raced'[s] => session'[s] = "COMPLETED"]_vars

\* "Best-effort storage cleanup for an unfinished session": no handler deletes
\* the object of a session that is COMPLETED before its time to live.
CompletedObjectKept ==
    [][\A s \in Sessions :
        session[s] = "COMPLETED" /\ object[s] /\ ~FileExpired(s) => object'[s]]_vars

-----------------------------------------------------------------------------
(* What a user sees of a file, and the promise the system implements *)

\* "lost" is no stage of FileLifecycle: a READY row without its object.
Stage(s) ==
    IF raced[s] THEN "disputed"
    ELSE IF file[s] = "none" THEN "absent"
    ELSE IF Outlived(s) THEN "expired"
    ELSE IF file[s] = "READY" THEN IF object[s] THEN "available" ELSE "lost"
    ELSE IF file[s] = "FAILED" THEN "failed"
    ELSE "pending"

Lifecycle == INSTANCE FileLifecycle
                WITH Files <- Sessions, stage <- [s \in Sessions |-> Stage(s)]

\* Rows, requests and cleanup runs implement the life of a file: published once
\* and only from PENDING, there until it expires, and never back once it failed
\* or expired, whichever handler writes last.
ImplementsLifecycle == Lifecycle!Spec

-----------------------------------------------------------------------------
(* Why the safety properties hold: an inductive strengthening *)

On(p, s)    == handler[p].on = s
AtStep(p, S) == handler[p].at \in S

\* What a request has already established about its session.
RequestKnows ==
    \A p \in Procs, s \in Sessions : On(p, s) =>
        /\ AtStep(p, Steps \ {"idle", "createRows"}) => Exists(s)
        /\ AtStep(p, {"magic", "discard", "fail", "commit"}) /\ Multipart(s)
              => upload[s] = "done"
        /\ AtStep(p, {"commit"}) => content[s] = "valid"
        /\ AtStep(p, {"discard"}) => content[s] # "valid"
        /\ AtStep(p, {"lazyExpire"}) => FileExpired(s)

\* What a cleanup run has established about the rows of its batch.
RunKnows ==
    \A c \in Cleaners, s \in Sessions :
        /\ s \in cleaner[c].todo => Exists(s)
        /\ cleaner[c].at \in {"expired", "expireRow"} /\ s \in cleaner[c].todo
              => FileExpired(s)
        /\ cleaner[c].at \in {"expireRow", "abortRow"} /\ cleaner[c].on = s
              => s \in cleaner[c].todo

\* What the rows of a session say about its storage, and about each other.
RowsAgree ==
    \A s \in Sessions :
        /\ session[s] = "none" <=> file[s] = "none"
        /\ session[s] = "none" => upload[s] # "done"
        /\ session[s] = "COMPLETED" => file[s] \in {"READY", "EXPIRED"}
        /\ file[s] = "EXPIRED" => FileExpired(s)
        /\ file[s] = "READY" => content[s] = "valid"
        /\ file[s] = "READY" /\ Multipart(s) => upload[s] = "done"
        /\ Multipart(s) /\ upload[s] = "done" /\ content[s] = "valid"
              => object[s] \/ FileExpired(s)

\* Holds whatever overlaps.
Grounded == RequestKnows /\ RunKnows /\ RowsAgree

\* Holds of a session whose handlers did not race.
Undisturbed(s) ==
    /\ ~Conflict(s)
    /\ \A p \in Procs :
        /\ Completing(p, s) => Active(s)
        /\ Aborting(p, s) => session[s] # "COMPLETED"
        /\ handler[p].at = "commit" /\ On(p, s) /\ ~Multipart(s)
              => object[s] \/ FileExpired(s)
        /\ handler[p].at = "email" /\ On(p, s) =>
              /\ session[s] = "COMPLETED" /\ emails[s] = 0
              /\ \A q \in Procs : handler[q].at = "email" /\ On(q, s) => q = p
    /\ \A c \in Cleaners : Sweeping(c, s) => session[s] # "COMPLETED"
    /\ file[s] = "READY" => session[s] = "COMPLETED"
    /\ Active(s) => file[s] # "FAILED"
    /\ file[s] = "READY" /\ ~Multipart(s) => object[s] \/ FileExpired(s)
    /\ answered[s] \/ emails[s] > 0 => session[s] = "COMPLETED"
    /\ emails[s] <= 1

IInv == TypeOK /\ Grounded /\ \A s \in Sessions : raced[s] \/ Undisturbed(s)

-----------------------------------------------------------------------------
(* Liveness *)

\* The clock runs.  The timer starts a run every hour, and a call that every
\* run repeats succeeds in some run: strong fairness, since a failed call ends
\* the run and disables the steps after it.  Nothing is assumed of the client
\* or of the requests in flight.
RunsEndlessly(c) ==
    /\ SF_vars((\E batch \in SUBSET Sessions : FetchExpired(c, batch)) /\ Observe)
    /\ SF_vars((\E batch \in SUBSET Sessions : FetchStale(c, batch)) /\ Observe)
    /\ SF_vars(EndRun(c) /\ Observe)
    /\ \A s \in Sessions :
        /\ SF_vars(DeleteExpired(c, s) /\ Observe)
        /\ SF_vars(MarkExpired(c, s) /\ Observe)
        /\ SF_vars(AbortStale(c, s) /\ Observe)
        /\ SF_vars(MarkStale(c, s) /\ Observe)

FairSpec ==
    /\ Spec
    /\ WF_vars(Tick /\ UNCHANGED cleaner /\ Observe)
    /\ \A c \in Cleaners : RunsEndlessly(c)

\* A session nobody completes or aborts is over in the end, even if a late
\* request reopens it: the sweep aborts whatever is still active.
SessionsSettle == \A s \in Sessions : Active(s) ~> ~Active(s)

\* The bucket forgets every file for good, also when a delete failed, a late
\* PUT brought the object back, or complete() raced the sweep.
ObjectsReclaimed == \A s \in Sessions : Exists(s) ~> []~object[s]
=============================================================================

---------------------------- MODULE FilesCleanup ----------------------------
(***************************************************************************)
(* The hourly cleanup job: apps/api/src/files/files.cleanup.service.ts.    *)
(*                                                                         *)
(* A run fetches one batch of expired files and walks it, then one batch   *)
(* of stale sessions and walks it; it works on the rows as fetched.  Each  *)
(* API instance has a timer of its own, and a run that outlasts the hour   *)
(* overlaps the next one, so several runs may be in flight: Cleaners.      *)
(***************************************************************************)
EXTENDS UploadsService

CONSTANTS
    Cleaners,     \* cleanup runs that can be in flight at once
    BatchSize     \* "take: 100"

ASSUME BatchAssumption == BatchSize \in Nat \ {0}

VARIABLE
    cleaner    \* the batch each run still has to walk, and where it stands

cleanupVars == <<uploadVars, cleaner>>

CleanerSteps == {"idle", "expired", "expireRow", "stale", "abortRow"}

\* known: the batch's rows that were already EXPIRED when they were fetched.
CleanerIdle == [at |-> "idle", todo |-> {}, known |-> {}, on |-> NoSession]

CleanerType ==
    [at : CleanerSteps, todo : SUBSET Sessions, known : SUBSET Sessions,
     on : Sessions \cup {NoSession}]

CleanupTypeOK == UploadTypeOK /\ cleaner \in [Cleaners -> CleanerType]

\* Where run c stands; s is the row whose storage was just cleaned, if any.
Stand(c, step, batch, old, s) ==
    cleaner' = [cleaner EXCEPT ![c] =
                   [at |-> step, todo |-> batch, known |-> old, on |-> s]]

\* The row s of the batch is done: back to the loop's head.
NextRow(c, step, s) ==
    Stand(c, step, cleaner[c].todo \ {s}, cleaner[c].known, NoSession)

\* The row s still has to be updated in the database.
UpdateRow(c, step, s) == Stand(c, step, cleaner[c].todo, cleaner[c].known, s)

InitCleanup == Init /\ cleaner = [c \in Cleaners |-> CleanerIdle]

\* findMany without an order: any BatchSize of the rows due, or all of them.
IsBatchOf(batch, due) ==
    /\ batch \subseteq due
    /\ \/ batch = due
       \/ Cardinality(batch) = BatchSize
    /\ Cardinality(batch) <= BatchSize

\* Mutants of ExpiredRow: the wrong time to live, and the rows already EXPIRED
\* left out.
OutlivedSession(s) == Exists(s) /\ SessionExpired(s)
NotYetExpired(s)   == Exists(s) /\ FileExpired(s) /\ file[s] # "EXPIRED"

ExpiredRow(s) == Exists(s) /\ (FileExpired(s) \/ file[s] = "EXPIRED")

\* Mutants of StaleRow: any status, and one status only.
AnyOldSession(s)  == Exists(s) /\ SessionExpired(s)
PendingOnly(s)    == session[s] = "PENDING" /\ SessionExpired(s)

StaleRow(s) == Active(s) /\ SessionExpired(s)

-----------------------------------------------------------------------------
(* cleanupExpired *)

FetchExpired(c, batch) ==
    /\ cleaner[c] = CleanerIdle
    /\ IsBatchOf(batch, {s \in Sessions : ExpiredRow(s)})
    /\ Stand(c, "expired", batch, {s \in batch : file[s] = "EXPIRED"}, NoSession)
    /\ UNCHANGED uploadVars

\* Mutant of AfterDelete: the row is never updated.
SkipUpdate(c, s) == NextRow(c, "expired", s)

\* A row fetched as EXPIRED is not updated again.
AfterDelete(c, s) ==
    IF s \in cleaner[c].known
    THEN NextRow(c, "expired", s)
    ELSE UpdateRow(c, "expireRow", s)

\* The storage part of the loop body.  A failed delete is only a warning.
DeleteExpired(c, s) ==
    /\ cleaner[c].at = "expired"
    /\ s \in cleaner[c].todo
    /\ object' = [object EXCEPT ![s] = FALSE]
    /\ AfterDelete(c, s)
    /\ UNCHANGED <<rows, age, upload, parts, urlTtl, handler, effects>>

DeleteExpiredFails(c, s) ==
    /\ cleaner[c].at = "expired"
    /\ s \in cleaner[c].todo
    /\ AfterDelete(c, s)
    /\ UNCHANGED uploadVars

MarkExpired(c, s) ==
    /\ cleaner[c].at = "expireRow" /\ cleaner[c].on = s
    /\ file' = [file EXCEPT ![s] = "EXPIRED"]
    /\ NextRow(c, "expired", s)
    /\ UNCHANGED <<session, content, age, storage, urlTtl, handler, effects>>

-----------------------------------------------------------------------------
(* cleanupStaleUploadSessions *)

FetchStale(c, batch) ==
    /\ cleaner[c].at = "expired" /\ cleaner[c].todo = {}
    /\ IsBatchOf(batch, {s \in Sessions : StaleRow(s)})
    /\ Stand(c, "stale", batch, {}, NoSession)
    /\ UNCHANGED uploadVars

AbortStale(c, s) ==
    /\ cleaner[c].at = "stale"
    /\ s \in cleaner[c].todo
    /\ AbortSessionStorage(s)
    /\ UpdateRow(c, "abortRow", s)
    /\ UNCHANGED <<rows, age, urlTtl, handler, emails, answered>>

\* The session unconditionally; the file only if it is still PENDING.
MarkStale(c, s) ==
    /\ cleaner[c].at = "abortRow" /\ cleaner[c].on = s
    /\ session' = [session EXCEPT ![s] = "ABORTED"]
    /\ file' = [file EXCEPT ![s] = IF @ = "PENDING" THEN "FAILED" ELSE @]
    /\ NextRow(c, "stale", s)
    /\ UNCHANGED <<content, age, storage, urlTtl, handler, effects>>

EndRun(c) ==
    /\ cleaner[c].at = "stale" /\ cleaner[c].todo = {}
    /\ cleaner' = [cleaner EXCEPT ![c] = CleanerIdle]
    /\ UNCHANGED uploadVars

-----------------------------------------------------------------------------
\* A database call rejects, or the process dies: the batch is forgotten.
RunFails(c) ==
    /\ cleaner[c] # CleanerIdle
    /\ cleaner' = [cleaner EXCEPT ![c] = CleanerIdle]
    /\ UNCHANGED uploadVars

FetchOf(c) ==
    \E batch \in SUBSET Sessions : FetchExpired(c, batch) \/ FetchStale(c, batch)

WalkOf(c, s) ==
    \/ DeleteExpired(c, s)
    \/ DeleteExpiredFails(c, s)
    \/ MarkExpired(c, s)
    \/ AbortStale(c, s)
    \/ MarkStale(c, s)

CleanupNext ==
    \E c \in Cleaners :
        \/ FetchOf(c)
        \/ \E s \in Sessions : WalkOf(c, s)
        \/ EndRun(c)
        \/ RunFails(c)

-----------------------------------------------------------------------------
\* "... and marks rows EXPIRED" (docs/architecture.md): no file stays
\* downloadable by its row for ever after its time to live.
ExpiredRowsMarked ==
    \A s \in Sessions : Exists(s) /\ FileExpired(s) ~> file[s] = "EXPIRED"
=============================================================================

--------------------------- MODULE FilesRetention ---------------------------
(***************************************************************************)
(* Many files and one cleanup run: what "take: 100" does to the retention  *)
(* promise of docs/architecture.md.  The files here are uploads that were  *)
(* completed, or given up with their bytes stored, and that no request     *)
(* touches any more; their URLs have expired, age and cleanup go on.       *)
(* UploadSystem shows ExpiredRowsMarked of a batch that is large enough.   *)
(***************************************************************************)
EXTENDS FilesCleanup

\* Single uploads as complete() leaves them, and as a client that never calls
\* complete() leaves them.
StoredInit ==
    /\ \E done \in SUBSET Sessions :
        /\ session = [s \in Sessions |-> IF s \in done THEN "COMPLETED" ELSE "UPLOADING"]
        /\ file = [s \in Sessions |-> IF s \in done THEN "READY" ELSE "PENDING"]
        /\ answered = [s \in Sessions |-> s \in done]
    /\ content  = [s \in Sessions |-> "valid"]
    /\ age      = [s \in Sessions |-> 0]
    /\ upload   = [s \in Sessions |-> "none"]
    /\ parts    = [s \in Sessions |-> {}]
    /\ object   = [s \in Sessions |-> TRUE]
    /\ urlTtl   = [u \in Urls |-> 0]
    /\ handler  = [p \in Procs |-> Idle]
    /\ emails   = [s \in Sessions |-> 0]
    /\ unaborted = {}
    /\ cleaner  = [c \in Cleaners |-> CleanerIdle]

\* Files are uploaded at different times: each one ages on its own.
AgeOf(s) ==
    /\ Later(age[s]) # age[s]
    /\ age' = [age EXCEPT ![s] = Later(@)]
    /\ UNCHANGED <<rows, storage, urlTtl, handler, effects, cleaner>>

RetentionNext ==
    \/ \E s \in Sessions : AgeOf(s)
    \/ CleanupNext

\* As in UploadSystem: time passes, runs recur, and a call repeated by every
\* run succeeds in some run.  findMany states no order, so nothing is assumed
\* of which rows a batch holds when more rows are due than it can take.
RetentionFairness ==
    /\ \A s \in Sessions : WF_cleanupVars(AgeOf(s))
    /\ \A c \in Cleaners :
        /\ SF_cleanupVars(\E batch \in SUBSET Sessions : FetchExpired(c, batch))
        /\ SF_cleanupVars(\E batch \in SUBSET Sessions : FetchStale(c, batch))
        /\ SF_cleanupVars(EndRun(c))
        /\ \A s \in Sessions :
            /\ SF_cleanupVars(DeleteExpired(c, s))
            /\ SF_cleanupVars(MarkExpired(c, s))
            /\ SF_cleanupVars(AbortStale(c, s))
            /\ SF_cleanupVars(MarkStale(c, s))

RetentionSpec ==
    StoredInit /\ [][RetentionNext]_cleanupVars /\ RetentionFairness

=============================================================================

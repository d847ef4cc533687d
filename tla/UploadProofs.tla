---------------------------- MODULE UploadProofs ----------------------------
(***************************************************************************)
(* Proofs about UploadSystem, for every set of sessions, request slots and *)
(* cleanup runs, every mode, batch size and time-to-live; the last ones    *)
(* show that it implements FileLifecycle.                                  *)
(***************************************************************************)
EXTENDS UploadSystem, TLAPS

Assumptions ==
    /\ NoSession \notin Sessions
    /\ TotalParts \in [Sessions -> Nat \ {0}]
    /\ SessionTtl \in Nat \ {0}
    /\ FileTtl \in Nat \ {0}
    /\ UrlTtl \in Nat \ {0}

\* The named assumptions of UploadsService as one fact.
LEMMA ConstantsTyped == Assumptions
BY SessionsAssumption, PartsAssumption, TtlAssumption DEF Assumptions

-----------------------------------------------------------------------------
(* Types *)

\* Moving, opening and closing a request slot keeps the slots typed.
LEMMA HandlerTyped ==
    ASSUME UploadTypeOK, NEW p \in Procs
    PROVE  /\ \A step \in Steps : Goto(p, step) => handler' \in [Procs -> HandlerType]
           /\ \A step \in Steps, s \in Sessions, n \in Nat :
                Begin(p, step, s, n) => handler' \in [Procs -> HandlerType]
           /\ End(p) => handler' \in [Procs -> HandlerType]
<1> USE DEF UploadTypeOK, HandlerType, Request, Idle
<1>1. ASSUME NEW step \in Steps, Goto(p, step)
      PROVE  handler' \in [Procs -> HandlerType]
  <2>1. Request(step, handler[p].on, handler[p].part) \in HandlerType
    OBVIOUS
  <2> QED BY <1>1, <2>1 DEF Goto
<1>2. ASSUME NEW step \in Steps, NEW s \in Sessions, NEW n \in Nat,
             Begin(p, step, s, n)
      PROVE  handler' \in [Procs -> HandlerType]
  <2>1. Request(step, s, n) \in HandlerType
    OBVIOUS
  <2> QED BY <1>2, <2>1 DEF Begin
<1>3. ASSUME End(p) PROVE handler' \in [Procs -> HandlerType]
  <2>1. Idle \in HandlerType
    BY DEF Steps
  <2> QED BY <1>3, <2>1 DEF End
<1> QED BY <1>1, <1>2, <1>3

\* Each piece of each request keeps the upload's state typed.
LEMMA HandleTyped ==
    ASSUME NEW p \in Procs, NEW s \in Sessions, UploadTypeOK, Handle(p, s)
    PROVE  UploadTypeOK'
<1> USE HandlerTyped
    DEF UploadTypeOK, Steps, rows, storage, effects, SessionStatus, FileStatus
<1>1. CASE CreateMultipartUpload(p, s)
  BY <1>1 DEF CreateMultipartUpload
<1>2. ASSUME NEW c \in Contents, CreateRows(p, s, c) PROVE UploadTypeOK'
  BY <1>2 DEF CreateRows
<1>3. ASSUME NEW n \in PartsOf(s), GetPartUrls(p, s, n) PROVE UploadTypeOK'
  <2>1. n \in Nat
    BY ConstantsTyped DEF PartsOf, Assumptions
  <2> QED BY <1>3, <2>1 DEF GetPartUrls
<1>4. CASE MarkUploading(p, s)
  BY <1>4 DEF MarkUploading
<1>5. CASE SignUrl(p, s)
  BY <1>5, ConstantsTyped DEF SignUrl, Assumptions
<1>6. CASE Complete(p, s)
  BY <1>6 DEF Complete
<1>7. CASE Verify(p, s)
  BY <1>7 DEF Verify
<1>8. CASE Assemble(p, s)
  BY <1>8 DEF Assemble
<1>9. CASE CheckMagicBytes(p, s)
  BY <1>9 DEF CheckMagicBytes
<1>10. CASE DiscardForeign(p, s)
  BY <1>10 DEF DiscardForeign
<1>11. CASE FailSession(p, s)
  BY <1>11 DEF FailSession
<1>12. CASE Commit(p, s)
  BY <1>12 DEF Commit
<1>13. CASE QueueEmail(p, s)
  BY <1>13 DEF QueueEmail
<1>14. CASE Abort(p, s)
  BY <1>14 DEF Abort
<1>15. CASE AbortStorage(p, s)
  BY <1>15 DEF AbortStorage, AbortSessionStorage
<1>16. CASE AbortRows(p, s)
  BY <1>16 DEF AbortRows
<1>17. CASE GetDownload(p, s)
  BY <1>17 DEF GetDownload
<1>18. CASE LazyExpire(p, s)
  BY <1>18 DEF LazyExpire
<1> HIDE HandlerTyped
    DEF UploadTypeOK, Steps, rows, storage, effects, SessionStatus, FileStatus
<1> QED
  BY <1>1, <1>2, <1>3, <1>4, <1>5, <1>6, <1>7, <1>8, <1>9, <1>10, <1>11, <1>12,
     <1>13, <1>14, <1>15, <1>16, <1>17, <1>18
     DEF Handle, Initiate, Upload, CompleteUpload, AbortUpload, Download

LEMMA UploadNextTyped ==
    ASSUME UploadTypeOK, UploadNext
    PROVE  UploadTypeOK'
<1>1. ASSUME NEW p \in Procs, NEW s \in Sessions, Handle(p, s)
      PROVE  UploadTypeOK'
  BY <1>1, HandleTyped
<1>2. ASSUME NEW s \in Sessions, NEW n \in PartsOf(s), PutPart(s, n)
      PROVE  UploadTypeOK'
  <2>1. n \in Nat
    BY ConstantsTyped DEF PartsOf, Assumptions
  <2>2. parts[s] \cup {n} \in SUBSET Nat
    BY <2>1 DEF UploadTypeOK
  <2>3. parts' \in [Sessions -> SUBSET Nat] /\ object' \in [Sessions -> BOOLEAN]
    BY <1>2, <2>2 DEF PutPart, UploadTypeOK
  <2> QED BY <1>2, <2>3 DEF PutPart, UploadTypeOK, rows, effects
<1>3. ASSUME NEW p \in Procs, Abandon(p)
      PROVE  UploadTypeOK'
  BY <1>3, HandlerTyped DEF Abandon, UploadTypeOK, rows, storage, effects
<1>4. CASE Tick
  <2>1. age' \in [Sessions -> Nat]
    BY <1>4 DEF Tick, Later, UploadTypeOK
  <2>2. urlTtl' \in [Urls -> Nat]
    BY <1>4 DEF Tick, Sooner, UploadTypeOK
  <2> QED BY <1>4, <2>1, <2>2 DEF Tick, UploadTypeOK, rows, storage, effects
<1> QED BY <1>1, <1>2, <1>3, <1>4 DEF UploadNext

\* Each piece of a cleanup run keeps rows, bucket and batch typed.
LEMMA CleanupNextTyped ==
    ASSUME CleanupTypeOK, CleanupNext
    PROVE  CleanupTypeOK'
<1> USE DEF CleanupTypeOK
<1>1. PICK c \in Cleaners :
        \/ FetchOf(c)
        \/ \E s \in Sessions : WalkOf(c, s)
        \/ EndRun(c)
        \/ RunFails(c)
  BY DEF CleanupNext
<1>2. ASSUME NEW step \in CleanerSteps, NEW batch \in SUBSET Sessions,
             NEW old \in SUBSET Sessions, NEW s \in Sessions \cup {NoSession},
             Stand(c, step, batch, old, s)
      PROVE  cleaner' \in [Cleaners -> CleanerType]
  BY <1>2 DEF Stand, CleanerType
<1>3. ASSUME cleaner' = [cleaner EXCEPT ![c] = CleanerIdle]
      PROVE  cleaner' \in [Cleaners -> CleanerType]
  BY <1>3 DEF CleanerIdle, CleanerType, CleanerSteps
<1>4. cleaner[c].todo \in SUBSET Sessions /\ cleaner[c].known \in SUBSET Sessions
  BY DEF CleanerType
<1>5. CASE FetchOf(c)
  <2>1. PICK batch \in SUBSET Sessions :
            FetchExpired(c, batch) \/ FetchStale(c, batch)
    BY <1>5 DEF FetchOf
  <2>2. cleaner' \in [Cleaners -> CleanerType]
    BY <1>2, <2>1 DEF FetchExpired, FetchStale, CleanerSteps
  <2> QED BY <2>1, <2>2
          DEF FetchExpired, FetchStale, uploadVars, UploadTypeOK
<1>6. ASSUME NEW s \in Sessions, WalkOf(c, s)
      PROVE  CleanupTypeOK'
  <2>1. ASSUME NEW step \in CleanerSteps, NextRow(c, step, s) \/ UpdateRow(c, step, s)
        PROVE  cleaner' \in [Cleaners -> CleanerType]
    <3>1. cleaner[c].todo \ {s} \in SUBSET Sessions
      BY <1>4
    <3>2. CASE NextRow(c, step, s)
      BY <1>2, <1>4, <3>1, <3>2 DEF NextRow
    <3>3. CASE UpdateRow(c, step, s)
      BY <1>2, <1>4, <3>3 DEF UpdateRow
    <3> QED BY <2>1, <3>2, <3>3
  <2>2. cleaner' \in [Cleaners -> CleanerType]
    BY <1>6, <2>1 DEF WalkOf, DeleteExpired, DeleteExpiredFails, MarkExpired,
                      AbortStale, MarkStale, AfterDelete, CleanerSteps
  <2>3. UploadTypeOK'
    <3> USE DEF UploadTypeOK, rows, storage, effects, FileStatus, SessionStatus
    <3>1. CASE DeleteExpired(c, s)
      BY <3>1 DEF DeleteExpired
    <3>2. CASE DeleteExpiredFails(c, s)
      BY <3>2 DEF DeleteExpiredFails, uploadVars
    <3>3. CASE MarkExpired(c, s)
      BY <3>3 DEF MarkExpired
    <3>4. CASE AbortStale(c, s)
      BY <3>4 DEF AbortStale, AbortSessionStorage
    <3>5. CASE MarkStale(c, s)
      BY <3>5 DEF MarkStale
    <3> QED BY <1>6, <3>1, <3>2, <3>3, <3>4, <3>5 DEF WalkOf
  <2> QED BY <2>2, <2>3
<1>7. CASE EndRun(c) \/ RunFails(c)
  BY <1>3, <1>7 DEF EndRun, RunFails, uploadVars, UploadTypeOK
<1> QED BY <1>1, <1>5, <1>6, <1>7

LEMMA TypeInit == SystemInit => TypeOK
BY ConstantsTyped
   DEF SystemInit, InitCleanup, Init, TypeOK, UploadTypeOK, CleanupTypeOK,
       SessionStatus, FileStatus, Contents, HandlerType, Idle, Steps, CleanerType,
       CleanerIdle, CleanerSteps

LEMMA TypeStep == TypeOK /\ [Next]_vars => TypeOK'
<1> SUFFICES ASSUME TypeOK, [Next]_vars PROVE TypeOK'
  OBVIOUS
<1>1. CASE Next
  <2>1. raced' \in [Sessions -> BOOLEAN]
    <3>1. \A s \in Sessions : (raced[s] \/ Conflict(s)' \/ Reopened(s)) \in BOOLEAN
      BY DEF Conflict, Reopened
    <3> QED BY <1>1, <3>1 DEF Next, Observe
  <2>2. CASE UploadNext /\ UNCHANGED cleaner
    BY <2>1, <2>2, UploadNextTyped DEF TypeOK, CleanupTypeOK
  <2>3. CASE CleanupNext
    BY <2>1, <2>3, CleanupNextTyped DEF TypeOK
  <2> QED BY <1>1, <2>2, <2>3 DEF Next
<1>2. CASE UNCHANGED vars
  BY <1>2 DEF vars, cleanupVars, uploadVars, TypeOK, CleanupTypeOK, UploadTypeOK
<1> QED BY <1>1, <1>2

\* Every row, storage object, request slot, cleanup batch and counter keeps its
\* type through every step of the requests and of the cleanup job.
THEOREM TypeCorrect == Spec => []TypeOK
BY TypeInit, TypeStep, PTL DEF Spec

-----------------------------------------------------------------------------
(* What holds whatever overlaps *)

\* Facts a request or a cleanup run learned stay true: rows are created once,
\* bytes do not change, files only grow older, a completed upload stays so.
Monotone ==
    \A s \in Sessions :
        /\ Exists(s) => Exists(s)' /\ content'[s] = content[s]
        /\ FileExpired(s) => FileExpired(s)'
        /\ upload[s] = "done" => upload'[s] = "done"

LEMMA AgeTyped == UploadTypeOK => \A s \in Sessions : age[s] \in Nat
BY DEF UploadTypeOK

LEMMA HandleMonotone ==
    ASSUME NEW p \in Procs, NEW s \in Sessions, UploadTypeOK, Grounded, Handle(p, s)
    PROVE  Monotone
<1> USE DEF UploadTypeOK, Grounded, RowsAgree, Monotone, Exists, FileExpired,
        rows, storage, SessionStatus
<1>1. CASE CreateMultipartUpload(p, s)
  BY <1>1 DEF CreateMultipartUpload
<1>2. ASSUME NEW c \in Contents, CreateRows(p, s, c) PROVE Monotone
  BY <1>2 DEF CreateRows
<1>3. CASE Upload(p, s)
  BY <1>3 DEF Upload, GetPartUrls, MarkUploading, SignUrl
<1>4. CASE Complete(p, s) \/ Verify(p, s) \/ CheckMagicBytes(p, s)
           \/ DiscardForeign(p, s) \/ QueueEmail(p, s)
  BY <1>4 DEF Complete, Verify, CheckMagicBytes, DiscardForeign, QueueEmail
<1>5. CASE Assemble(p, s)
  BY <1>5 DEF Assemble
<1>6. CASE FailSession(p, s) \/ Commit(p, s)
  BY <1>6 DEF FailSession, Commit
<1>7. CASE AbortUpload(p, s)
  BY <1>7 DEF AbortUpload, Abort, AbortStorage, AbortSessionStorage, AbortRows
<1>8. CASE Download(p, s)
  BY <1>8 DEF Download, GetDownload, LazyExpire
<1> HIDE DEF UploadTypeOK, Grounded, RowsAgree, Monotone, Exists, FileExpired,
        rows, storage, SessionStatus
<1> QED BY <1>1, <1>2, <1>3, <1>4, <1>5, <1>6, <1>7, <1>8
        DEF Handle, Initiate, CompleteUpload

LEMMA StepMonotone ==
    ASSUME CleanupTypeOK, Grounded, (UploadNext /\ UNCHANGED cleaner) \/ CleanupNext
    PROVE  Monotone
<1>1. ASSUME NEW p \in Procs, NEW s \in Sessions, Handle(p, s) PROVE Monotone
  BY <1>1, HandleMonotone DEF CleanupTypeOK
<1>2. ASSUME NEW s \in Sessions, NEW n \in PartsOf(s), PutPart(s, n) PROVE Monotone
  BY <1>2 DEF PutPart, Monotone, rows, Exists, FileExpired
<1>3. ASSUME NEW p \in Procs, Abandon(p) PROVE Monotone
  BY <1>3 DEF Abandon, Monotone, rows, storage, Exists, FileExpired
<1>4. CASE Tick
  <2>1. \A s \in Sessions : age'[s] = age[s] \/ age'[s] = age[s] + 1
    BY <1>4 DEF Tick, Later
  <2>2. \A s \in Sessions : FileExpired(s) => FileExpired(s)'
    BY <2>1, TtlAssumption DEF FileExpired, CleanupTypeOK, UploadTypeOK
  <2> QED BY <1>4, <2>2 DEF Tick, Monotone, rows, storage, Exists
<1>5. ASSUME NEW c \in Cleaners, NEW s \in Sessions, WalkOf(c, s) PROVE Monotone
  <2> USE DEF CleanupTypeOK, UploadTypeOK, Monotone, Exists, FileExpired, rows,
          SessionStatus, storage
  <2>1. CASE DeleteExpired(c, s)
    BY <2>1 DEF DeleteExpired
  <2>2. CASE DeleteExpiredFails(c, s)
    BY <2>2 DEF DeleteExpiredFails, uploadVars
  <2>3. CASE MarkExpired(c, s)
    BY <2>3 DEF MarkExpired
  <2>4. CASE AbortStale(c, s)
    BY <2>4 DEF AbortStale, AbortSessionStorage
  <2>5. CASE MarkStale(c, s)
    BY <2>5 DEF MarkStale
  <2> QED BY <1>5, <2>1, <2>2, <2>3, <2>4, <2>5 DEF WalkOf
<1>6. ASSUME UNCHANGED uploadVars PROVE Monotone
  BY <1>6 DEF uploadVars, Monotone, Exists, FileExpired
<1>7. CASE CleanupNext
  BY <1>5, <1>6, <1>7 DEF CleanupNext, FetchOf, FetchExpired, FetchStale, EndRun, RunFails
<1> QED BY <1>1, <1>2, <1>3, <1>4, <1>7 DEF UploadNext

\* A request's own step adds to what it knows only what it has just checked;
\* the other requests' knowledge is kept by Monotone.
LEMMA HandleKeepsRequestKnows ==
    ASSUME NEW p \in Procs, NEW s \in Sessions, UploadTypeOK, Grounded,
           Handle(p, s), Monotone
    PROVE  RequestKnows'
<1> USE SessionsAssumption
    DEF UploadTypeOK, HandlerType, Grounded, RequestKnows, Monotone, On, AtStep, Steps,
        Begin, Goto, End, Request, Idle, At
<1>1. CASE CreateMultipartUpload(p, s)
  BY <1>1 DEF CreateMultipartUpload
<1>2. ASSUME NEW c \in Contents, CreateRows(p, s, c) PROVE RequestKnows'
  BY <1>2 DEF CreateRows
<1>3. ASSUME NEW n \in PartsOf(s), GetPartUrls(p, s, n) PROVE RequestKnows'
  BY <1>3 DEF GetPartUrls, Authorized, Active, Exists, ACTIVE_STATUSES
<1>4. CASE MarkUploading(p, s)
  BY <1>4 DEF MarkUploading
<1>5. CASE SignUrl(p, s)
  BY <1>5 DEF SignUrl
<1>6. CASE Complete(p, s)
  BY <1>6 DEF Complete, Authorized, Active, Exists, ACTIVE_STATUSES
<1>7. CASE Verify(p, s)
  BY <1>7 DEF Verify
<1>8. CASE Assemble(p, s)
  <2>1. CASE Goto(p, "magic") /\ upload'[s] = "done"
    BY <1>8, <2>1 DEF Assemble
  <2>2. CASE End(p)
    BY <2>2
  <2> QED BY <1>8, <2>1, <2>2 DEF Assemble
<1>9. CASE CheckMagicBytes(p, s)
  BY <1>9 DEF CheckMagicBytes, storage, rows
<1>10. CASE DiscardForeign(p, s)
  BY <1>10 DEF DiscardForeign
<1>11. CASE FailSession(p, s)
  BY <1>11 DEF FailSession
<1>12. CASE Commit(p, s)
  <2>1. CASE Goto(p, "email")
    BY <1>12, <2>1 DEF Commit
  <2>2. CASE End(p)
    BY <2>2
  <2> QED BY <1>12, <2>1, <2>2 DEF Commit
<1>13. CASE QueueEmail(p, s)
  BY <1>13 DEF QueueEmail
<1>14. CASE Abort(p, s)
  BY <1>14 DEF Abort
<1>15. CASE AbortStorage(p, s)
  BY <1>15 DEF AbortStorage
<1>16. CASE AbortRows(p, s)
  BY <1>16 DEF AbortRows
<1>17. CASE GetDownload(p, s)
  <2>1. Exists(s)
    BY <1>17 DEF GetDownload, RowsAgree, Exists
  <2> QED BY <1>17, <2>1 DEF GetDownload
<1>18. CASE LazyExpire(p, s)
  BY <1>18 DEF LazyExpire
<1> HIDE DEF UploadTypeOK, HandlerType, Grounded, RequestKnows, Monotone, On, AtStep,
        Steps, Begin, Goto, End, Request, Idle, At
<1> QED
  BY <1>1, <1>2, <1>3, <1>4, <1>5, <1>6, <1>7, <1>8, <1>9, <1>10, <1>11, <1>12,
     <1>13, <1>14, <1>15, <1>16, <1>17, <1>18
     DEF Handle, Initiate, Upload, CompleteUpload, AbortUpload, Download

\* The writes of a request keep the rows and the bucket in agreement, because
\* of what the request knows when it writes.
LEMMA HandleKeepsRowsAgree ==
    ASSUME NEW p \in Procs, NEW s \in Sessions, UploadTypeOK, Grounded,
           Handle(p, s), Monotone
    PROVE  RowsAgree'
<1> USE DEF UploadTypeOK, Grounded, RequestKnows, RowsAgree, Monotone, On, AtStep,
        Steps, At, FileExpired, rows, storage, SessionStatus, FileStatus, Contents
<1>1. CASE CreateMultipartUpload(p, s)
  BY <1>1 DEF CreateMultipartUpload
<1>2. ASSUME NEW c \in Contents, CreateRows(p, s, c) PROVE RowsAgree'
  BY <1>2 DEF CreateRows
<1>3. ASSUME NEW n \in PartsOf(s), GetPartUrls(p, s, n) PROVE RowsAgree'
  BY <1>3 DEF GetPartUrls
<1>4. CASE MarkUploading(p, s)
  <2>1. session[s] # "none"
    BY <1>4 DEF MarkUploading, Exists
  <2> QED BY <1>4, <2>1 DEF MarkUploading
<1>5. CASE SignUrl(p, s)
  BY <1>5 DEF SignUrl
<1>6. CASE Complete(p, s)
  BY <1>6 DEF Complete
<1>7. CASE Verify(p, s)
  BY <1>7 DEF Verify
<1>8. CASE Assemble(p, s)
  <2>1. session[s] # "none"
    BY <1>8 DEF Assemble, Exists
  <2> QED BY <1>8, <2>1 DEF Assemble
<1>9. CASE CheckMagicBytes(p, s)
  BY <1>9 DEF CheckMagicBytes
<1>10. CASE DiscardForeign(p, s)
  BY <1>10 DEF DiscardForeign
<1>11. CASE FailSession(p, s)
  BY <1>11 DEF FailSession
<1>12. CASE Commit(p, s)
  BY <1>12 DEF Commit
<1>13. CASE QueueEmail(p, s)
  BY <1>13 DEF QueueEmail
<1>14. CASE Abort(p, s)
  BY <1>14 DEF Abort
<1>15. CASE AbortStorage(p, s)
  BY <1>15 DEF AbortStorage, AbortSessionStorage
<1>16. CASE AbortRows(p, s)
  BY <1>16 DEF AbortRows
<1>17. CASE GetDownload(p, s)
  BY <1>17 DEF GetDownload
<1>18. CASE LazyExpire(p, s)
  BY <1>18 DEF LazyExpire, Exists
<1> HIDE DEF UploadTypeOK, Grounded, RequestKnows, RowsAgree, Monotone, On, AtStep,
        Steps, At, FileExpired, rows, storage, SessionStatus, FileStatus, Contents
<1> QED
  BY <1>1, <1>2, <1>3, <1>4, <1>5, <1>6, <1>7, <1>8, <1>9, <1>10, <1>11, <1>12,
     <1>13, <1>14, <1>15, <1>16, <1>17, <1>18
     DEF Handle, Initiate, Upload, CompleteUpload, AbortUpload, Download

\* A cleanup run deletes and expires only rows it fetched as due, and a row once
\* due stays due: its steps keep what everyone knows.
LEMMA WalkKeepsGrounded ==
    ASSUME NEW c \in Cleaners, NEW s \in Sessions, CleanupTypeOK, Grounded,
           WalkOf(c, s), Monotone
    PROVE  Grounded'
<1>1. UNCHANGED handler
  BY DEF WalkOf, DeleteExpired, DeleteExpiredFails, MarkExpired, AbortStale,
         MarkStale, uploadVars
<1>2. RequestKnows'
  BY <1>1 DEF Grounded, RequestKnows, Monotone, On, AtStep, Steps
<1>3. cleaner[c].at = "expired" /\ s \in cleaner[c].todo => FileExpired(s)
  BY DEF Grounded, RunKnows
<1>4. RunKnows'
  <2> USE SessionsAssumption
      DEF CleanupTypeOK, CleanerType, Grounded, RunKnows, Monotone, Stand, NextRow,
          UpdateRow, AfterDelete
  <2>1. CASE DeleteExpired(c, s)
    BY <2>1 DEF DeleteExpired
  <2>2. CASE DeleteExpiredFails(c, s)
    BY <2>2 DEF DeleteExpiredFails
  <2>3. CASE MarkExpired(c, s)
    BY <2>3 DEF MarkExpired
  <2>4. CASE AbortStale(c, s)
    BY <2>4 DEF AbortStale
  <2>5. CASE MarkStale(c, s)
    BY <2>5 DEF MarkStale
  <2> QED BY <2>1, <2>2, <2>3, <2>4, <2>5 DEF WalkOf
<1>5. RowsAgree'
  <2> USE DEF CleanupTypeOK, UploadTypeOK, Grounded, RowsAgree, Monotone, FileExpired,
          rows, storage, SessionStatus, FileStatus
  <2>1. CASE DeleteExpired(c, s)
    BY <1>3, <2>1 DEF DeleteExpired
  <2>2. CASE DeleteExpiredFails(c, s)
    BY <2>2 DEF DeleteExpiredFails, uploadVars
  <2>3. CASE MarkExpired(c, s)
    <3>1. FileExpired(s) /\ FileExpired(s)'
      BY <2>3 DEF MarkExpired, RunKnows
    <3>2. file[s] # "none"
      BY <2>3 DEF MarkExpired, RunKnows, Exists
    <3> QED BY <2>3, <3>1, <3>2 DEF MarkExpired
  <2>4. CASE AbortStale(c, s)
    BY <2>4 DEF AbortStale, AbortSessionStorage
  <2>5. CASE MarkStale(c, s)
    <3>1. session[s] # "none"
      BY <2>5 DEF MarkStale, RunKnows, Exists
    <3> QED BY <2>5, <3>1 DEF MarkStale
  <2> QED BY <2>1, <2>2, <2>3, <2>4, <2>5 DEF WalkOf
<1> QED BY <1>2, <1>4, <1>5 DEF Grounded

LEMMA CleanupKeepsGrounded ==
    ASSUME CleanupTypeOK, Grounded, CleanupNext, Monotone
    PROVE  Grounded'
<1>1. ASSUME NEW c \in Cleaners, UNCHANGED uploadVars,
             \/ \E batch \in SUBSET Sessions : FetchExpired(c, batch) \/ FetchStale(c, batch)
             \/ EndRun(c)
             \/ RunFails(c)
      PROVE  Grounded'
  <2>1. RequestKnows' /\ RowsAgree'
    BY <1>1 DEF uploadVars, Grounded, RequestKnows, RowsAgree, On, AtStep, FileExpired,
                Exists
  <2>2. RunKnows'
    <3> USE DEF CleanupTypeOK, CleanerType, Grounded, RunKnows, Stand, Monotone
    <3>1. ASSUME NEW batch \in SUBSET Sessions, FetchExpired(c, batch) PROVE RunKnows'
      BY <1>1, <3>1, SessionsAssumption
         DEF FetchExpired, IsBatchOf, ExpiredRow, RowsAgree
    <3>2. ASSUME NEW batch \in SUBSET Sessions, FetchStale(c, batch) PROVE RunKnows'
      BY <1>1, <3>2, SessionsAssumption
         DEF FetchStale, IsBatchOf, StaleRow, Active, Exists, ACTIVE_STATUSES
    <3>3. CASE EndRun(c) \/ RunFails(c)
      BY <3>3 DEF EndRun, RunFails, CleanerIdle
    <3> QED BY <1>1, <3>1, <3>2, <3>3
  <2> QED BY <2>1, <2>2 DEF Grounded
<1> QED BY <1>1, WalkKeepsGrounded
        DEF CleanupNext, FetchOf, FetchExpired, FetchStale, EndRun, RunFails

LEMMA RequestsKeepGrounded ==
    ASSUME CleanupTypeOK, Grounded, UploadNext, UNCHANGED cleaner, Monotone
    PROVE  Grounded'
<1>1. RunKnows'
  BY DEF Grounded, RunKnows, Monotone
<1>2. ASSUME NEW p \in Procs, NEW s \in Sessions, Handle(p, s)
      PROVE  RequestKnows' /\ RowsAgree'
  BY <1>2, HandleKeepsRequestKnows, HandleKeepsRowsAgree DEF CleanupTypeOK
<1>3. ASSUME NEW s \in Sessions, NEW n \in PartsOf(s), PutPart(s, n)
      PROVE  RequestKnows' /\ RowsAgree'
  BY <1>3 DEF PutPart, Grounded, RequestKnows, RowsAgree, Monotone, On, AtStep, rows,
              FileExpired, CleanupTypeOK, UploadTypeOK
<1>4. ASSUME NEW p \in Procs, Abandon(p)
      PROVE  RequestKnows' /\ RowsAgree'
  BY <1>4, SessionsAssumption
     DEF Abandon, End, Idle, Grounded, RequestKnows, RowsAgree, Monotone, On, AtStep,
         rows, storage, FileExpired, CleanupTypeOK, UploadTypeOK
<1>5. CASE Tick
  <2>1. UNCHANGED <<session, file, content, upload, object, handler>>
    BY <1>5 DEF Tick, rows, storage
  <2>2. RequestKnows'
    BY <2>1 DEF Grounded, RequestKnows, Monotone, On, AtStep, Exists
  <2>3. RowsAgree'
    BY <2>1 DEF Grounded, RowsAgree, Monotone
  <2> QED BY <1>1, <2>2, <2>3 DEF Grounded
<1> QED BY <1>1, <1>2, <1>3, <1>4, <1>5 DEF UploadNext, Grounded

Steady == TypeOK /\ Grounded

LEMMA SteadyInit == SystemInit => Steady
<1> SUFFICES ASSUME SystemInit PROVE Steady
  OBVIOUS
<1>1. TypeOK
  BY TypeInit
<1>2. Grounded
  BY SessionsAssumption
     DEF SystemInit, InitCleanup, Init, Grounded, RequestKnows, RunKnows, RowsAgree, On,
         Idle, CleanerIdle
<1> QED BY <1>1, <1>2 DEF Steady

LEMMA SteadyStep == Steady /\ [Next]_vars => Steady'
<1> SUFFICES ASSUME Steady, [Next]_vars PROVE Steady'
  OBVIOUS
<1>1. TypeOK /\ CleanupTypeOK /\ Grounded
  BY DEF Steady, TypeOK
<1>2. TypeOK'
  BY <1>1, TypeStep
<1>3. CASE Next
  <2>1. CASE UploadNext /\ UNCHANGED cleaner
    BY <1>1, <1>2, <2>1, StepMonotone, RequestsKeepGrounded DEF Steady
  <2>2. CASE CleanupNext
    BY <1>1, <1>2, <2>2, StepMonotone, CleanupKeepsGrounded DEF Steady
  <2> QED BY <1>3, <2>1, <2>2 DEF Next
<1>4. CASE UNCHANGED vars
  BY <1>1, <1>2, <1>4
     DEF vars, cleanupVars, uploadVars, Steady, Grounded, RequestKnows, RunKnows,
         RowsAgree, On, AtStep, FileExpired, Exists
<1> QED BY <1>3, <1>4

\* Whatever requests, sweeps, failures and late PUTs overlap: only bytes of the
\* declared size and kind are READY, and a COMPLETED session's file did not fail.
THEOREM UploadsAreSound == Spec => [](ReadyIsValidated /\ CompletedFileNotFailed)
<1>1. Steady => ReadyIsValidated /\ CompletedFileNotFailed
  BY DEF Steady, Grounded, RowsAgree, ReadyIsValidated, CompletedFileNotFailed
<1> QED BY <1>1, SteadyInit, SteadyStep, PTL DEF Spec

-----------------------------------------------------------------------------
(* What becomes of multipart uploads *)

Closed(s) == upload[s] # "open" \/ s \in unaborted

\* Beside NothingLeftOpen: who is about to write that a session is over has seen
\* its upload closed, or refused; and a session with rows has had its upload.
OpenInv ==
    /\ NothingLeftOpen
    /\ \A s \in Sessions :
          /\ upload[s] = "open" => Multipart(s)
          /\ Exists(s) /\ Multipart(s) => upload[s] # "none"
    /\ \A p \in Procs, s \in Sessions :
          /\ At(p, "createRows", s) => upload[s] # "none"
          /\ At(p, "abortRows", s) => Closed(s)
    /\ \A c \in Cleaners, s \in Sessions :
          cleaner[c].at = "abortRow" /\ cleaner[c].on = s => Closed(s)

\* An upload is opened once, and once closed or refused stays so.
OpenKept ==
    \A s \in Sessions :
        /\ upload[s] # "none" => upload'[s] # "none"
        /\ Closed(s) /\ (upload[s] # "none" \/ ~Multipart(s)) => Closed(s)'
        /\ upload'[s] = "open" => Multipart(s)

LEMMA HandleKeepsOpen ==
    ASSUME NEW p \in Procs, NEW s \in Sessions, UploadTypeOK, OpenInv, Handle(p, s)
    PROVE  OpenKept
<1>1. CASE UNCHANGED <<upload, unaborted>>
  BY <1>1 DEF OpenKept, Closed, OpenInv
<1>2. CASE CreateMultipartUpload(p, s)
  BY <1>2 DEF CreateMultipartUpload, UploadTypeOK, OpenKept, Closed, OpenInv, effects
<1>3. CASE Assemble(p, s)
  BY <1>3 DEF Assemble, UploadTypeOK, OpenKept, Closed, OpenInv, effects
<1>4. CASE AbortStorage(p, s)
  BY <1>4 DEF AbortStorage, AbortSessionStorage, UploadTypeOK, OpenKept, Closed, OpenInv,
              storage
<1>5. CASE ~CreateMultipartUpload(p, s) /\ ~Assemble(p, s) /\ ~AbortStorage(p, s)
  BY <1>1, <1>5
     DEF Handle, Initiate, CreateRows, Upload, GetPartUrls, MarkUploading, SignUrl,
         CompleteUpload, Complete, Verify, CheckMagicBytes, DiscardForeign, FailSession,
         Commit, QueueEmail, AbortUpload, Abort, AbortRows, Download, GetDownload,
         LazyExpire, storage, effects
<1> QED BY <1>2, <1>3, <1>4, <1>5

LEMMA StepKeepsOpen ==
    ASSUME CleanupTypeOK, OpenInv, UploadNext \/ CleanupNext
    PROVE  OpenKept
<1>1. CASE UNCHANGED <<upload, unaborted>>
  BY <1>1 DEF OpenKept, Closed, OpenInv
<1>2. ASSUME NEW p \in Procs, NEW s \in Sessions, Handle(p, s) PROVE OpenKept
  BY <1>2, HandleKeepsOpen DEF CleanupTypeOK
<1>3. ASSUME NEW c \in Cleaners, NEW s \in Sessions, AbortStale(c, s) PROVE OpenKept
  BY <1>3 DEF AbortStale, AbortSessionStorage, CleanupTypeOK, UploadTypeOK, OpenKept,
              Closed, OpenInv, storage
<1>4. CASE UploadNext
  <2>1. ASSUME NEW s \in Sessions, NEW n \in PartsOf(s), PutPart(s, n) PROVE OpenKept
    BY <1>1, <2>1 DEF PutPart, effects
  <2>2. ASSUME NEW p \in Procs, Abandon(p) PROVE OpenKept
    BY <1>1, <2>2 DEF Abandon, storage, effects
  <2>3. CASE Tick
    BY <1>1, <2>3 DEF Tick, storage, effects
  <2> QED BY <1>2, <1>4, <2>1, <2>2, <2>3 DEF UploadNext
<1>5. CASE CleanupNext
  <2>1. ASSUME NEW c \in Cleaners, NEW s \in Sessions, WalkOf(c, s), ~AbortStale(c, s)
        PROVE  OpenKept
    BY <1>1, <2>1 DEF WalkOf, DeleteExpired, DeleteExpiredFails, MarkExpired, MarkStale,
                      uploadVars, storage, effects
  <2>2. CASE UNCHANGED uploadVars
    BY <1>1, <2>2 DEF uploadVars
  <2> QED BY <1>3, <1>5, <2>1, <2>2
          DEF CleanupNext, FetchOf, FetchExpired, FetchStale, EndRun, RunFails
<1> QED BY <1>4, <1>5

\* A session with rows: its upload, if it has one, was opened before.
LEMMA ClosedStays ==
    ASSUME OpenInv, OpenKept, NEW s \in Sessions, Exists(s), Closed(s)
    PROVE  Closed(s)'
BY DEF OpenInv, OpenKept

\* What a step leaves of OpenInv when it ends no session and brings nobody to the row.
LEMMA OthersKeepOpen ==
    ASSUME OpenInv, OpenKept, Grounded
    PROVE  /\ \A s \in Sessions :
                 /\ upload'[s] = "open" => Multipart(s)
                 /\ Exists(s) /\ Multipart(s) => upload'[s] # "none"
                 /\ session[s] \in {"COMPLETED", "FAILED", "ABORTED"} => Closed(s)'
           /\ \A p \in Procs, s \in Sessions :
                 /\ At(p, "createRows", s) => upload'[s] # "none"
                 /\ At(p, "abortRows", s) => Closed(s)'
           /\ \A c \in Cleaners, s \in Sessions :
                 cleaner[c].at = "abortRow" /\ cleaner[c].on = s => Closed(s)'
<1>1. ASSUME NEW s \in Sessions, session[s] \in {"COMPLETED", "FAILED", "ABORTED"}
      PROVE  Closed(s)'
  <2>1. Exists(s) /\ Closed(s)
    BY <1>1 DEF OpenInv, NothingLeftOpen, Exists, Closed
  <2> QED BY <2>1, ClosedStays
<1>2. ASSUME NEW p \in Procs, NEW s \in Sessions, At(p, "abortRows", s) PROVE Closed(s)'
  <2>1. Exists(s)
    BY <1>2 DEF Grounded, RequestKnows, On, AtStep, At, Steps
  <2>2. Closed(s)
    BY <1>2 DEF OpenInv
  <2> QED BY <2>1, <2>2, ClosedStays
<1>3. ASSUME NEW c \in Cleaners, NEW s \in Sessions,
             cleaner[c].at = "abortRow" /\ cleaner[c].on = s
      PROVE  Closed(s)'
  <2>1. Exists(s)
    BY <1>3 DEF Grounded, RunKnows
  <2>2. Closed(s)
    BY <1>3 DEF OpenInv
  <2> QED BY <2>1, <2>2, ClosedStays
<1>4. \A s \in Sessions :
         /\ upload'[s] = "open" => Multipart(s)
         /\ Exists(s) /\ Multipart(s) => upload'[s] # "none"
  BY DEF OpenInv, OpenKept
<1>5. \A p \in Procs, s \in Sessions : At(p, "createRows", s) => upload'[s] # "none"
  BY DEF OpenInv, OpenKept
<1> QED BY <1>1, <1>2, <1>3, <1>4, <1>5

\* The step of a request, given what it writes and where it goes.
LEMMA RequestStepOpen ==
    ASSUME UploadTypeOK, Grounded, OpenInv, OpenKept, UNCHANGED cleaner,
           NEW p \in Procs, NEW s \in Sessions,
           \A q \in Procs : q # p => handler'[q] = handler[q],
           At(p, "createRows", s)' => upload'[s] # "none",
           At(p, "abortRows", s)' => Closed(s)',
           handler'[p].on \in {s, NoSession},
           \A t \in Sessions : t # s => session'[t] = session[t],
           Exists(s)' => Exists(s) \/ upload'[s] # "none" \/ ~Multipart(s),
           \/ session'[s] = session[s]
           \/ session'[s] \notin {"COMPLETED", "FAILED", "ABORTED"}
           \/ Closed(s)'
    PROVE  OpenInv'
<1>1. NothingLeftOpen'
  <2> SUFFICES ASSUME NEW t \in Sessions, session'[t] \in {"COMPLETED", "FAILED", "ABORTED"}
               PROVE  Closed(t)'
    BY DEF NothingLeftOpen, Closed
  <2> QED BY OthersKeepOpen
<1>2. ASSUME NEW t \in Sessions
      PROVE  /\ upload'[t] = "open" => Multipart(t)
             /\ Exists(t)' /\ Multipart(t) => upload'[t] # "none"
  BY OthersKeepOpen DEF Exists
<1>3. ASSUME NEW q \in Procs, NEW t \in Sessions
      PROVE  /\ At(q, "createRows", t)' => upload'[t] # "none"
             /\ At(q, "abortRows", t)' => Closed(t)'
  <2>1. CASE q = p
    <3>1. At(p, "createRows", t)' \/ At(p, "abortRows", t)' => t = s
      BY SessionsAssumption DEF At
    <3> QED BY <2>1, <3>1
  <2>2. CASE q # p
    <3>1. \A step : At(q, step, t)' <=> At(q, step, t)
      BY <2>2 DEF At
    <3> QED BY <3>1, OthersKeepOpen
  <2> QED BY <2>1, <2>2
<1>4. \A c \in Cleaners, t \in Sessions :
         cleaner'[c].at = "abortRow" /\ cleaner'[c].on = t => Closed(t)'
  BY OthersKeepOpen
<1> QED BY <1>1, <1>2, <1>3, <1>4 DEF OpenInv, Multipart

LEMMA HandleOpen ==
    ASSUME NEW p \in Procs, NEW s \in Sessions, UploadTypeOK, Grounded, OpenInv, OpenKept,
           Handle(p, s), UNCHANGED cleaner
    PROVE  OpenInv'
<1>0. /\ handler \in [Procs -> HandlerType]
      /\ session \in [Sessions -> SessionStatus \cup {"none"}]
  BY DEF UploadTypeOK
<1>1. ASSUME NEW step, Begin(p, step, s, 0) \/ (\E n : Begin(p, step, s, n))
                       \/ (handler[p].on = s /\ Goto(p, step))
      PROVE  /\ \A q \in Procs : q # p => handler'[q] = handler[q]
             /\ handler'[p].at = step /\ handler'[p].on = s
  BY <1>0, <1>1 DEF Begin, Goto, Request
<1>2. ASSUME End(p)
      PROVE  /\ \A q \in Procs : q # p => handler'[q] = handler[q]
             /\ handler'[p].at = "idle" /\ handler'[p].on = NoSession
  BY <1>0, <1>2 DEF End, Idle
\* Steps that touch neither the session nor a slot on its way to the rows.
<1>3. ASSUME UNCHANGED session,
             \/ End(p)
             \/ \E step \in Steps \ {"createRows", "abortRows"} :
                   (\E n : Begin(p, step, s, n)) \/ (handler[p].on = s /\ Goto(p, step))
      PROVE  OpenInv'
  <2>1. /\ \A q \in Procs : q # p => handler'[q] = handler[q]
        /\ handler'[p].at \notin {"createRows", "abortRows"}
        /\ handler'[p].on \in {s, NoSession}
    BY <1>1, <1>2, <1>3
  <2>2. ~At(p, "createRows", s)' /\ ~At(p, "abortRows", s)'
    BY <2>1 DEF At
  <2>3. Exists(s)' => Exists(s)
    BY <1>3 DEF Exists
  <2> QED BY <1>3, <2>1, <2>2, <2>3, RequestStepOpen
<1>4. CASE CreateMultipartUpload(p, s)
  <2>1. upload'[s] # "none" /\ UNCHANGED session
    BY <1>4 DEF CreateMultipartUpload, rows, UploadTypeOK
  <2>2. /\ \A q \in Procs : q # p => handler'[q] = handler[q]
        /\ handler'[p].at = "createRows" /\ handler'[p].on = s
    BY <1>1, <1>4 DEF CreateMultipartUpload
  <2>3. ~At(p, "abortRows", s)' /\ (Exists(s)' => Exists(s))
    BY <2>1, <2>2 DEF At, Exists
  <2> QED BY <2>1, <2>2, <2>3, RequestStepOpen
<1>5. ASSUME NEW c \in Contents, CreateRows(p, s, c) PROVE OpenInv'
  <2>1. /\ session' = [session EXCEPT ![s] = "PENDING"] /\ End(p) /\ UNCHANGED upload
        /\ Multipart(s) => At(p, "createRows", s)
    BY <1>5 DEF CreateRows, storage
  <2>2. /\ \A q \in Procs : q # p => handler'[q] = handler[q]
        /\ handler'[p].at = "idle" /\ handler'[p].on = NoSession
    BY <1>2, <2>1
  <2>3. ~At(p, "createRows", s)' /\ ~At(p, "abortRows", s)'
    BY <2>2 DEF At
  <2>4. upload'[s] # "none" \/ ~Multipart(s)
    BY <2>1 DEF OpenInv
  <2>5. session'[s] \notin {"COMPLETED", "FAILED", "ABORTED"}
    BY <1>0, <2>1
  <2>6. \A t \in Sessions : t # s => session'[t] = session[t]
    BY <1>0, <2>1
  <2> QED BY <2>2, <2>3, <2>4, <2>5, <2>6, RequestStepOpen
<1>6. CASE \E n \in PartsOf(s) : GetPartUrls(p, s, n)
  BY <1>3, <1>6 DEF GetPartUrls, rows, Steps
<1>7. CASE MarkUploading(p, s)
  <2>1. /\ session' = [session EXCEPT ![s] = "UPLOADING"] /\ Goto(p, "signUrl")
        /\ handler[p].on = s /\ handler[p].at = "markUploading"
    BY <1>7 DEF MarkUploading, At
  <2>2. /\ \A q \in Procs : q # p => handler'[q] = handler[q]
        /\ handler'[p].at = "signUrl" /\ handler'[p].on = s
    BY <1>1, <2>1
  <2>3. ~At(p, "createRows", s)' /\ ~At(p, "abortRows", s)'
    BY <2>2 DEF At
  <2>4. Exists(s)
    BY <2>1 DEF Grounded, RequestKnows, On, AtStep, Steps
  <2>5. session'[s] \notin {"COMPLETED", "FAILED", "ABORTED"}
    BY <1>0, <2>1
  <2>6. \A t \in Sessions : t # s => session'[t] = session[t]
    BY <1>0, <2>1
  <2> QED BY <2>2, <2>3, <2>4, <2>5, <2>6, RequestStepOpen
<1>8. CASE SignUrl(p, s)
  BY <1>3, <1>8 DEF SignUrl, rows
<1>9. CASE Complete(p, s)
  BY <1>3, <1>9 DEF Complete, rows, Steps
<1>10. CASE Verify(p, s)
  BY <1>3, <1>10 DEF Verify, rows, Steps, At
<1>11. CASE Assemble(p, s)
  BY <1>3, <1>11 DEF Assemble, rows, Steps, At
<1>12. CASE CheckMagicBytes(p, s)
  BY <1>3, <1>12 DEF CheckMagicBytes, rows, Steps, At
<1>13. CASE DiscardForeign(p, s)
  BY <1>3, <1>13 DEF DiscardForeign, rows, Steps, At
<1>14. CASE QueueEmail(p, s)
  BY <1>3, <1>14 DEF QueueEmail, rows
<1>15. CASE Abort(p, s)
  BY <1>3, <1>15 DEF Abort, rows, Steps
<1>16. CASE Download(p, s)
  BY <1>3, <1>16 DEF Download, GetDownload, LazyExpire, rows, Steps
<1>17. CASE AbortStorage(p, s)
  <2>1. /\ UNCHANGED session /\ Goto(p, "abortRows") /\ handler[p].on = s
    BY <1>17 DEF AbortStorage, rows, At
  <2>2. /\ \A q \in Procs : q # p => handler'[q] = handler[q]
        /\ handler'[p].at = "abortRows" /\ handler'[p].on = s
    BY <1>1, <2>1
  <2>3. Closed(s)'
    BY <1>17 DEF AbortStorage, AbortSessionStorage, Closed, storage, OpenInv, UploadTypeOK
  <2>4. ~At(p, "createRows", s)' /\ (Exists(s)' => Exists(s))
    BY <2>1, <2>2 DEF At, Exists
  <2> QED BY <2>1, <2>2, <2>3, <2>4, RequestStepOpen
<1>18. CASE FailSession(p, s) \/ Commit(p, s) \/ AbortRows(p, s)
  <2>1. handler[p].on = s /\ handler[p].at \in {"fail", "commit", "abortRows"}
    BY <1>18 DEF FailSession, Commit, AbortRows, At
  <2>2. Exists(s) /\ (handler[p].at # "abortRows" /\ Multipart(s) => upload[s] = "done")
    BY <2>1 DEF Grounded, RequestKnows, On, AtStep, Steps
  <2>3. Closed(s)
    BY <2>1, <2>2 DEF OpenInv, Closed, At
  <2>4. Closed(s)'
    BY <2>2, <2>3, ClosedStays
  <2>5. \A t \in Sessions : t # s => session'[t] = session[t]
    BY <1>0, <1>18 DEF FailSession, Commit, AbortRows
  <2>6. End(p) \/ Goto(p, "email")
    BY <1>18 DEF FailSession, Commit, AbortRows
  <2>7. /\ \A q \in Procs : q # p => handler'[q] = handler[q]
        /\ handler'[p].at \notin {"createRows", "abortRows"}
        /\ handler'[p].on \in {s, NoSession}
    BY <1>1, <1>2, <2>1, <2>6
  <2>8. ~At(p, "createRows", s)' /\ ~At(p, "abortRows", s)'
    BY <2>7 DEF At
  <2> QED BY <2>2, <2>4, <2>5, <2>7, <2>8, RequestStepOpen
<1> QED
  BY <1>4, <1>5, <1>6, <1>7, <1>8, <1>9, <1>10, <1>11, <1>12, <1>13, <1>14, <1>15, <1>16,
     <1>17, <1>18
     DEF Handle, Initiate, Upload, CompleteUpload, AbortUpload

LEMMA CleanupOpen ==
    ASSUME CleanupTypeOK, Grounded, OpenInv, OpenKept, CleanupNext
    PROVE  OpenInv'
<1>1. PICK c \in Cleaners :
         FetchOf(c) \/ (\E s \in Sessions : WalkOf(c, s)) \/ EndRun(c) \/ RunFails(c)
  BY DEF CleanupNext
<1>2. UNCHANGED handler
  BY <1>1 DEF FetchOf, FetchExpired, FetchStale, EndRun, RunFails, WalkOf, DeleteExpired,
              DeleteExpiredFails, MarkExpired, AbortStale, MarkStale, uploadVars
<1>3. /\ cleaner \in [Cleaners -> CleanerType]
      /\ session \in [Sessions -> SessionStatus \cup {"none"}]
  BY DEF CleanupTypeOK, UploadTypeOK
<1>4. \A d \in Cleaners : d # c => cleaner'[d] = cleaner[d]
  BY <1>1, <1>3
     DEF FetchOf, FetchExpired, FetchStale, EndRun, RunFails, WalkOf, DeleteExpired,
         DeleteExpiredFails, MarkExpired, AbortStale, MarkStale, AfterDelete, NextRow,
         UpdateRow, Stand
<1>5. \A s \in Sessions :
         cleaner'[c].at = "abortRow" /\ cleaner'[c].on = s => AbortStale(c, s)
  <2>1. ASSUME NEW step, NEW batch, NEW old, NEW on, Stand(c, step, batch, old, on)
        PROVE  cleaner'[c].at = step /\ cleaner'[c].on = on
    BY <1>3, <2>1 DEF Stand
  <2>2. FetchOf(c) \/ EndRun(c) \/ RunFails(c) => cleaner'[c].at # "abortRow"
    <3>1. FetchOf(c) => cleaner'[c].at \in {"expired", "stale"}
      BY <2>1 DEF FetchOf, FetchExpired, FetchStale
    <3>2. EndRun(c) \/ RunFails(c) => cleaner'[c].at = "idle"
      BY <1>3 DEF EndRun, RunFails, CleanerIdle
    <3> QED BY <3>1, <3>2
  <2>3. ASSUME NEW r \in Sessions, WalkOf(c, r), cleaner'[c].at = "abortRow"
        PROVE  AbortStale(c, r) /\ cleaner'[c].on = r
    <3>1. DeleteExpired(c, r) \/ DeleteExpiredFails(c, r) =>
             cleaner'[c].at \in {"expired", "expireRow"}
      BY <2>1 DEF DeleteExpired, DeleteExpiredFails, AfterDelete, NextRow, UpdateRow
    <3>2. MarkExpired(c, r) \/ MarkStale(c, r) => cleaner'[c].at \in {"expired", "stale"}
      BY <2>1 DEF MarkExpired, MarkStale, NextRow
    <3>3. AbortStale(c, r) => cleaner'[c].on = r
      BY <2>1 DEF AbortStale, UpdateRow
    <3> QED BY <2>3, <3>1, <3>2, <3>3 DEF WalkOf
  <2> QED BY <1>1, <2>2, <2>3
<1>6. ASSUME NEW s \in Sessions, AbortStale(c, s) PROVE Closed(s)'
  BY <1>6 DEF AbortStale, AbortSessionStorage, Closed, storage, OpenInv, CleanupTypeOK,
              UploadTypeOK
<1>7. \A d \in Cleaners, s \in Sessions :
         cleaner'[d].at = "abortRow" /\ cleaner'[d].on = s => Closed(s)'
  BY <1>4, <1>5, <1>6, OthersKeepOpen
<1>8. \A s \in Sessions :
         \/ session'[s] = session[s]
         \/ Exists(s) /\ session'[s] = "ABORTED" /\ Closed(s)'
  <2>1. ASSUME NEW s \in Sessions, MarkStale(c, s)
        PROVE  /\ Exists(s) /\ session'[s] = "ABORTED" /\ Closed(s)'
               /\ \A t \in Sessions : t # s => session'[t] = session[t]
    <3>1. cleaner[c].at = "abortRow" /\ cleaner[c].on = s
          /\ session' = [session EXCEPT ![s] = "ABORTED"]
      BY <2>1 DEF MarkStale
    <3>2. Exists(s)
      BY <3>1 DEF Grounded, RunKnows
    <3> QED BY <1>3, <3>1, <3>2, OthersKeepOpen
  <2>2. ASSUME NEW s \in Sessions, WalkOf(c, s), ~MarkStale(c, s) PROVE UNCHANGED session
    BY <2>2 DEF WalkOf, DeleteExpired, DeleteExpiredFails, MarkExpired, AbortStale,
                uploadVars, rows
  <2>3. FetchOf(c) \/ EndRun(c) \/ RunFails(c) => UNCHANGED session
    BY DEF FetchOf, FetchExpired, FetchStale, EndRun, RunFails, uploadVars
  <2> QED BY <1>1, <2>1, <2>2, <2>3
<1>9. NothingLeftOpen'
  BY <1>8, OthersKeepOpen DEF NothingLeftOpen, Closed
<1>10. \A s \in Sessions :
          /\ upload'[s] = "open" => Multipart(s)
          /\ Exists(s)' /\ Multipart(s) => upload'[s] # "none"
  BY <1>8, OthersKeepOpen DEF Exists
<1>11. \A p \in Procs, s \in Sessions :
          /\ At(p, "createRows", s)' => upload'[s] # "none"
          /\ At(p, "abortRows", s)' => Closed(s)'
  BY <1>2, OthersKeepOpen DEF At
<1> QED BY <1>7, <1>9, <1>10, <1>11 DEF OpenInv, Multipart

LEMMA OpenInitially == SystemInit => OpenInv
BY SessionsAssumption
   DEF SystemInit, InitCleanup, Init, OpenInv, NothingLeftOpen, Exists, At, Idle,
       CleanerIdle

LEMMA OpenStep == Steady /\ OpenInv /\ [Next]_vars => OpenInv'
<1> SUFFICES ASSUME Steady, OpenInv, [Next]_vars PROVE OpenInv'
  OBVIOUS
<1>1. CleanupTypeOK /\ UploadTypeOK /\ Grounded
  BY DEF Steady, TypeOK, CleanupTypeOK
<1>2. CASE UploadNext /\ UNCHANGED cleaner
  <2>0. OpenKept
    BY <1>1, <1>2, StepKeepsOpen
  <2>1. ASSUME NEW p \in Procs, NEW s \in Sessions, Handle(p, s) PROVE OpenInv'
    BY <1>1, <1>2, <2>0, <2>1, HandleOpen
  <2>2. ASSUME NEW p \in Procs, Abandon(p) PROVE OpenInv'
    <3>1. /\ UNCHANGED <<session, upload, unaborted, cleaner>>
          /\ handler' = [handler EXCEPT ![p] = Idle]
      BY <1>2, <2>2 DEF Abandon, End, rows, storage, effects
    <3>2. \A q \in Procs, s \in Sessions, step \in {"createRows", "abortRows"} :
             At(q, step, s)' => At(q, step, s)
      BY <1>1, <3>1 DEF At, Idle, UploadTypeOK
    <3> QED BY <3>1, <3>2 DEF OpenInv, NothingLeftOpen, Exists, Closed, Multipart
  <2>3. CASE Tick \/ \E s \in Sessions : \E n \in PartsOf(s) : PutPart(s, n)
    <3>1. UNCHANGED <<session, upload, unaborted, cleaner, handler>>
      BY <1>2, <2>3 DEF Tick, PutPart, rows, storage, effects
    <3> QED BY <3>1 DEF OpenInv, NothingLeftOpen, Exists, Closed, At, Multipart
  <2> QED BY <1>2, <2>1, <2>2, <2>3 DEF UploadNext
<1>3. CASE CleanupNext
  BY <1>1, <1>3, StepKeepsOpen, CleanupOpen
<1>4. CASE UNCHANGED vars
  BY <1>4 DEF vars, cleanupVars, uploadVars, OpenInv, NothingLeftOpen, Exists, Closed, At,
              Multipart
<1> QED BY <1>2, <1>3, <1>4 DEF Next

\* abortSessionStorage and its callers: whoever ends a session, and whatever overlaps, fails
\* or dies, its multipart upload is not left open unless the storage refused to abort it.
THEOREM NoUploadLeftOpen == Spec => []NothingLeftOpen
<1>1. OpenInv => NothingLeftOpen
  BY DEF OpenInv
<1> QED BY <1>1, SteadyInit, SteadyStep, OpenInitially, OpenStep, PTL DEF Spec

-----------------------------------------------------------------------------
(* What holds of a session whose handlers did not race *)

\* A step that leaves a session unraced leaves it without a conflict, and did
\* not reopen it.
LEMMA UnracedStep ==
    ASSUME Observe, NEW s \in Sessions, raced \in [Sessions -> BOOLEAN], ~raced'[s]
    PROVE  ~raced[s] /\ ~Conflict(s)' /\ ~Reopened(s)
BY DEF Observe

\* A step on another session disturbs nothing of this one.
LEMMA UndisturbedElsewhere ==
    ASSUME NEW t \in Sessions,
           Undisturbed(t),
           ~Conflict(t)',
           UNCHANGED <<cleaner, age>>,
           session'[t] = session[t],
           file'[t] = file[t],
           object'[t] = object[t],
           emails'[t] = emails[t],
           answered'[t] = answered[t],
           \A q \in Procs : handler'[q].on = t => handler'[q] = handler[q]
    PROVE  Undisturbed(t)'
<1>1. /\ Active(t)' <=> Active(t)
      /\ FileExpired(t)' <=> FileExpired(t)
      /\ \A c \in Cleaners : Sweeping(c, t)' <=> Sweeping(c, t)
  BY DEF Active, FileExpired, Sweeping
<1>2. \A q \in Procs :
         /\ Completing(q, t)' => Completing(q, t)
         /\ Aborting(q, t)' => Aborting(q, t)
         /\ On(q, t)' => On(q, t) /\ handler'[q] = handler[q]
  BY DEF Completing, Aborting, On
<1> QED BY <1>1, <1>2 DEF Undisturbed, Multipart

LEMMA CommitElsewhere ==
    ASSUME NEW p \in Procs, NEW s \in Sessions, NEW t \in Sessions,
           CleanupTypeOK, Undisturbed(t), Commit(p, s), UNCHANGED cleaner, ~Conflict(t)',
           s # t
    PROVE  Undisturbed(t)'
<1>1. /\ UNCHANGED <<age, object, emails>> /\ handler[p].on = s
      /\ \/ Goto(p, "email") /\ UNCHANGED answered
         \/ End(p) /\ answered' = [answered EXCEPT ![s] = TRUE]
  BY DEF Commit, storage, At
<1>2. session'[t] = session[t] /\ file'[t] = file[t] /\ answered'[t] = answered[t]
  BY <1>1 DEF Commit, CleanupTypeOK, UploadTypeOK
<1>3. \A q \in Procs : handler'[q].on = t => handler'[q] = handler[q]
  BY <1>1, SessionsAssumption DEF Goto, End, Idle, Request, CleanupTypeOK, UploadTypeOK
<1> QED BY <1>1, <1>2, <1>3, UndisturbedElsewhere

\* The requests: each writes a status only from a step at which no conflicting
\* request can be in flight.
LEMMA HandleKeepsUndisturbed ==
    ASSUME NEW p \in Procs, NEW s \in Sessions, NEW t \in Sessions,
           CleanupTypeOK, Grounded, Undisturbed(t), Handle(p, s), UNCHANGED cleaner,
           Monotone, ~Conflict(t)', ~Reopened(t)
    PROVE  Undisturbed(t)'
<1> USE SessionsAssumption
    DEF CleanupTypeOK, UploadTypeOK, HandlerType, Undisturbed, On, Completing, Aborting,
        Sweeping, CompletingSteps, AbortingSteps, Active, ACTIVE_STATUSES, Begin, Goto,
        End, Request, Idle, At, FileExpired, rows, storage, effects
<1>1. CASE CreateMultipartUpload(p, s)
  BY <1>1 DEF CreateMultipartUpload
<1>2. ASSUME NEW c \in Contents, CreateRows(p, s, c) PROVE Undisturbed(t)'
  BY <1>2 DEF CreateRows
<1>3. ASSUME NEW n \in PartsOf(s), GetPartUrls(p, s, n) PROVE Undisturbed(t)'
  BY <1>3 DEF GetPartUrls
<1>4. CASE MarkUploading(p, s)
  BY <1>4 DEF MarkUploading, Reopened
<1>5. CASE SignUrl(p, s)
  BY <1>5 DEF SignUrl
<1>6. CASE Complete(p, s)
  BY <1>6 DEF Complete, Authorized
<1>7. CASE Verify(p, s)
  BY <1>7 DEF Verify
<1>8. CASE Assemble(p, s)
  <2>1. CASE s = t
    <3>1. /\ UNCHANGED <<session, file, age, emails, answered>>
          /\ object[t] => object'[t]
          /\ At(p, "assemble", t)
          /\ Goto(p, "magic") \/ End(p)
      BY <1>8, <2>1 DEF Assemble
    <3>2. CASE Goto(p, "magic")
      BY <3>1, <3>2
    <3>3. CASE End(p)
      BY <3>1, <3>3
    <3> QED BY <3>1, <3>2, <3>3
  <2>2. CASE s # t
    BY <1>8, <2>2, UndisturbedElsewhere DEF Assemble
  <2> QED BY <2>1, <2>2
<1>9. CASE CheckMagicBytes(p, s)
  <2>1. CASE s = t
    BY <1>9, <2>1 DEF CheckMagicBytes
  <2>2. CASE s # t
    BY <1>9, <2>2, UndisturbedElsewhere DEF CheckMagicBytes
  <2> QED BY <2>1, <2>2
<1>10. CASE DiscardForeign(p, s)
  BY <1>10 DEF DiscardForeign, Conflict
<1>11. CASE FailSession(p, s)
  BY <1>11 DEF FailSession, Conflict
<1>12. CASE Commit(p, s)
  <2>1. CASE s = t
    BY <1>12, <2>1 DEF Commit, Conflict
  <2>2. CASE s # t
    BY <1>12, <2>2, CommitElsewhere
  <2> QED BY <2>1, <2>2
<1>13. CASE QueueEmail(p, s)
  BY <1>13 DEF QueueEmail
<1>14. CASE Abort(p, s)
  BY <1>14 DEF Abort
<1>15. CASE AbortStorage(p, s)
  BY <1>15 DEF AbortStorage, AbortSessionStorage, Conflict
<1>16. CASE AbortRows(p, s)
  BY <1>16 DEF AbortRows, Conflict
<1>17. CASE GetDownload(p, s)
  BY <1>17 DEF GetDownload
<1>18. CASE LazyExpire(p, s)
  BY <1>18 DEF LazyExpire
<1> HIDE SessionsAssumption
    DEF CleanupTypeOK, UploadTypeOK, HandlerType, Undisturbed, On, Completing, Aborting,
        Sweeping, CompletingSteps, AbortingSteps, Active, ACTIVE_STATUSES, Begin, Goto,
        End, Request, Idle, At, FileExpired, rows, storage, effects
<1> QED
  BY <1>1, <1>2, <1>3, <1>4, <1>5, <1>6, <1>7, <1>8, <1>9, <1>10, <1>11, <1>12,
     <1>13, <1>14, <1>15, <1>16, <1>17, <1>18
     DEF Handle, Initiate, Upload, CompleteUpload, AbortUpload, Download

LEMMA RequestsKeepUndisturbed ==
    ASSUME NEW t \in Sessions, CleanupTypeOK, Grounded, Undisturbed(t), UploadNext,
           UNCHANGED cleaner, Monotone, ~Conflict(t)', ~Reopened(t)
    PROVE  Undisturbed(t)'
<1>1. ASSUME NEW p \in Procs, NEW s \in Sessions, Handle(p, s)
      PROVE  Undisturbed(t)'
  BY <1>1, HandleKeepsUndisturbed
<1> USE SessionsAssumption
    DEF CleanupTypeOK, UploadTypeOK, Undisturbed, On, Completing, Aborting, Sweeping,
        Active, rows, storage, effects, FileExpired
<1>2. ASSUME NEW s \in Sessions, NEW n \in PartsOf(s), PutPart(s, n)
      PROVE  Undisturbed(t)'
  BY <1>2 DEF PutPart
<1>3. ASSUME NEW p \in Procs, Abandon(p)
      PROVE  Undisturbed(t)'
  BY <1>3 DEF Abandon, End, Idle, CompletingSteps, AbortingSteps
<1>4. CASE Tick
  <2>1. UNCHANGED <<session, file, content, object, handler, cleaner, emails, answered>>
    BY <1>4 DEF Tick
  <2>2. FileExpired(t) => FileExpired(t)'
    BY DEF Monotone
  <2> QED BY <2>1, <2>2
<1> QED BY <1>1, <1>2, <1>3, <1>4 DEF UploadNext

\* A cleanup run aborts a session only if it was active when it was fetched, and
\* no completion can have been in flight since.
LEMMA CleanupKeepsUndisturbed ==
    ASSUME NEW t \in Sessions, CleanupTypeOK, Grounded, Undisturbed(t), CleanupNext,
           Monotone, ~Conflict(t)'
    PROVE  Undisturbed(t)'
<1> USE DEF CleanupTypeOK, CleanerType, UploadTypeOK, Undisturbed, On, Completing,
        Aborting, Sweeping, Active, Stand, NextRow, UpdateRow, AfterDelete, rows,
        storage, effects, uploadVars, FileExpired
<1>1. ASSUME NEW c \in Cleaners, NEW batch \in SUBSET Sessions, FetchExpired(c, batch)
      PROVE  Undisturbed(t)'
  BY <1>1 DEF FetchExpired
<1>2. ASSUME NEW c \in Cleaners, NEW batch \in SUBSET Sessions, FetchStale(c, batch)
      PROVE  Undisturbed(t)'
  BY <1>2 DEF FetchStale, IsBatchOf, StaleRow, ACTIVE_STATUSES
<1>3. ASSUME NEW c \in Cleaners, NEW s \in Sessions, WalkOf(c, s)
      PROVE  Undisturbed(t)'
  <2>1. UNCHANGED handler
    BY <1>3 DEF WalkOf, DeleteExpired, DeleteExpiredFails, MarkExpired, AbortStale,
                MarkStale
  <2>2. CASE DeleteExpired(c, s)
    <3>1. FileExpired(s)
      BY <2>2 DEF DeleteExpired, Grounded, RunKnows
    <3> HIDE DEF Undisturbed
    <3>2. ASSUME NEW d \in Cleaners, Sweeping(d, t)' PROVE Sweeping(d, t)
      <4>1. d = c => cleaner'[d].at \in {"expired", "expireRow"}
        BY <2>2 DEF DeleteExpired
      <4>2. d # c => cleaner'[d] = cleaner[d]
        BY <2>2 DEF DeleteExpired
      <4> QED BY <3>2, <4>1, <4>2
    <3>3. object'[t] = object[t] \/ FileExpired(t)
      BY <2>2, <3>1 DEF DeleteExpired
    <3>4. UNCHANGED <<session, file, content, age, emails, answered>>
      BY <2>2 DEF DeleteExpired
    <3> HIDE DEF Sweeping, Stand, NextRow, UpdateRow, AfterDelete
    <3> USE DEF Undisturbed
    <3> QED BY <2>1, <3>2, <3>3, <3>4
  <2>3. CASE DeleteExpiredFails(c, s)
    BY <2>1, <2>3 DEF DeleteExpiredFails
  <2>4. CASE MarkExpired(c, s)
    BY <2>1, <2>4 DEF MarkExpired
  <2>5. CASE AbortStale(c, s)
    <3>1. \A d \in Cleaners : Sweeping(d, t)' => Sweeping(d, t)
      BY <2>5 DEF AbortStale
    <3>2. Sweeping(c, s)
      BY <2>5 DEF AbortStale
    <3>3. UNCHANGED <<session, file, content, age, emails, answered>>
      BY <2>5 DEF AbortStale
    <3>4. s = t \/ object'[t] = object[t]
      BY <2>5 DEF AbortStale, AbortSessionStorage
    <3>5. s = t => \A p \in Procs : ~Completing(p, t)
      BY <3>2 DEF Conflict
    <3> HIDE DEF Sweeping, Stand, NextRow, UpdateRow, AfterDelete
    <3> QED BY <2>1, <3>1, <3>2, <3>3, <3>4, <3>5 DEF CompletingSteps
  <2>6. CASE MarkStale(c, s)
    <3>1. s \in cleaner[c].todo
      BY <2>6 DEF MarkStale, Grounded, RunKnows
    <3>2. CASE s = t
      <4>1. Sweeping(c, t)
        BY <2>6, <3>1, <3>2 DEF MarkStale
      <4>2. /\ session[t] # "COMPLETED" /\ file[t] # "READY"
            /\ ~answered[t] /\ emails[t] = 0
            /\ \A p \in Procs : ~Completing(p, t) /\ ~(handler[p].at = "email" /\ On(p, t))
        BY <4>1 DEF Conflict
      <4>3. /\ session'[t] = "ABORTED" /\ file'[t] # "READY"
            /\ UNCHANGED <<emails, answered, handler>>
        BY <2>1, <2>6, <4>2, <3>2 DEF MarkStale
      <4>4. \A d \in Cleaners : Sweeping(d, t)' => session'[t] # "COMPLETED"
        BY <4>3
      <4> HIDE DEF Sweeping, Stand, NextRow, UpdateRow, AfterDelete, CleanupTypeOK,
                   CleanerType
      <4> QED BY <4>2, <4>3, <4>4 DEF CompletingSteps, ACTIVE_STATUSES
    <3>3. CASE s # t
      BY <2>1, <2>6, <3>3 DEF MarkStale
    <3> QED BY <3>2, <3>3
  <2> QED BY <1>3, <2>2, <2>3, <2>4, <2>5, <2>6 DEF WalkOf
<1>4. ASSUME NEW c \in Cleaners, EndRun(c) \/ RunFails(c)
      PROVE  Undisturbed(t)'
  BY <1>4 DEF EndRun, RunFails, CleanerIdle
<1> HIDE DEF CleanupTypeOK, CleanerType, UploadTypeOK, Undisturbed, On, Completing,
        Aborting, Sweeping, Active, Stand, NextRow, UpdateRow, AfterDelete, rows,
        storage, effects, uploadVars, FileExpired
<1> QED BY <1>1, <1>2, <1>3, <1>4 DEF CleanupNext, FetchOf

LEMMA IInvInit == SystemInit => IInv
<1> SUFFICES ASSUME SystemInit PROVE IInv
  OBVIOUS
<1>1. TypeOK /\ Grounded
  BY SteadyInit DEF Steady
<1>2. ASSUME NEW s \in Sessions PROVE Undisturbed(s)
  BY SessionsAssumption
     DEF SystemInit, InitCleanup, Init, Undisturbed, Conflict, Completing, Aborting,
         Sweeping, CompletingSteps, AbortingSteps, On, Idle, CleanerIdle
<1> QED BY <1>1, <1>2 DEF IInv

LEMMA IInvStep == IInv /\ [Next]_vars => IInv'
<1> SUFFICES ASSUME IInv, [Next]_vars PROVE IInv'
  OBVIOUS
<1>1. TypeOK /\ CleanupTypeOK /\ Grounded /\ raced \in [Sessions -> BOOLEAN]
  BY DEF IInv, TypeOK
<1>2. TypeOK' /\ Grounded'
  BY <1>1, SteadyStep DEF Steady
<1>3. ASSUME NEW t \in Sessions PROVE raced'[t] \/ Undisturbed(t)'
  <2>1. CASE Next
    <3> SUFFICES ASSUME ~raced'[t] PROVE Undisturbed(t)'
      OBVIOUS
    <3>1. ~raced[t] /\ ~Conflict(t)' /\ ~Reopened(t)
      BY <1>1, <2>1, UnracedStep DEF Next
    <3>2. Undisturbed(t)
      BY <3>1 DEF IInv
    <3>3. Monotone
      BY <1>1, <2>1, StepMonotone DEF Next
    <3>4. CASE UploadNext /\ UNCHANGED cleaner
      BY <1>1, <3>1, <3>2, <3>3, <3>4, RequestsKeepUndisturbed
    <3>5. CASE CleanupNext
      BY <1>1, <3>1, <3>2, <3>3, <3>5, CleanupKeepsUndisturbed
    <3> QED BY <2>1, <3>4, <3>5 DEF Next
  <2>2. CASE UNCHANGED vars
    BY <2>2
       DEF IInv, vars, cleanupVars, uploadVars, Undisturbed, Conflict, Completing,
           Aborting, Sweeping, On, Active, FileExpired
  <2> QED BY <2>1, <2>2
<1> QED BY <1>2, <1>3 DEF IInv

\* Short of a race, a live file has its object (a multipart file always does),
\* what complete() answered stays true until the time to live, and one upload
\* sends one e-mail.
THEOREM UploadsKeepTheirPromises ==
    Spec => [](LiveFileHasObject /\ AnsweredFileStaysLive /\ OneEmailPerUpload)
<1>1. IInv => LiveFileHasObject
  BY DEF IInv, Grounded, RowsAgree, Undisturbed, LiveFileHasObject, Live
<1>2. IInv => AnsweredFileStaysLive
  <2> SUFFICES ASSUME IInv, NEW s \in Sessions, answered[s], ~raced[s], ~FileExpired(s)
               PROVE  Live(s) /\ object[s]
    BY DEF AnsweredFileStaysLive
  <2>1. Undisturbed(s)
    BY DEF IInv
  <2>2. session[s] = "COMPLETED"
    BY <2>1 DEF Undisturbed
  <2>3. file[s] = "READY"
    BY <2>2 DEF IInv, Grounded, RowsAgree
  <2> QED BY <1>1, <2>3 DEF Live, LiveFileHasObject
<1>3. IInv => OneEmailPerUpload
  BY DEF IInv, Undisturbed, OneEmailPerUpload
<1> QED BY <1>1, <1>2, <1>3, IInvInit, IInvStep, PTL DEF Spec

\* In particular what complete() answered stays true until the file's time to live ...
THEOREM AnsweredFilesStayLive == Spec => []AnsweredFileStaysLive
BY UploadsKeepTheirPromises, PTL

\* ... and queues one e-mail job.
THEOREM UploadsMailOnce == Spec => []OneEmailPerUpload
BY UploadsKeepTheirPromises, PTL

\* The handlers that overwrite the status of a COMPLETED session are exactly the
\* ones that raced: a step of any other handler leaves it COMPLETED.
LEMMA CompletedStep ==
    ASSUME IInv, Next, NEW t \in Sessions, session[t] = "COMPLETED", ~raced'[t]
    PROVE  session'[t] = "COMPLETED"
<1>1. ~Reopened(t) /\ Undisturbed(t)
  BY UnracedStep DEF Next, IInv, TypeOK
<1>2. Grounded /\ UploadTypeOK
  BY DEF IInv, TypeOK, CleanupTypeOK
<1>3. ASSUME NEW p \in Procs, NEW s \in Sessions, Handle(p, s)
      PROVE  session'[t] = "COMPLETED"
  <2> USE <1>1, <1>2 DEF UploadTypeOK, rows
  <2>1. CASE Initiate(p, s)
    BY <2>1 DEF Initiate, CreateMultipartUpload, CreateRows
  <2>2. CASE Upload(p, s)
    BY <2>2 DEF Upload, GetPartUrls, MarkUploading, SignUrl, Reopened, Active,
                ACTIVE_STATUSES
  <2>3. CASE CompleteUpload(p, s)
    <3>1. CASE FailSession(p, s)
      BY <3>1 DEF FailSession, At, On, Undisturbed, Completing, CompletingSteps, Active,
                  ACTIVE_STATUSES
    <3>2. CASE ~FailSession(p, s)
      BY <2>3, <3>2 DEF CompleteUpload, Complete, Verify, Assemble, CheckMagicBytes,
                        DiscardForeign, Commit, QueueEmail
    <3> QED BY <3>1, <3>2
  <2>4. CASE AbortUpload(p, s)
    BY <2>4 DEF AbortUpload, Abort, AbortStorage, AbortRows, At, On, Undisturbed,
                Aborting, AbortingSteps
  <2>5. CASE Download(p, s)
    BY <2>5 DEF Download, GetDownload, LazyExpire
  <2> QED BY <1>3, <2>1, <2>2, <2>3, <2>4, <2>5 DEF Handle
<1>4. CASE UploadNext
  BY <1>3, <1>4 DEF UploadNext, PutPart, Abandon, Tick, rows
<1>5. CASE CleanupNext
  <2>1. ASSUME NEW c \in Cleaners, NEW s \in Sessions, WalkOf(c, s)
        PROVE  session'[t] = "COMPLETED"
    <3>1. CASE MarkStale(c, s)
      <4>1. Sweeping(c, s)
        BY <1>2, <3>1 DEF MarkStale, Grounded, RunKnows, Sweeping
      <4> QED BY <1>1, <1>2, <3>1, <4>1 DEF MarkStale, Undisturbed, UploadTypeOK
    <3>2. CASE ~MarkStale(c, s)
      BY <2>1, <3>2 DEF WalkOf, DeleteExpired, DeleteExpiredFails, MarkExpired,
                        AbortStale, uploadVars, rows
    <3> QED BY <3>1, <3>2
  <2> QED BY <1>5, <2>1 DEF CleanupNext, FetchOf, FetchExpired, FetchStale, EndRun,
                            RunFails, uploadVars
<1> QED BY <1>4, <1>5 DEF Next

\* Short of a race, COMPLETED is final.
THEOREM CompletedStaysCompleted == Spec => CompletedIsFinal
<1>1. ASSUME IInv, [Next]_vars
      PROVE  [\A s \in Sessions : session[s] = "COMPLETED" /\ ~raced'[s]
                 => session'[s] = "COMPLETED"]_vars
  BY <1>1, CompletedStep
<1> QED BY <1>1, IInvInit, IInvStep, PTL DEF Spec, CompletedIsFinal

-----------------------------------------------------------------------------
(* UploadSystem implements FileLifecycle *)

\* A session's age starts with its rows.
Unborn == \A s \in Sessions : session[s] = "none" => age[s] = 0

LEMMA UnbornInit == SystemInit => Unborn
BY DEF SystemInit, InitCleanup, Init, Unborn

LEMMA AgeOnlyTicks == Next => Tick \/ UNCHANGED age
<1>1. ASSUME NEW p \in Procs, NEW s \in Sessions, Handle(p, s) PROVE UNCHANGED age
  BY <1>1 DEF Handle, Initiate, CreateMultipartUpload, CreateRows, Upload, GetPartUrls,
              MarkUploading, SignUrl, CompleteUpload, Complete, Verify, Assemble,
              CheckMagicBytes, DiscardForeign, FailSession, Commit, QueueEmail,
              AbortUpload, Abort, AbortStorage, AbortRows, Download, GetDownload,
              LazyExpire
<1>2. UploadNext => Tick \/ UNCHANGED age
  BY <1>1 DEF UploadNext, PutPart, Abandon
<1>3. CleanupNext => UNCHANGED age
  BY DEF CleanupNext, FetchOf, FetchExpired, FetchStale, WalkOf, DeleteExpired,
         DeleteExpiredFails, MarkExpired, AbortStale, MarkStale, EndRun, RunFails,
         uploadVars
<1> QED BY <1>2, <1>3 DEF Next

LEMMA UnbornStep ==
    ASSUME TypeOK, Grounded, Unborn, Next
    PROVE  Unborn'
<1>1. Monotone
  BY StepMonotone DEF TypeOK, Next
<1>2. ASSUME NEW s \in Sessions, session'[s] = "none"
      PROVE  session[s] = "none"
  BY <1>1, <1>2 DEF Monotone, Exists
<1>3. CASE UNCHANGED age
  BY <1>2, <1>3 DEF Unborn
<1>4. CASE Tick
  BY <1>2, <1>4 DEF Tick, Unborn, Exists
<1> QED BY <1>3, <1>4, AgeOnlyTicks

\* A row that no step created yet appears as PENDING.
LEMMA BornPending ==
    ASSUME TypeOK, Grounded, Next, NEW t \in Sessions, file[t] = "none"
    PROVE  file'[t] \in {"none", "PENDING"}
<1> USE DEF TypeOK, CleanupTypeOK, UploadTypeOK, rows
<1>1. ~Exists(t)
  BY DEF Grounded, RowsAgree, Exists
<1>2. ASSUME NEW p \in Procs, NEW s \in Sessions, Handle(p, s)
      PROVE  file'[t] \in {"none", "PENDING"}
  <2>1. CASE Initiate(p, s)
    BY <2>1 DEF Initiate, CreateMultipartUpload, CreateRows
  <2>2. CASE Upload(p, s)
    BY <2>2 DEF Upload, GetPartUrls, MarkUploading, SignUrl
  <2>3. CASE CompleteUpload(p, s)
    BY <1>1, <2>3 DEF CompleteUpload, Complete, Verify, Assemble, CheckMagicBytes,
                 DiscardForeign, FailSession, Commit, QueueEmail, Grounded, RequestKnows,
                 On, At, AtStep, Steps
  <2>4. CASE AbortUpload(p, s)
    BY <1>1, <2>4 DEF AbortUpload, Abort, AbortStorage, AbortRows, Grounded, RequestKnows,
                 On, At, AtStep, Steps
  <2>5. CASE Download(p, s)
    BY <1>1, <2>5 DEF Download, GetDownload, LazyExpire, Grounded, RequestKnows, On, At,
                 AtStep, Steps
  <2> QED BY <1>2, <2>1, <2>2, <2>3, <2>4, <2>5 DEF Handle
<1>3. CASE UploadNext
  BY <1>2, <1>3 DEF UploadNext, PutPart, Abandon, Tick
<1>4. ASSUME NEW c \in Cleaners, NEW s \in Sessions, WalkOf(c, s)
      PROVE  file'[t] \in {"none", "PENDING"}
  BY <1>1, <1>4 DEF WalkOf, DeleteExpired, DeleteExpiredFails, MarkExpired, AbortStale,
                    MarkStale, uploadVars, Grounded, RunKnows
<1>5. CASE CleanupNext
  BY <1>4, <1>5 DEF CleanupNext, FetchOf, FetchExpired, FetchStale, EndRun, RunFails,
                    uploadVars
<1> QED BY <1>3, <1>5 DEF Next

\* Only a commit leaves FAILED for READY, and a session that is not raced has no
\* completion in flight once it failed.
LEMMA FailedStep ==
    ASSUME TypeOK, Grounded, Next, NEW t \in Sessions, Undisturbed(t), file[t] = "FAILED"
    PROVE  file'[t] \in {"FAILED", "EXPIRED"}
<1> USE DEF TypeOK, CleanupTypeOK, UploadTypeOK, rows
<1>1. ~Active(t) /\ Exists(t)
  BY DEF Undisturbed, Grounded, RowsAgree, Exists
<1>2. ASSUME NEW p \in Procs, NEW s \in Sessions, Handle(p, s)
      PROVE  file'[t] \in {"FAILED", "EXPIRED"}
  <2>1. CASE Initiate(p, s)
    BY <1>1, <2>1 DEF Initiate, CreateMultipartUpload, CreateRows, Exists
  <2>2. CASE Upload(p, s)
    BY <2>2 DEF Upload, GetPartUrls, MarkUploading, SignUrl
  <2>3. CASE Commit(p, s)
    BY <1>1, <2>3 DEF Commit, At, On, Undisturbed, Completing, CompletingSteps
  <2>4. CASE CompleteUpload(p, s) /\ ~Commit(p, s)
    BY <2>4 DEF CompleteUpload, Complete, Verify, Assemble, CheckMagicBytes,
                DiscardForeign, FailSession, QueueEmail
  <2>5. CASE AbortUpload(p, s)
    BY <2>5 DEF AbortUpload, Abort, AbortStorage, AbortRows
  <2>6. CASE Download(p, s)
    BY <2>6 DEF Download, GetDownload, LazyExpire
  <2> QED BY <1>2, <2>1, <2>2, <2>3, <2>4, <2>5, <2>6 DEF Handle
<1>3. CASE UploadNext
  BY <1>2, <1>3 DEF UploadNext, PutPart, Abandon, Tick
<1>4. ASSUME NEW c \in Cleaners, NEW s \in Sessions, WalkOf(c, s)
      PROVE  file'[t] \in {"FAILED", "EXPIRED"}
  BY <1>4 DEF WalkOf, DeleteExpired, DeleteExpiredFails, MarkExpired, AbortStale,
              MarkStale, uploadVars
<1>5. CASE CleanupNext
  BY <1>4, <1>5 DEF CleanupNext, FetchOf, FetchExpired, FetchStale, EndRun, RunFails,
                    uploadVars
<1> QED BY <1>3, <1>5 DEF Next

\* A step moves every file along the life the abstract specification allows.
LEMMA StageStep ==
    ASSUME IInv, Unborn, Next, IInv', Unborn', NEW t \in Sessions
    PROVE  Lifecycle!MayMove(Stage(t), Stage(t)')
<1> USE DEF Lifecycle!MayMove, Lifecycle!Moves
<1>1. TypeOK /\ Grounded /\ CleanupTypeOK /\ UploadTypeOK /\ Grounded' /\ TypeOK'
  BY DEF IInv, TypeOK, CleanupTypeOK
<1>2. Monotone
  BY <1>1, StepMonotone DEF Next
<1>3. file[t] \in FileStatus \cup {"none"} /\ file'[t] \in FileStatus \cup {"none"}
  BY <1>1 DEF TypeOK, CleanupTypeOK, UploadTypeOK
<1>4. CASE raced'[t]
  BY <1>4 DEF Stage
<1>5. CASE ~raced'[t]
  <2>1. ~raced[t] /\ ~Reopened(t) /\ Undisturbed(t)
    BY <1>1, <1>5, UnracedStep DEF Next, IInv, TypeOK
  <2>2. Undisturbed(t)'
    BY <1>5 DEF IInv
  <2>3. file[t] = "none" <=> session[t] = "none"
    BY <1>1 DEF Grounded, RowsAgree
  <2>4. file'[t] = "none" <=> session'[t] = "none"
    BY <1>1 DEF Grounded, RowsAgree
  <2>5. file[t] # "none" => file'[t] # "none"
    BY <1>2, <2>3, <2>4 DEF Monotone, Exists
  <2>6. CASE file[t] = "none"
    <3>1. file'[t] \in {"none", "PENDING"}
      BY <1>1, <2>6, BornPending
    <3>2. file'[t] = "PENDING" => ~FileExpired(t)'
      <4>1. age[t] = 0
        BY <2>3, <2>6 DEF Unborn
      <4>2. age'[t] = 0
        <5>1. UNCHANGED age \/ Tick
          BY AgeOnlyTicks
        <5>2. CASE Tick
          BY <2>3, <2>6, <4>1, <5>2, <1>1 DEF Tick, Exists, UploadTypeOK
        <5> QED BY <4>1, <5>1, <5>2
      <4> QED BY <4>2, TtlAssumption DEF FileExpired
    <3> QED BY <1>5, <2>1, <2>6, <3>1, <3>2 DEF Stage, Outlived
  <2>7. CASE file[t] # "none" /\ Outlived(t)
    <3>1. FileExpired(t)
      BY <1>1, <2>7 DEF Outlived, Grounded, RowsAgree
    <3>2. Outlived(t)'
      BY <1>2, <3>1 DEF Monotone, Outlived
    <3> QED BY <1>5, <2>1, <2>5, <2>7, <3>2 DEF Stage
  <2>8. CASE file[t] = "READY" /\ ~Outlived(t)
    <3>1. object[t]
      BY <1>1, <2>1, <2>8 DEF Undisturbed, Outlived, Grounded, RowsAgree
    <3>2. session'[t] = "COMPLETED"
      BY <1>5, <2>1, <2>8, CompletedStep DEF Undisturbed
    <3>3. file'[t] \in {"READY", "EXPIRED"}
      BY <1>1, <3>2 DEF Grounded, RowsAgree
    <3>4. file'[t] = "READY" => object'[t] \/ FileExpired(t)'
      BY <1>1, <2>2 DEF Undisturbed, Grounded, RowsAgree
    <3> QED BY <1>5, <2>1, <2>8, <3>1, <3>3, <3>4 DEF Stage, Outlived
  <2>9. CASE file[t] = "FAILED" /\ ~Outlived(t)
    <3>1. file'[t] \in {"FAILED", "EXPIRED"}
      BY <1>1, <2>1, <2>9, FailedStep
    <3> QED BY <1>5, <2>1, <2>9, <3>1 DEF Stage, Outlived
  <2>10. CASE file[t] = "PENDING" /\ ~Outlived(t)
    <3>1. file'[t] = "READY" => object'[t] \/ FileExpired(t)'
      BY <1>1, <2>2 DEF Undisturbed, Grounded, RowsAgree
    <3> QED BY <1>3, <1>5, <2>1, <2>5, <2>10, <3>1 DEF Stage, Outlived, FileStatus
  <2>11. file[t] = "EXPIRED" => Outlived(t)
    BY DEF Outlived
  <2> QED BY <1>3, <2>6, <2>7, <2>8, <2>9, <2>10, <2>11 DEF FileStatus
<1> QED BY <1>4, <1>5

\* Whatever overlaps, crashes or fails: a file is published at most once, only
\* while pending, with its object behind it until its time to live is over, and
\* a file that failed or expired never comes back; short of the races the
\* history variable names.
THEOREM UploadsImplementLifecycle == Spec => ImplementsLifecycle
<1>1. SystemInit => Lifecycle!Init /\ IInv /\ Unborn
  BY IInvInit, UnbornInit
     DEF SystemInit, InitCleanup, Init, Stage, Lifecycle!Init
<1>2. ASSUME IInv, Unborn, [Next]_vars
      PROVE  Unborn'
  <2>1. CASE Next
    BY <1>2, <2>1, UnbornStep DEF IInv
  <2>2. CASE UNCHANGED vars
    BY <1>2, <2>2 DEF vars, cleanupVars, uploadVars, Unborn
  <2> QED BY <1>2, <2>1, <2>2
<1>3. ASSUME IInv, Unborn, Next, IInv', Unborn'
      PROVE  Lifecycle!Next
  <2>1. ASSUME NEW t \in Sessions
        PROVE  Stage(t)' \in Lifecycle!Stages
    <3>1. file'[t] = "READY" /\ ~raced'[t] /\ ~Outlived(t)' => object'[t]
      BY <1>3 DEF IInv, Undisturbed, Outlived, Grounded, RowsAgree
    <3> QED BY <3>1 DEF Stage, Lifecycle!Stages
  <2>2. ASSUME NEW t \in Sessions
        PROVE  Lifecycle!MayMove(Stage(t), Stage(t)')
    BY <1>3, StageStep
  <2> QED BY <2>1, <2>2 DEF Lifecycle!Next
<1>4. ASSUME UNCHANGED vars
      PROVE  UNCHANGED [s \in Sessions |-> Stage(s)]
  BY <1>4 DEF vars, cleanupVars, uploadVars, Stage, Outlived, FileExpired
<1>5. ASSUME IInv, Unborn, [Next]_vars, IInv', Unborn'
      PROVE  [Lifecycle!Next]_([s \in Sessions |-> Stage(s)])
  BY <1>3, <1>4, <1>5
<1> QED
  BY <1>1, <1>2, <1>5, IInvStep, PTL DEF Spec, ImplementsLifecycle, Lifecycle!Spec
=============================================================================

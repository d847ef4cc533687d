--------------------------- MODULE UploadsService ---------------------------
(***************************************************************************)
(* Direct-to-storage uploads: apps/api/src/files/uploads.service.ts.       *)
(*                                                                         *)
(* One session is one pair of rows (UploadSession, StoredFile) and one     *)
(* storage key.  A handler of the API runs in pieces separated by its      *)
(* awaits: each action below is the code between two awaits, and a handler *)
(* acts on the session row it read when it started (authorizeSession), not *)
(* on the row as it is when it writes.  Requests of one session interleave *)
(* freely: nothing in the API serialises them.                             *)
(*                                                                         *)
(* Abstractions.  The bytes of a file are one value per session, fixed     *)
(* when the session is created ("valid": the declared size and the magic   *)
(* bytes of the declared kind; "foreign": the declared size only; "short": *)
(* not the declared size).  Time is an age per session in coarse ticks.    *)
(* Rate limits, the session token and formatting change no state here.     *)
(***************************************************************************)
EXTENDS Integers, FiniteSets

CONSTANTS
    Sessions,      \* upload sessions that may be initiated (fresh UUIDs)
    NoSession,     \* the "session" of an idle request slot
    TotalParts,    \* TotalParts[s]: number of parts; multipart iff > 1
    Emailed,       \* sessions initiated with sendEmail
    Procs,         \* request slots of the API: handlers that can be in flight
    SessionTtl,    \* SESSION_TTL_MS, in ticks
    FileTtl,       \* FILE_TTL_DAYS, in ticks
    UrlTtl         \* PART_URL_EXPIRY_SEC, in ticks

ASSUME SessionsAssumption == NoSession \notin Sessions
ASSUME PartsAssumption == TotalParts \in [Sessions -> Nat \ {0}]
ASSUME EmailedAssumption == Emailed \subseteq Sessions
ASSUME TtlAssumption ==
    /\ SessionTtl \in Nat \ {0}
    /\ FileTtl \in Nat \ {0}
    /\ UrlTtl \in Nat \ {0}

VARIABLES
    session,   \* UploadSession.status, "none" before the row exists
    file,      \* StoredFile.status, "none" before the row exists
    content,   \* what the client's bytes are, against what it declared
    age,       \* ticks since both rows were created, saturating at MaxAge
    upload,    \* state of the S3 multipart upload
    parts,     \* part numbers stored by S3 in that upload
    object,    \* whether an object exists under the storage key
    urlTtl,    \* remaining life of each presigned PUT <<session, part>>, 0 if none
    handler,   \* the request each slot is running, and where it stands
    emails,    \* send-file-email jobs queued
    answered,  \* whether a complete() of the session has been answered
    unaborted  \* history: sessions whose open upload the storage would not abort

rows    == <<session, file, content>>
storage == <<upload, parts, object>>
effects == <<emails, answered, unaborted>>
uploadVars == <<session, file, content, age, upload, parts, object, urlTtl,
                handler, emails, answered, unaborted>>

-----------------------------------------------------------------------------
(* Vocabulary *)

Multipart(s) == TotalParts[s] > 1
PartsOf(s)   == 1 .. TotalParts[s]
Urls         == UNION {{s} \X PartsOf(s) : s \in Sessions}

SessionStatus == {"PENDING", "UPLOADING", "COMPLETED", "FAILED", "ABORTED"}
FileStatus    == {"PENDING", "READY", "FAILED", "EXPIRED"}
Contents      == {"valid", "foreign", "short"}
ACTIVE_STATUSES == {"PENDING", "UPLOADING"}

Active(s) == session[s] \in ACTIVE_STATUSES

\* Ages beyond both time-to-lives are indistinguishable: age saturates there.
MaxAge == SessionTtl + FileTtl

SessionExpired(s) == age[s] > SessionTtl
FileExpired(s)    == age[s] > FileTtl

Steps == {"idle", "createRows", "markUploading", "signUrl", "verify",
          "assemble", "magic", "discard", "fail", "commit", "email",
          "abortStorage", "abortRows", "lazyExpire"}

HandlerType ==
    [at : Steps, on : Sessions \cup {NoSession}, part : Nat]

UploadTypeOK ==
    /\ session \in [Sessions -> SessionStatus \cup {"none"}]
    /\ file \in [Sessions -> FileStatus \cup {"none"}]
    /\ content \in [Sessions -> Contents]
    /\ age \in [Sessions -> Nat]
    /\ upload \in [Sessions -> {"none", "open", "done", "aborted"}]
    /\ parts \in [Sessions -> SUBSET Nat]
    /\ object \in [Sessions -> BOOLEAN]
    /\ urlTtl \in [Urls -> Nat]
    /\ handler \in [Procs -> HandlerType]
    /\ emails \in [Sessions -> Nat]
    /\ answered \in [Sessions -> BOOLEAN]
    /\ unaborted \subseteq Sessions

\* Where a complete() stands before it has committed or given up.
CompletingSteps == {"verify", "assemble", "magic", "discard", "fail", "commit"}
AbortingSteps   == {"abortStorage", "abortRows"}

Idle == [at |-> "idle", on |-> NoSession, part |-> 0]
Request(step, s, n) == [at |-> step, on |-> s, part |-> n]

At(p, step, s) == handler[p].at = step /\ handler[p].on = s
Begin(p, step, s, n) ==
    /\ handler[p] = Idle
    /\ handler' = [handler EXCEPT ![p] = Request(step, s, n)]
Goto(p, step) ==
    handler' = [handler EXCEPT ![p] = Request(step, @.on, @.part)]
End(p)        == handler' = [handler EXCEPT ![p] = Idle]

Init ==
    /\ session  = [s \in Sessions |-> "none"]
    /\ file     = [s \in Sessions |-> "none"]
    /\ content  = [s \in Sessions |-> "valid"]
    /\ age      = [s \in Sessions |-> 0]
    /\ upload   = [s \in Sessions |-> "none"]
    /\ parts    = [s \in Sessions |-> {}]
    /\ object   = [s \in Sessions |-> FALSE]
    /\ urlTtl   = [u \in Urls |-> 0]
    /\ handler  = [p \in Procs |-> Idle]
    /\ emails   = [s \in Sessions |-> 0]
    /\ answered = [s \in Sessions |-> FALSE]
    /\ unaborted = {}

-----------------------------------------------------------------------------
(* POST initiate *)

\* The multipart upload exists in S3 before any row does.
CreateMultipartUpload(p, s) ==
    /\ Multipart(s) /\ upload[s] = "none"
    /\ Begin(p, "createRows", s, 0)
    /\ upload' = [upload EXCEPT ![s] = "open"]
    /\ UNCHANGED <<rows, age, parts, object, urlTtl, effects>>

\* The transaction creating both rows.  A single upload awaits nothing else.
CreateRows(p, s, c) ==
    /\ session[s] = "none"
    /\ IF Multipart(s) THEN At(p, "createRows", s) ELSE handler[p] = Idle
    /\ session' = [session EXCEPT ![s] = "PENDING"]
    /\ file' = [file EXCEPT ![s] = "PENDING"]
    /\ content' = [content EXCEPT ![s] = c]
    /\ End(p)
    /\ UNCHANGED <<age, storage, urlTtl, effects>>

-----------------------------------------------------------------------------
(* authorizeSession *)

Exists(s) == session[s] # "none"
\* Mutant of Authorized: the status check is left out.
AuthorizedUnlessExpired(s) == Exists(s) /\ ~SessionExpired(s)

Authorized(s) == Active(s) /\ ~SessionExpired(s)

-----------------------------------------------------------------------------
(* POST part-urls, and the PUT the client makes with the URL *)

\* The status read here decides, later, whether the row is written.
GetPartUrls(p, s, n) ==
    /\ Authorized(s)
    /\ n \in PartsOf(s)
    /\ Begin(p, IF session[s] = "PENDING" THEN "markUploading" ELSE "signUrl",
             s, n)
    /\ UNCHANGED <<rows, age, storage, urlTtl, effects>>

\* An unconditional update: it does not look at the row again.
MarkUploading(p, s) ==
    /\ At(p, "markUploading", s)
    /\ session' = [session EXCEPT ![s] = "UPLOADING"]
    /\ Goto(p, "signUrl")
    /\ UNCHANGED <<file, content, age, storage, urlTtl, effects>>

SignUrl(p, s) ==
    /\ At(p, "signUrl", s)
    /\ urlTtl' = [urlTtl EXCEPT ![<<s, handler[p].part>>] = UrlTtl]
    /\ End(p)
    /\ UNCHANGED <<rows, age, storage, effects>>

\* The browser's XHR to S3.  A URL stays good until it expires, whatever
\* happens to the session; S3 refuses a part once the upload is not open.
PutPart(s, n) ==
    /\ urlTtl[<<s, n>>] > 0
    /\ IF Multipart(s)
       THEN /\ upload[s] = "open" /\ n \notin parts[s]
            /\ parts' = [parts EXCEPT ![s] = @ \cup {n}]
            /\ UNCHANGED object
       ELSE /\ ~object[s]
            /\ object' = [object EXCEPT ![s] = TRUE]
            /\ UNCHANGED parts
    /\ UNCHANGED <<rows, age, upload, urlTtl, handler, effects>>

-----------------------------------------------------------------------------
(* POST complete *)

Complete(p, s) ==
    /\ Authorized(s)
    /\ Begin(p, "verify", s, 0)
    /\ UNCHANGED <<rows, age, storage, urlTtl, effects>>

\* completeMultipart: ListParts, then count and total size.
PartsVerified(s) ==
    /\ upload[s] = "open"
    /\ parts[s] = PartsOf(s)
    /\ content[s] # "short"

\* verifySingleUpload: HeadObject, then the size.
ObjectVerified(s) == object[s] /\ content[s] # "short"

\* A failed check ends the request with UPLOAD_INCOMPLETE, a missing upload
\* with the storage error; neither writes anything.
Verify(p, s) ==
    /\ At(p, "verify", s)
    /\ \/ Multipart(s) /\ PartsVerified(s) /\ Goto(p, "assemble")
       \/ ~Multipart(s) /\ ObjectVerified(s) /\ Goto(p, "magic")
       \/ Multipart(s) /\ ~PartsVerified(s) /\ End(p)
       \/ ~Multipart(s) /\ ~ObjectVerified(s) /\ End(p)
    /\ UNCHANGED <<rows, age, storage, urlTtl, effects>>

\* CompleteMultipartUpload.  If the upload is gone S3 refuses; if another
\* request has just completed it, S3 may also answer with the same success.
Assemble(p, s) ==
    /\ At(p, "assemble", s)
    /\ \/ /\ upload[s] = "open"
          /\ upload' = [upload EXCEPT ![s] = "done"]
          /\ object' = [object EXCEPT ![s] = TRUE]
          /\ Goto(p, "magic")
       \/ /\ upload[s] = "done"
          /\ Goto(p, "magic")
          /\ UNCHANGED <<upload, object>>
       \/ /\ upload[s] # "open"
          /\ End(p)
          /\ UNCHANGED <<upload, object>>
    /\ UNCHANGED <<rows, age, parts, urlTtl, effects>>

\* Mutant of CheckMagicBytes: only the read is checked, not the bytes.
CheckReadableOnly(p, s) ==
    /\ At(p, "magic", s)
    /\ \/ Goto(p, "fail")
       \/ object[s] /\ Goto(p, "commit")
    /\ UNCHANGED <<rows, age, storage, urlTtl, effects>>

\* validateMagicBytes: the ranged read may fail even if the object is there.
CheckMagicBytes(p, s) ==
    /\ At(p, "magic", s)
    /\ \/ Goto(p, "fail")
       \/ object[s] /\ content[s] = "valid" /\ Goto(p, "commit")
       \/ object[s] /\ content[s] # "valid" /\ Goto(p, "discard")
    /\ UNCHANGED <<rows, age, storage, urlTtl, effects>>

\* Best effort: a failed delete is swallowed.
DiscardForeign(p, s) ==
    /\ At(p, "discard", s)
    /\ \/ object' = [object EXCEPT ![s] = FALSE]
       \/ UNCHANGED object
    /\ Goto(p, "fail")
    /\ UNCHANGED <<rows, age, upload, parts, urlTtl, effects>>

\* failSession.  Its own failure is swallowed too: that is Abandon.
FailSession(p, s) ==
    /\ At(p, "fail", s)
    /\ session' = [session EXCEPT ![s] = "FAILED"]
    /\ file' = [file EXCEPT ![s] = "FAILED"]
    /\ End(p)
    /\ UNCHANGED <<content, age, storage, urlTtl, effects>>

\* The transaction of complete(): unconditional, by id.
Commit(p, s) ==
    /\ At(p, "commit", s)
    /\ session' = [session EXCEPT ![s] = "COMPLETED"]
    /\ file' = [file EXCEPT ![s] = "READY"]
    /\ IF s \in Emailed
       THEN Goto(p, "email") /\ UNCHANGED answered
       ELSE End(p) /\ answered' = [answered EXCEPT ![s] = TRUE]
    /\ UNCHANGED <<content, age, storage, urlTtl, emails, unaborted>>

\* createClaimToken, queue.add and the answer.
QueueEmail(p, s) ==
    /\ At(p, "email", s)
    /\ emails' = [emails EXCEPT ![s] = @ + 1]
    /\ answered' = [answered EXCEPT ![s] = TRUE]
    /\ End(p)
    /\ UNCHANGED <<rows, age, storage, urlTtl, unaborted>>

-----------------------------------------------------------------------------
(* DELETE :id *)

\* Mutant of Abort: the COMPLETED check is left out.
AbortAnySession(p, s) ==
    /\ Exists(s)
    /\ Begin(p, "abortStorage", s, 0)
    /\ UNCHANGED <<rows, age, storage, urlTtl, effects>>

\* requireActive is off, so an expired session can be aborted, and so can one
\* that failed or was aborted before; only COMPLETED is refused, as read here.
Abort(p, s) ==
    /\ Exists(s)
    /\ session[s] # "COMPLETED"
    /\ Begin(p, "abortStorage", s, 0)
    /\ UNCHANGED <<rows, age, storage, urlTtl, effects>>

\* Mutant of AbortSessionStorage: the object is deleted, the multipart upload forgotten.
DeleteObjectOnly(s) ==
    /\ object' \in {object, [object EXCEPT ![s] = FALSE]}
    /\ UNCHANGED <<upload, parts, unaborted>>

\* abortSessionStorage, shared with the cleanup job.  Best effort: a storage
\* error is only logged.
AbortSessionStorage(s) ==
    \/ /\ unaborted' = IF upload[s] = "open" THEN unaborted \cup {s} ELSE unaborted
       /\ UNCHANGED storage
    \/ /\ Multipart(s) /\ upload[s] = "open"
       /\ upload' = [upload EXCEPT ![s] = "aborted"]
       /\ parts' = [parts EXCEPT ![s] = {}]
       /\ UNCHANGED <<object, unaborted>>
    \/ /\ ~Multipart(s) /\ object[s]
       /\ object' = [object EXCEPT ![s] = FALSE]
       /\ UNCHANGED <<upload, parts, unaborted>>

AbortStorage(p, s) ==
    /\ At(p, "abortStorage", s)
    /\ AbortSessionStorage(s)
    /\ Goto(p, "abortRows")
    /\ UNCHANGED <<rows, age, urlTtl, emails, answered>>

\* Mutant of AbortRows: the file is failed, the session is forgotten.
AbortFileOnly(p, s) ==
    /\ At(p, "abortRows", s)
    /\ file' = [file EXCEPT ![s] = "FAILED"]
    /\ End(p)
    /\ UNCHANGED <<session, content, age, storage, urlTtl, effects>>

\* Unconditional again: the COMPLETED check is not repeated.
AbortRows(p, s) ==
    /\ At(p, "abortRows", s)
    /\ session' = [session EXCEPT ![s] = "ABORTED"]
    /\ file' = [file EXCEPT ![s] = "FAILED"]
    /\ End(p)
    /\ UNCHANGED <<content, age, storage, urlTtl, effects>>

-----------------------------------------------------------------------------
(* GET :id/download, files.service.ts: only its lazy expiry writes a status *)

GetDownload(p, s) ==
    /\ file[s] = "READY"
    /\ FileExpired(s)
    /\ Begin(p, "lazyExpire", s, 0)
    /\ UNCHANGED <<rows, age, storage, urlTtl, effects>>

LazyExpire(p, s) ==
    /\ At(p, "lazyExpire", s)
    /\ file' = [file EXCEPT ![s] = "EXPIRED"]
    /\ End(p)
    /\ UNCHANGED <<session, content, age, storage, urlTtl, effects>>

-----------------------------------------------------------------------------
(* Failure and time *)

\* A database or storage call rejects, or the process dies: the request ends
\* where it is and nothing is undone.
Abandon(p) ==
    /\ handler[p] # Idle
    /\ End(p)
    /\ UNCHANGED <<rows, age, storage, urlTtl, effects>>

Later(t)  == IF t < MaxAge THEN t + 1 ELSE t

\* Mutant of Sooner: a URL's life is not floored at zero.
SoonerUnfloored(t) == t - 1
Sooner(t) == IF t > 0 THEN t - 1 ELSE 0

Tick ==
    /\ age' = [s \in Sessions |-> IF Exists(s) THEN Later(age[s]) ELSE age[s]]
    /\ urlTtl' = [u \in Urls |-> Sooner(urlTtl[u])]
    /\ <<age, urlTtl>>' # <<age, urlTtl>>
    /\ UNCHANGED <<rows, storage, handler, effects>>

-----------------------------------------------------------------------------
Initiate(p, s) ==
    CreateMultipartUpload(p, s) \/ \E c \in Contents : CreateRows(p, s, c)

Upload(p, s) ==
    \/ \E n \in PartsOf(s) : GetPartUrls(p, s, n)
    \/ MarkUploading(p, s)
    \/ SignUrl(p, s)

CompleteUpload(p, s) ==
    \/ Complete(p, s)
    \/ Verify(p, s)
    \/ Assemble(p, s)
    \/ CheckMagicBytes(p, s)
    \/ DiscardForeign(p, s)
    \/ FailSession(p, s)
    \/ Commit(p, s)
    \/ QueueEmail(p, s)

AbortUpload(p, s) == Abort(p, s) \/ AbortStorage(p, s) \/ AbortRows(p, s)
Download(p, s)    == GetDownload(p, s) \/ LazyExpire(p, s)

Handle(p, s) ==
    \/ Initiate(p, s)
    \/ Upload(p, s)
    \/ CompleteUpload(p, s)
    \/ AbortUpload(p, s)
    \/ Download(p, s)

UploadNext ==
    \/ \E p \in Procs, s \in Sessions : Handle(p, s)
    \/ \E s \in Sessions : \E n \in PartsOf(s) : PutPart(s, n)
    \/ \E p \in Procs : Abandon(p)
    \/ Tick
=============================================================================

# PDFNexus: specifications, model checking and proofs

TLA+ specifications of PDFNexus (a Next.js web app, a NestJS API, PostgreSQL,
Redis and S3-compatible storage), the TLC configurations that check them on
small instances, and TLAPS proofs of what holds for every instance. Paths below
are those of the repository; the specifications follow the code, not its docs.

Every module of a component says at its top what it abstracts. The common rule:
a handler is cut at its `await`s. What runs between two of them is one action;
what was read before one is kept in the handler's own state and used, as the
code uses it, after it. Any number of handlers stand at their `await`s at once.
In the browser the same rule holds for event handlers, effects and callbacks;
an effect runs in the step that sets the state it depends on, unless a module
says that the time in between matters.

## 1. The system

PDF work happens in the browser. The server stores results, mails links to
them, converts Office files, runs OCR through Gemini and imports from cloud
drives. Parts talk through HTTP, one database, one Redis and one bucket; there
is no lock anywhere, and several API processes may run.

| Component (sources) | State | What is hard | What must hold | Modules |
|---|---|---|---|---|
| **Direct uploads, API** (`files/uploads.service.ts`) | `UploadSession` and `StoredFile` rows; the multipart upload and object in S3; presigned URLs | each handler acts on the row it read before several awaits; calls fail one by one; URLs outlive sessions | a READY file passed its checks and has its object; what was answered stays true; one e-mail; COMPLETED is final; no multipart upload is left open | UploadsService, UploadSystem |
| **Cleanup job** (`files/files.cleanup.service.ts`) | none of its own | walks a batch fetched earlier; a failing delete is swallowed, a failing update ends the run; unordered batch of 100 | every session ends, every expired file is marked and its object reclaimed; nothing live is touched | FilesCleanup, FilesRetention |
| **Downloads** (`files/files.service.ts`) | file status, download count | races the cleanup | an expired file is not served | UploadsService, ClaimLinks |
| **Upload engine, browser** (`features/files/multipartUpload.ts`) | worker pool, queue, completed set, flags | workers, backoff timers, lost answers, Cancel at any await | complete only when all is stored; nothing after Cancel; the promise settles | MultipartClient |
| **Limits in Redis** (`redis/redis.service.ts`), **Conversions** (`conversions/`), **OCR** (`ocr/`) | counters with a time to live | round trips that are not atomic; processes die in between; keys expire; `finish` and `close` both release | the cap, the rate, the budget; leaked counts heal | RedisCounter, ConcurrencySlots, Conversions, OcrRequests |
| **E-mail identity** (`auth/auth-email.service.ts`) | code rows with attempts; claim tokens in Redis | the row is read before bcrypt and written after it; GET then DEL of a one-time token | at most the allowed guesses; a code and a link used once | EmailOtp, ClaimLinks |
| **Mail jobs** (`jobs/`) | BullMQ jobs | a job whose mail went out and whose worker died runs again | the link in any of the mails works once | ClaimLinks |
| **Cloud imports** (`cloud/`, `features/cloud/`) | tokens per cloud session in Redis; the panel's last action, busy flag and error | read, merge, write of one record; an OAuth callback after a disconnect; a file that changes between its metadata and its bytes | a disconnect is final; what crosses is a PDF within the cap; Retry repeats what failed | CloudTokens, CloudFiles |
| **Admin authentication** (`admin/auth/`) | failed attempts, lock, password, sessions, codes | absolute writes of a value read earlier; sessions opened while a password changes | lockout; no session with an old password | AdminLockout, AdminAccount |
| **Staff console** (`app/admin/`, `components/admin/`) | address bar, rows, exports; the provider's user | answers in any order; logouts that fail; sessions that end | rows on display belong to the query; nobody is left at "Redirecting" | AdminTables, ConsoleSession |
| **Admin records** (`common/filters`, `admin/errors`, `admin/users`, `admin/audit`) | error rows by fingerprint, notifications, user status, audit rows | find, then create or count; read, update, record | every error counted; the trail tells the status | AdminRecords |
| **Batch queue, project store** (`features/workspace/BatchQueuePanel.tsx`, `batchQueue.ts`, `projectStore.ts`) | jobs, settings, confirmations, IndexedDB | a loop on its own copy of the queue; retries, reloads, quota | no Bates number twice; nothing runs without its confirmation | BatchQueue |
| **Page list and thumbnails** (`WorkspaceApp.tsx`, `lib/pdf/pdfHelpers.ts`) | pages, files, selection; cache, slots, blob URLs | an upload that finishes during a drag; eviction of a URL on display | no page lost or doubled; no dead picture | PageList, Thumbnails |
| **Transfers and worker runner** (`features/transfer/`, `tools/runInWorker.ts`) | one operation and its dialog; a worker per run | cancel before, during and after; two hosts of one dialog | a cancelled run saves nothing; the dialog tells what runs | TransferDialog, WorkerTask |
| **PDF tools** (`features/tools/`) | picked file, pages, marks, run, download | a file replaced, handed over or cancelled during a run; Retry | the download is of the file and pages it is named after | MarkTools, TableTool, ToolRuns, PagePlans, PageGeometry |
| **Mail rendering, config, logging, health, pages** | none | — | — | not modelled |

Interactions that matter here: the browser engine PUTs straight to S3 with URLs
the API signs, so the API learns of bytes only by asking S3; `complete()`,
`abort()` and the sweep of stale sessions all write the same two rows and delete
or finish the same object; conversions and OCR share the limiter's code but not
its key; `complete()` creates the claim token and queues the e-mail job, whose
link ends in the same `getDownload` the site uses; the workspace hands files to
the tools, and sweeps the caches the thumbnails live in after a batch job.

The hazards, each at the line where it bites, are listed in `PROJECT.json` with
the properties about them.

## 2. Modules

```
UploadsService ── FilesCleanup ─┬─ UploadSystem ─┬─ MCUploadSystem
        (FileLifecycle is what  │                └─ UploadProofs
         UploadSystem implements)│
                                └─ FilesRetention ── MCFilesRetention
MultipartClient ── MCMultipartClient, EngineProofs
RedisCounter ── ConcurrencySlots ─┬─ Conversions ─┬─ SlotProofs, MCSlots
                                  └─ OcrRequests ─┘
BatchQueue, PageList, Thumbnails, WorkerTask, TransferDialog, ┐
MarkTools, TableTool, ToolRuns, PagePlans                     ┴─ MCComponents
AdminLockout, AdminAccount, AdminTables, AdminRecords,        ┐
ConsoleSession, CloudTokens, CloudFiles,                      ├─ MCConsole
EmailOtp, ClaimLinks, PageGeometry                            ┘
EmailOtp, ClaimLinks, AdminLockout, AdminAccount, AdminRecords, CloudTokens ── ServerProofs
ConsoleSession, AdminTables, CloudFiles ── ConsoleProofs
BatchQueue, TransferDialog, ToolRuns, Thumbnails ── BrowserProofs
PageList ── PageProofs
WorkerTask, PagePlans, PageGeometry, TableTool, MarkTools ── ToolProofs
```

### Files

**UploadsService** is `uploads.service.ts`. `session`, `file` are the two status
columns; `upload`, `parts`, `object` what S3 holds; `urlTtl` the life of each
presigned PUT; `handler[p]` the place of a request in flight and its session.
`initiate` is `CreateMultipartUpload`, `CreateRows`; `getPartUrls` is
`GetPartUrls`, `MarkUploading`, `SignUrl`; `complete` is `Complete` (the
status check), `Verify`, `Assemble`, `CheckMagicBytes`, then `Commit`,
`QueueEmail` or `DiscardForeign`, `FailSession`; `abort` is `Abort`,
`AbortStorage`, `AbortRows`; `getDownload` writes only in `LazyExpire`. None of
the writes repeats the check made at the start, because none does in the code.
`unaborted` is a history: sessions whose open upload storage would not abort,
an error `abortSessionStorage` swallows.
`Abandon` ends a request at any of these points: a rejected call or a dead
process. `PutPart` is the client's PUT with any URL still alive.

**FilesCleanup** adds the job: `cleaner[c]` is a run with the batch it fetched
and the row it is at. `DeleteExpired`/`DeleteExpiredFails` then `MarkExpired`
are the loop of `cleanupExpired`; `AbortStale` then `MarkStale` that of
`cleanupStaleUploadSessions`; `RunFails` ends a run anywhere.
`IsBatchOf` is `take: 100` without an order: any subset of that size.

**UploadSystem** puts both on the same rows and states what they promise
together. It adds one history variable, `raced`, described below.
**FileLifecycle** is the abstract specification: a file is absent, pending,
available, failed or expired; it becomes available once, only while pending,
stays so until its time to live is over, and never comes back. `ImplementsLifecycle` is
`UploadSystem`'s refinement mapping onto it; a file whose handlers raced maps to
`disputed`, of which nothing is promised.

**FilesRetention** starts the cleanup on files already stored, several of
them, so that the bounded batch matters.

**MultipartClient** is the engine in the browser. `worker[w]` is the await a
worker stands at, its part and its attempt; `pending`, `failed`, `cancelled`
are the locals of `runWorkers`, `completed` and `aborted` those of
`uploadFileDirect`. The API and S3 are reduced to what this client sees:
`session`, `reported` (the `UploadPart` rows), `stored`, and requests that are
still on their way (`flying`, `requests`) after the client gave them up.

**ClaimLinks** follows one finished file from the claim token through the
BullMQ job to the link: `ReadClaim`, `DeleteClaim`, `ResolveFile`,
`MarkEmailVerified`, `CountDownload` are the awaits of the GET.

### Limits, identity, cloud

**RedisCounter** is a Redis integer key with a time to live; it is external, as
its users use it. **ConcurrencySlots** is the limiter, one action per command.
**Conversions** and **OcrRequests** are the two controllers around it, the
latter with the rate window (`RateIncr`, `RateExpire`), the daily budget
(`Spend`, `Refund`) and the Gemini call, which may go on after its slot was
released (`CloseEarly`, `LateAnswer`).

**EmailOtp** is one address: code rows in the order they were created, guesses
between `StartVerify` (the row as read) and `WrongCode` or `RightCode` (the row
as written).

**CloudTokens** is one browser at one provider: consents, callbacks, refreshes,
revocations and disconnects in any order, with the cookie as each answer leaves
it; a callback arrives with its cookie (`Callback`), has its state consumed and
compared (`CheckState`), and then exchanges its code. **CloudFiles** is the panel over it: listing, import (metadata, then
bytes), export, the Picker, the last action and its Retry.

### Staff

**AdminLockout** is `login()` as far as the lock goes; **AdminAccount** the
password, e-mail and session handlers and the bootstrap at start.
**AdminTables** is one table of the console: filters and page in the address
bar, listings and exports as a count and a read. **AdminRecords** is
`AllExceptionsFilter` with `captureError`, and the user page's status changes
with their audit rows. **ConsoleSession** is `AdminAuthProvider` with the login
page and the shell: `me()`, login and logout land later than they were answered.

### Browser

**BatchQueue**: `queue` is what the panel shows, `loop[l]` a run of `runAll` or
a retry, with its copy; `chores` are Download all and Clear project, which
share `busy` with the loops; `saved` is IndexedDB. **PageList**: the handlers of `WorkspaceApp`,
with what is pending and what was rendered (`pagesRef`). **Thumbnails**: cache,
render slots, blob URLs, and loads (`load`), several of which may be of one page
once a sweep has emptied `inFlight`. **TransferDialog**: the dialog over
`useTransferOperation` with its two hosts. **WorkerTask**: the runs of a tool
that works in a worker, the Retry that may start one beside another included,
and the effect whose failure offers it; they share the flag, the handle of
Cancel and the busy mark. **MarkTools**, **TableTool**, **ToolRuns**: the tool pages; in ToolRuns
a *profile* per tool names what the tool asks and delivers. **PagePlans**: what
the user types, to parts of the document, a token of the text or a part a step;
a number of pages per file need not be whole.
**PageGeometry**: crop margins, box and cut.

### Histories

The code has no lock, so two handlers can undo each other. A property that held
in spite of this would be false; one restricted to "no concurrency" would be
empty. The properties are therefore stated against the exact races, which
history variables record. None of them is read by an action of the program.

| History | Module | Becomes true when |
|---|---|---|
| `raced[s]` | UploadSystem | a `complete()` of s is in flight together with another `complete()`, an `abort()` or a sweep of s, past their checks, or a late part-urls request turns a finished session back to UPLOADING |
| `lapsed` | ConcurrencySlots | the counter's key expires between two commands of one request |
| `doubled[c]` | EmailOtp | two right guesses of one code were compared at once |
| `crossed` | ClaimLinks | two GETs had read the token before either deleted it |
| `met` | AdminLockout | logins overlapped: each writes the count it read plus one |
| `spared` | AdminAccount | a session was opened by a login that had read the old password, or made the change itself |
| `busyAtDrop[s]` | CloudTokens | another request on the session overlapped the disconnect |
| `beside` | CloudFiles, MarkTools, ToolRuns | Retry, left on display, started one operation beside another |
| `tangled` | AdminRecords | two status changes overlapped, or one died before its audit row |
| `stray` | ConsoleSession | `me()` failed without a 401, or an answer landed that another had overtaken |
| `asked`, `revived`, `beside` | WorkerTask | runs under way when Cancel was clicked; those of them under way when a start took the Cancel back; runs that were under way together |
| `overlapped`, `setBack` | BatchQueue | two loops, or a loop and a ZIP or a clearing, ran at once; a reload or the user went back to an older start number |
| `staleDrop` | PageList | cards were dropped before an upload was rendered |
| `staleCopy`, `swept` | Thumbnails | a copy took the URL of an evicted thumbnail; a batch job swept the caches |
| `left`, `stranded`, `overtaken` | TransferDialog | the dialog was closed or ended under an upload or a conversion that went on |

Everything else still interleaves freely. What holds in spite of the races
(`ReadyIsValidated`, `NothingLeftOpen`, `LiveFileHasObject` for multipart
uploads, `GuessesBounded`, `CapturesCounted`) does not mention them.

## 3. Runs

Passing runs, with the instance and the distinct states TLC finds:

| Run | Instance | Shows |
|---|---|---|
| `uploads` (743,688) | one upload, in one PUT or in two parts, 2 request slots, 1 cleanup run, times to live 1 and 2 ticks | `LiveFileHasObject`, `ReadyIsValidated`, `NothingLeftOpen` in spite of all races; `AnsweredFileStaysLive`, `OneEmailPerUpload`, `CompletedIsFinal` short of them; the refinement `ImplementsLifecycle` |
| `cleanup_liveness` | one session, one request slot, URL life longer than the session's | `SessionsSettle`, `ObjectsReclaimed`, `ExpiredRowsMarked` under fairness |
| `upload_engine` | 3 parts, 2 workers, 2 attempts, 1 resume | `FinalizesOnlyWhenStored`, `QuietAfterCancel`, `OnlyMissingResent`; `Settles` under fairness |
| `slots` (2,645,463) | 3 requests, cap 2, rate 3, daily budget 3, all of them conversions or all of them OCR | `CapKept`, `CallsWithinBudget`, `NeverReclaimedMidRun` |
| `components` (1,054,935) | nine components of a browser page, each alone: 2 batch jobs of any of three tools; 3 pages; a thumbnail slot, a cache of one, 2 URLs; 3 worker runs; 2 files per tool | `BatesUnique` (BatchQueue), `PagesKept` (PageList), `ThumbsAlive` (Thumbnails), `CancelIsHonest` (WorkerTask), `DialogTellsTruth` (TransferDialog), `MarksFitFile` (MarkTools), `TablesOfFile` (TableTool), `DownloadFitsFiles` (ToolRuns), `PartsFitRequest` (PagePlans) |
| `console` (658,927) | ten components of the staff console, the cloud imports, the e-mailed codes and links and the crop page, each alone | `LockoutHolds` (AdminLockout), `OldSessionsEnd` (AdminAccount), `DisconnectHolds` (CloudTokens), `RowsFitQuery` and `ExportTellsCut` (AdminTables), `CrossesAsPdf` and `RetryRepeatsFailure` (CloudFiles), `CapturesCounted` and `AuditTellsStory` (AdminRecords), `ConsoleSettles` (ConsoleSession), `GuessesBounded` and `CodeUsedOnce` (EmailOtp), `LinkSpentOnce` (ClaimLinks), `DragMovesOneEdge` (PageGeometry) |

`components` and `console` put components that share no state into one
specification: the variable `part` says which one a behaviour is of, the others
keep their initial state. What is checked is each component with all of its own
interleavings, not a product of them. `caller` does the same in `slots`.

Runs that TLC refutes, each against a sentence of the repository:

| Run | Violates | What it says of the program |
|---|---|---|
| `cancel_race` | `CompletedObjectKept` | `abortSessionStorage` is "best-effort storage cleanup for an unfinished session" (`uploads.service.ts:572`), and `abort()` refuses a COMPLETED one. The status is read once. A cancel (or the sweep) that read PENDING deletes the object after an overlapping `complete()` has committed, then marks the session ABORTED. The e-mailed link leads nowhere. |
| `retention_starved` | `ExpiredRowsMarked` | "Cleanup job deletes expired objects from S3 and marks rows `EXPIRED`" (`docs/architecture.md:111`). The query also fetches rows already EXPIRED, for a retry of failed deletes, and nothing ever removes them; with `take: 100` and no order they can fill every batch. `cleanup_liveness` checks the same property where the batch is not full. |
| `slot_leak` | `SelfHeals` | The TTL is there so that leaked counts heal (`redis.service.ts:54-59`), but INCR and EXPIRE are two round trips. A request that dies between them, as the first on its key, leaves a count without a TTL. |
| `ocr_cap` | `CallsCapped` | "A concurrency cap (2 in flight)" (`docs/PROJECT.md:570`) caps responses, not Gemini calls: neither `withTimeout` nor a client that leaves ends the call. |
| `transfer_cancel` | `CancelIsHeard` | `requestCancel`: "Move to `cancelling`, abort the signal, and invoke the registered handler" (`useTransferOperation.ts:80`). The upload of an e-mailed copy starts after the operation was settled by the download, so its Cancel returns at once. |
| `crop_rotation` | `MarginsFollowTheView` | "Margins are applied in the page's visual size" (`cropPdf.ts:49`). The one mapping used for 90 and 270 degrees is that of 270; there is none for 180. |

### Bounds, and why they are enough

*Uploads.* Sessions do not touch one another's rows or objects except through
the cleanup batch, so one session is enough for safety: `OneUpload` follows
behaviours in which one of a single and a two-part session was begun, whichever
came first. The batch is the subject of `retention_starved`. Two slots are
enough for every pairwise race of handlers, and the cleanup run is a third
party; the proofs cover any number. Times to live of 1 and 2 ticks order the
clocks of URL, session and file in every way the code's 1 hour, 24 hours and
configured days can meet, since a tick may fall between any two steps. `age`
saturates at `MaxAge`, beyond both.

*Engine.* Three parts on two workers are the fewest where a worker takes a
second part while the other is at work and a part still waits; two attempts and
one resume reach both limits.

*Limiter.* Three requests on a cap of two are the fewest where one is denied
while two hold. `MaxCount` bounds INCRs of a counter that leaks count up,
`MaxBudget` those of the budget, and `RateIncr` stops counting once a window has
refused; each bound only cuts off requests that would be refused.
`SlotTtl > RunMax` is the code's own demand ("must exceed the longest possible
held slot").

*Cleanup.* The liveness run has one session of one PUT: with parts the graph
that temporal checking needs outgrows the run. A `complete()` that dies between
assembling a multipart object and its transaction is in the safety runs only.

*Components and console.* Two requests (guesses, GETs, logins, captures, tabs,
OAuth requests) meet in every pairwise order, on limits small enough to be
reached: two attempts per code, three logins to a lock, one row per page and one
per export beside two rows, a cap of one byte unit beside sizes 0, 1 and 2. Two
files, jobs, exports or conversions are the fewest where the second finds
what the first left; of a tool's worker runs three are allowed, so that one may
follow two that overlapped. `MaxLoads` is 2: a load that was forgotten and the
one beside it. A broken number of pages per file is any of 1.5, 2.5, ... up to
past the document (`broken`): where the parts begin and end depends only on the
whole pages and on there being a fraction, since the second part already fails. Three pages are the fewest where a drag crosses one. Pages
are previewed only while none is selected (`PreviewsUnselected`): the preview
neither reads nor changes the selection, and the page behind it answers nothing. The texts (`MCTexts`) are all those of one group of two
tokens at most, or of two groups of one token, with numbers from 0 to one past
the last page: every way a token or a group can misfit is among them. One
thumbnail slot and a cache of one make every second thumbnail wait and evict.
The crop page is 11 by 10 points, so that sides can be told apart, with typed
margins of 0, 1 and 5 points, on both sides of the least box.

*Symmetry.* Request slots, and staff sessions, are only ever compared for
equality and no CHOOSE picks among them: they are declared symmetric, in runs
without liveness properties.

*Constraints.* `NothingExcepted` and `OneAtATime` stop at states in which one of
the histories has become true, after which the property of that component says
nothing any more. TLC checks the state itself before it is left. Histories whose
properties still say something are not cut (`raced`, `lapsed`, `doubled`,
`crossed`, `staleDrop`, `tangled`, ...).

`CHECK_DEADLOCK FALSE` is set where the system may stop: when no client sends
another request and all ages are saturated, or when a component has used up its
bounds. `slots` and `slot_leak` cannot stop, since time goes on, and the
engine may stop only where its promise has settled (`Settled`): deadlock is
checked there.

### Fairness

* **Cleanup** (`FairSpec`): the clock runs (weak fairness of `Tick`), and each
  call a run makes succeeds infinitely often if it is reached infinitely often
  (strong fairness). Weak fairness would not do: a call that fails ends the run
  and disables the step. The hourly timer (`files.cleanup.service.ts:18-23`) justifies
  that runs recur. Nothing is assumed of clients or of requests in flight: they
  may hang for ever, so `SessionsSettle` does not rest on them.
* **Engine** (`FairEngineSpec`): every request of the browser ends, answered or
  not, and every timer fires. Nothing is assumed of the other side or the user.
* **Limiter** (`FairConversionSpec`): the clock runs. Nothing is assumed of the
  requests: `SelfHeals` speaks of behaviours in which traffic stops.

The other properties are safety properties; `ConsoleSettles`, `DialogTellsTruth`
and the first half of `TablesOfFile` say of states at rest what would otherwise
be asked as liveness: nothing is left under way or on display for ever.

## 4. Proofs

For every value of the constants, from the assumptions named in the modules
(`TtlAssumption`, `PartsAssumption`, `SlotTtlAssumption`, ...), TLAPS checks:

| Theorem | States |
|---|---|
| `UploadProofs!TypeCorrect` | `Spec => []TypeOK` |
| `UploadProofs!UploadsAreSound`, `NoUploadLeftOpen` | `ReadyIsValidated`, `CompletedFileNotFailed`; `NothingLeftOpen` |
| `UploadProofs!UploadsKeepTheirPromises`, `AnsweredFilesStayLive`, `UploadsMailOnce` | `LiveFileHasObject`, `AnsweredFileStaysLive`, `OneEmailPerUpload` |
| `UploadProofs!CompletedStaysCompleted` | `CompletedIsFinal` |
| `UploadProofs!UploadsImplementLifecycle` | `ImplementsLifecycle`: the system implements FileLifecycle |
| `EngineProofs!EngineFinalizesWhenStored`, `EngineResendsOnlyMissing`, `EngineQuietAfterCancel` | the engine's three safety properties |
| `SlotProofs!ConversionsKeepCap`, `ConversionsNeverReclaimed` | `CapKept`, `NeverReclaimedMidRun` |
| `SlotProofs!OcrKeepsCap`, `OcrKeepsBudget` | `CapKept`, `CallsWithinBudget` |
| `ServerProofs!OtpGuessesAreBounded`, `OtpVerifiesOnce` | `GuessesBounded`, `CodeUsedOnce` (EmailOtp) |
| `ServerProofs!LinkDownloadsOnce` | `LinkSpentOnce` (ClaimLinks) |
| `ServerProofs!LoginsLock`, `OldSessionsAreEnded` | `LockoutHolds` (AdminLockout), `OldSessionsEnd` (AdminAccount) |
| `ServerProofs!CapturesAreCounted`, `TrailTellsStory` | `CapturesCounted`, `AuditTellsStory` (AdminRecords) |
| `ServerProofs!DisconnectsHold` | `DisconnectHolds` (CloudTokens) |
| `ToolProofs!WorkerCancelsHonestly` | `CancelIsHonest` (WorkerTask) |
| `ToolProofs!PartsAlwaysFit` | `PartsFitRequest` (PagePlans) |
| `ToolProofs!DragsMoveOneEdge` | `DragMovesOneEdge` (PageGeometry) |
| `ToolProofs!TablesStayOfFile`, `MarksStayWithFile` | `TablesOfFile` (TableTool), `MarksFitFile` (MarkTools) |
| `BrowserProofs!DownloadsAlwaysFit` | `DownloadFitsFiles` (ToolRuns) |
| `BrowserProofs!BatesStayUnique`, `DialogAlwaysTellsTruth` | `BatesUnique` (BatchQueue), `DialogTellsTruth` (TransferDialog) |
| `BrowserProofs!ThumbsStayAlive` | `ThumbsAlive` (Thumbnails) |
| `PageProofs!NoPageIsLost` | `PagesKept` (PageList) |
| `ConsoleProofs!ConsoleAlwaysSettles` | `ConsoleSettles` (ConsoleSession) |
| `ConsoleProofs!TablesFitQuery`, `ExportsTellCut` | `RowsFitQuery`, `ExportTellsCut` (AdminTables) |
| `ConsoleProofs!CloudFilesCrossAsPdf`, `CloudRetryRepeatsFailure` | `CrossesAsPdf`, `RetryRepeatsFailure` (CloudFiles) |

**Uploads.** None of the properties is inductive: that a READY file is valid
depends on what the request that commits had established, and when.
`IInv` adds that: `RequestKnows` (what a request past a step knows of its
session: after `Assemble` the upload is done, at `Commit` the content is valid),
`RunKnows` (the same for a row in a cleanup batch) and `RowsAgree` (what rows
say of storage). These three (`Grounded`) hold whatever overlaps. `Undisturbed(s)`
adds what holds of a session that never raced: a completing request still finds
it active, a sweep never holds a COMPLETED one, at most one request is about to
mail. The step proof has one case per action; a session that raced owes nothing.
`OpenInv`, for `NothingLeftOpen`, mentions no race: every request or run about to
end a session has closed its upload or was refused, and an upload once closed is
never opened again (`OpenKept`), so the row may be written by whoever comes last.

**Refinement.** `UploadsImplementLifecycle` takes `IInv` as given and shows, per
action, that the mapped stage stays or moves as FileLifecycle allows: the two
actions that write READY find a pending file because the request knows so; the
ones that write EXPIRED find a time to live that is over, or nothing published.

**Engine.** `EngineIInv` says where parts are: every part that is neither
completed nor reported is queued, failed or in a worker's hands (`NoneLost`),
and in one pair of hands only, never when completed (`NoneTwice`); `AtRest`
ties the workers to the stage. A worker that ends with
`UploadCancelledError` loses its part, but then the round cannot end well.

**Limiter.** `KeyOutlives`: a key with an expiry outlives each request at
work, since the request's own EXPIRE came at its start and others only extend it.
`CountsEnough`: the counter is at least the number of requests whose INCR was
not taken back, so those that saw a count within the cap are at most the cap.
Deaths only leave the counter higher. `SlotProofs` proves this once, for any
user whose steps are limiter steps; both controllers are shown to be such.
For OCR, `BudgetCovers` says the budget key is at least the calls started
plus the requests that may still start one plus the refunds owed.

**Codes, links, accounts.** Each invariant says what the requests in flight have
in hand. `OtpIInv` counts the guesses still being compared with those written,
and `UsedOnce` has no comparison left once the code is used. `LinkIInv`
(`KeyBeforeFile`, `OneInHand`): whoever is past the deletion is alone, or
`crossed`. `LockIInv` (`OneLogin`): until logins meet, one at most is in flight
and holds the count of the row. `AdminIInv`: an old session that is not spared is
due to a password change that has yet to revoke (`OldOnesDue`), and a change of
the address spares its own session, so none is due to that (`OwnSessions`).
`CapturesIInv` keeps one owed alert at most per capture that reached the row.
`TrailIInv` (`Linked`, `OneChange`): a page between its write and its record
holds the status the trail ends in. `CloudIInv` (`Disconnected`): on a session
that was disconnected alone only disconnects go on, and the cookie survives no
longer than one that is about to clear it, so nothing can start there.

**Console.** `SessionIInv`: unless an answer strayed or one on its way was
overtaken, either nothing is on its way and the page is the one the user belongs
on (`Settled`), or exactly one `me()` is, called from the page still on display
(`Settling`). A count of requests would not do; which page called is what
decides whether the answer still fits. `QueryIInv` (`OwnFitsQuery`): the page has one
request at most that was not aborted, and that one is for the query in the
address bar. `ExportIInv` (`CountHolds`, `AnswerTellsCut`): between its two
queries an export has counted every row that matches but those written since;
the lemmas on the count of matching rows are about sets of any size.

**Cloud panels.** `CrossIInv` needs only that files at both ends have a size: the checks
are made on the bytes that cross. `RetryIInv` (`OneUnderWay`, `RetryIsOwn`):
of the operations that set `busy` one at most goes on, unless Retry started the
second, and Retry would not repeat another crossing than that one.

**Workspace.** `BatchIInv` says, until two loops overlap or the start number is
set back, that one loop goes at most, on a copy equal to the queue (`LoopIsAlone`),
that its job has the start number in use (`JobAtWork`), and that every number
given out, with the pages it covers, lies below it (`NumbersBelow`), so that the
next one is new. `DialogIInv` (`OneTransfer`, `GateInOrder`, `NamesFit`): of
export and upload one at most is under way, and the dialog's phase tells which.
`ThumbIInv` (`UrlsFit`): every URL that was made is in the cache or revoked, and
never both; so a page that shows a cached URL shows a live one. An entry that a
later render of the same sheet replaces gives its URL up in the same step.

**Pages.** `PageIInv` says of both lists, the pending and the rendered one, which
*set* each lists, once and wholly (`Lists`). What is rendered was listed, what is
listed is kept, and the pages selected are rendered ones (`ListsFit`,
`SelectionFits`). Every page kept has an origin, so a page without one, which is
what a copy, a blank or an upload takes, is nowhere on the lists (`OriginsFit`
gives each listed page its bytes). One lemma for each operator of the lists says
which set its result lists: filter, concatenate, cut, splice, move, and a copy
after each page. A handler that works on the pending list keeps its set; the drop
of cards replaces it by a list made of the rendered one, which `staleDrop`
records when an upload had landed in between.

**Tools.** `WorkerIInv` adds that runs to come and runs under way have saved
nothing (`Unstarted`, `UnderWay`), that a run whose Cancel nobody took back finds
the flag set, that Cancel is wired only to a run past its reading (`Wiring`),
and that in a tool that needs the page count an error under a run means the count
is gone (`CountTaken`), so its Retry may not begin (`CountedRunAlone`).
`RunsIInv` (`KnownFits`, `RunsAlone`, `RunFits`) says of each run which files it has behind it, that
it is alone unless it is marked as `beside` another, and of the tool that what it
knows is of its first file, or is being read from it. It is proved for any profile
with the constraints of `ProfileOK`, which the eighteen profiles are shown to meet.
`TableIInv` (`GensApart`, `BusyWithCurrent`): generations are given once, the run of the
current one is of the file in the bench, and every other was told to stop, so what
lands late is dropped. `MarkIInv` (`MarkListFits`, `ExportsAlone`, `TakenFits`): marks are of
the file that was read, and an export took them before another file could come.
`PlanIInv` adds that the parts so far end where the cursor stands, and which
broken numbers can have brought it between two pages; and
`RangesIInv` (`GroupReading`, `GroupsPlanned`) that the pages seen are those of the tokens
read, which fit so far, and that groups before have their parts. A refusal is exact
because the first token or group that does not fit is a witness of `Misfit`.
For `DragMovesOneEdge` the invariant is that margins leave a box that fits the
page; the action property follows from one step, with linear arithmetic.

The runs check the properties, on small instances; the inductive invariants are
only proved.

**Only model-checked:** the liveness properties (fairness and ENABLED are out of
the prover's reach here). Every invariant and every action property of a passing
run is a theorem. **External and not verified:** Redis, S3, PostgreSQL, BullMQ, the
cloud providers and Gemini, modelled from their use here.

## 5. Not modelled, and why

* Token checks, validation, rate limits of the upload routes: they refuse
  requests before any state changes. Rejections of a check are the absence of
  the action.
* A Redis command that ioredis sends again after a reconnect
  (`maxRetriesPerRequest: null`) although Redis had run it: a second INCR only
  counts too high, a second DECR could count too low. Each command runs at most
  once here, and `CapKept` holds on that condition.
* A part or single PUT of bytes other than the declared ones after
  `complete()`: the content of a session is one value.
* S3's and Prisma's internals; a transaction is one step.
* `completedParts` of a session: no decision reads it.
* The bytes of PDFs: merging, drawing, compressing, encrypting and rendering are
  pdf-lib's and pdf.js's work. With them go how far a page is turned and the
  colour of its file (PageList), `flattenOverlays` and the boxes of embedded pages
  in the resize tool, whose arithmetic is that of real numbers, and
  `pdfToDocx.ts`, which maps glyph positions to paragraphs.
* The signing of OAuth state and the encryption of stored tokens: they keep
  others out and change no state.
* The summaries of the overview, analytics, monitoring and security pages: they
  aggregate rows others wrote. Mail templates, configuration, logging, health
  checks and the public pages: wording and wiring.
* `send-otp`, which mails and writes nothing.

### Noticed while modelling, not stated as a run

The exceptions in the properties (section 2, *Histories*) are behaviours of the
code, each reachable in its run. Others are outside the models or follow from
them directly:

* "Cancel after the worker does not save artifacts" (`downloadWorkerOutputs.ts:2-4`):
  in Extract and Compress, when the effect that reads the picked file fails under
  a run, the error card's Retry starts `run()` without a look at `busy`
  (`ExtractTool.tsx:336`, `CompressTool.tsx:308`) and sets the shared flag back to
  false: a run cancelled a moment before saves its file (`revived` of WorkerTask).
  The first of two such runs to end unwires Cancel and clears the busy mark of
  both. `CancelIsHonest` says what is left of the promise; in Split and PDF to
  images the page count asked for by `run()` happens to keep runs apart.
* "Split every N pages into contiguous groups" (`parsePageRanges.ts:82`): the field
  lets 2.5 through (`SplitTool.tsx:269`). Of three pages the first file gets two,
  the next start is past the end, and page 3 is in no file (`LosesLastPage` of
  PagePlans). Where two or more files are due, `copyPages` fails on a page between
  two pages: the whole split is refused with a message about an index.
* A multipart upload that was created before its session's rows failed to be
  written is known to no row: only a lifecycle rule of the bucket could end it.
* In the mark tools an error leaves its Retry on display during a later export:
  it starts a second one beside it and clears the cancel flag of the first.
* The crop and resize tools keep the bytes of the file before until the new one
  is read; a run started in between saves them under the new name. In PDF to
  Excel a detection that fails leaves the tables of the file before.
* In the batch panel a retry drains all pending jobs, past the confirmations of
  Flatten and Protect; the end of a ZIP clears `busy` while a retry runs; files
  added while the session is being restored are overwritten.
* Handing a file over does not reset the consent given for another one.
* Concurrent first captures of one error lose all but one occurrence, with
  their alerts. An export at the cap counts and reads in two queries.
* Admin tables hide their pager on an empty page, and keep old rows under new
  filters when a listing fails. The errors page reloads after Resolve with the
  query of the clicked render.
* After a change of e-mail the settings page says to log in again, though its
  own session is kept; `me()` that fails without a 401 leaves the console at
  "Redirecting to sign in".
* The conversion dialog resets itself when the selection changes under it.

## 6. How to extend it

Each component has one module; a new one joins the run of the components it
shares no state with (a disjunct of `part`), or composes as UploadSystem does.
Open work, in order of worth: a composition of MultipartClient with UploadSystem
in place of the client's view of the API; rotation in PageList.

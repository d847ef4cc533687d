----------------------------- MODULE BatchQueue -----------------------------
(***************************************************************************)
(* The workspace's batch queue: batchQueue.ts, BatchQueuePanel.tsx and the *)
(* IndexedDB store of projectStore.ts (apps/web/src/features/workspace).   *)
(*                                                                         *)
(* Three of the tools share state with the panel: Bates numbers (one page  *)
(* for each job) go on from batesStart, Protect needs the password that    *)
(* was confirmed, and Flatten a warning that was ticked; the others only   *)
(* turn bytes into bytes.  A loop (runAll) works on its own copy of the    *)
(* queue and shows it after every job.  A setState and the effect that     *)
(* follows it are one step, and so are a reload and what it restores.      *)
(***************************************************************************)
EXTENDS Integers

CONSTANTS
    BatchTools,   \* the tools the jobs are for
    MaxJobs,      \* jobs that may be queued (bound)
    MaxBates,     \* the highest number given out (bound)
    TypedStart,   \* the start a user may type (bound)
    MaxReloads    \* reloads of the page (bound)

ASSUME BatchBoundsAssumption == {MaxJobs, MaxBates, TypedStart, MaxReloads} \subseteq Nat

Jobs  == 1 .. MaxJobs
Loops == {"run", "retry"}

ASSUME BatchToolsAssumption == {"bates", "protect", "flatten"} \subseteq BatchTools

VARIABLES
    queue,       \* the queue shown: each job's status and tool, whether its input
                 \* and its result are there, and the Bates number in the result
    loop,        \* where each loop stands, its copy of the queue, its job
    busy,
    chores,      \* what else goes on: "zip" for Download all, "clear" for Clear project
    agreed,   \* flattenConfirmed and protectReady: the tools they let run
    aborted,     \* the run was cancelled: the retry has no signal
    batesStart,  \* batesStartRef
    saved,       \* what IndexedDB holds: jobs, blobs, the settings' batesStart
    reloads,
    wanted,      \* history: jobs added since the queue was last cleared
    overlapped,  \* history: a loop was started while one, or a chore, was going
    setBack,     \* history: a reload or the user went back to a lower start, or to
                 \* another queue, than was in use
    unasked      \* history: a run worked on a file its tool was not confirmed for

batchHistory == <<wanted, overlapped, setBack, unasked>>
panelVars == <<chores, agreed>>
batchVars ==
    <<queue, loop, busy, panelVars, aborted, batesStart, saved, reloads, batchHistory>>

NoJob ==
    [status |-> "absent", tool |-> "none", input |-> FALSE, bates |-> 0, result |-> FALSE]
NewJob(tool) ==
    [status |-> "pending", tool |-> tool, input |-> TRUE, bates |-> 0, result |-> FALSE]
Become(job, status) == [job EXCEPT !.status = status]
Done(job, n) == [[Become(job, "done") EXCEPT !.result = TRUE] EXCEPT !.bates = n]
EmptyQueue == [j \in Jobs |-> NoJob]
With(q, status) == {j \in Jobs : q[j].status = status}
FirstOf(J) == CHOOSE j \in J : \A k \in J : j <= k

NoLoop == [at |-> "idle", current |-> EmptyQueue, bates |-> 0]
LoopOn(q) == [at |-> "next", current |-> q, bates |-> 0]

\* The tools whose jobs wait for the user's word.
Confirmable == {"flatten", "protect"}

NothingSaved == [jobs |-> EmptyQueue, inputs |-> {}, results |-> {}, bates |-> 1]

BatchInit ==
    /\ queue = EmptyQueue
    /\ loop = [l \in Loops |-> NoLoop]
    /\ busy = FALSE /\ aborted = FALSE
    /\ chores = {} /\ agreed = {}
    /\ batesStart = 1
    /\ saved = NothingSaved
    /\ reloads = 0
    /\ wanted = {} /\ overlapped = FALSE /\ setBack = FALSE /\ unasked = FALSE

LoopGoes(l, step) == loop' = [loop EXCEPT ![l].at = step]
LoopEnds(l) == loop' = [loop EXCEPT ![l] = NoLoop] /\ busy' = FALSE

-----------------------------------------------------------------------------
(* What persistSession leaves behind: nothing, or the metadata and the blobs of
   the jobs before the one that did not fit, which may have its input saved *)

HasInput(q) == {j \in Jobs : q[j].input}

Kept(q, upTo, half) ==
    [saved EXCEPT !.jobs = q,
                  !.inputs = @ \union (HasInput(q) \intersect 1 .. (upTo + half)),
                  !.results = @ \union {j \in With(q, "done") : q[j].result /\ j <= upTo}]

Whole(q) == Kept(q, MaxJobs, 0)
Part(q) == {Kept(q, upTo, half) : upTo \in 0 .. MaxJobs - 1, half \in 0 .. 1}

-----------------------------------------------------------------------------
(* The panel *)

\* The button is disabled while busy.
MayAdd == ~busy

\* onFilesPicked: the queue shown, with one job more, is shown and saved.  Files
\* picked together are queued one after the other.
AddFiles(j, tool) ==
    /\ MayAdd
    /\ j \in Jobs \ wanted /\ queue[j] = NoJob /\ \A k \in Jobs : k < j => k \in wanted
    /\ queue' = [queue EXCEPT ![j] = NewJob(tool)]
    /\ wanted' = wanted \union {j}
    /\ saved' \in {saved, Whole(queue')} \union Part(queue')
    /\ UNCHANGED <<loop, busy, panelVars, aborted, batesStart, reloads>>
    /\ UNCHANGED <<overlapped, setBack, unasked>>

\* updateSettings: batesStart is kept or typed, and saved with the rest.
EditSettings(n) ==
    /\ ~busy
    /\ batesStart' = n
    /\ \/ saved' = [saved EXCEPT !.bates = n]
       \/ UNCHANGED saved
    /\ setBack' = (setBack \/ n < batesStart)
    /\ UNCHANGED <<queue, loop, busy, panelVars, aborted, reloads>>
    /\ UNCHANGED <<wanted, overlapped, unasked>>

\* The flatten warning is ticked, or confirmProtectPassword finds both alike.
Confirm(tool) ==
    /\ ~busy
    /\ agreed' = agreed \union {tool}
    /\ UNCHANGED <<queue, loop, busy, chores, aborted>>
    /\ UNCHANGED <<batesStart, saved, reloads, batchHistory>>

\* The warning is unticked, or a password typed over.
TakeBack(tool) ==
    /\ ~busy
    /\ agreed' = agreed \ {tool}
    /\ UNCHANGED <<queue, loop, busy, chores, aborted>>
    /\ UNCHANGED <<batesStart, saved, reloads, batchHistory>>

StartLoop(l, q) ==
    /\ loop[l] = NoLoop
    /\ loop' = [loop EXCEPT ![l] = LoopOn(q)]
    /\ busy' = TRUE
    /\ overlapped' = (overlapped \/ chores # {} \/ \E m \in Loops : loop[m] # NoLoop)

\* Mutant of RunPending's gate: it looks at the first job only.
FirstConfirmed ==
    queue[FirstOf(With(queue, "pending"))].tool \in Confirmable =>
        queue[FirstOf(With(queue, "pending"))].tool \in agreed

\* hasFlatten and hasProtect.
AllConfirmed ==
    \A j \in With(queue, "pending") :
        queue[j].tool \in Confirmable => queue[j].tool \in agreed

RunPending ==
    /\ ~busy
    /\ With(queue, "pending") # {}
    /\ AllConfirmed
    /\ StartLoop("run", queue)
    /\ aborted' = FALSE
    /\ UNCHANGED <<queue, panelVars, batesStart, saved, reloads, wanted, setBack, unasked>>

\* No look at busy, nor at what is confirmed: the button of a failed job works
\* while a loop is going, and its loop takes every pending job.
RetryFailed(j) ==
    /\ queue[j].status = "failed"
    /\ queue' = [queue EXCEPT ![j] = Become(@, "pending")]
    /\ StartLoop("retry", queue')
    /\ UNCHANGED <<panelVars, aborted, batesStart, saved, reloads, wanted, setBack, unasked>>

\* Offered while busy; seen when the job that is running is over.
CancelRun ==
    /\ busy /\ loop["run"] # NoLoop /\ ~aborted
    /\ aborted' = TRUE
    /\ UNCHANGED <<queue, loop, busy, panelVars, batesStart, saved, reloads, batchHistory>>

DownloadAll ==
    /\ ~busy
    /\ \E j \in With(queue, "done") : queue[j].result
    /\ busy' = TRUE /\ chores' = chores \union {"zip"}
    /\ UNCHANGED <<queue, loop, agreed, aborted>>
    /\ UNCHANGED <<batesStart, saved, reloads, batchHistory>>

\* A retry may have begun since: busy goes FALSE all the same.
ZipSaved ==
    /\ "zip" \in chores
    /\ busy' = FALSE /\ chores' = chores \ {"zip"}
    /\ UNCHANGED <<queue, loop, agreed, aborted>>
    /\ UNCHANGED <<batesStart, saved, reloads, batchHistory>>

ClearProject ==
    /\ ~busy
    /\ busy' = TRUE /\ chores' = chores \union {"clear"}
    /\ UNCHANGED <<queue, loop, agreed, aborted>>
    /\ UNCHANGED <<batesStart, saved, reloads, batchHistory>>

\* clearProject is one transaction.  The settings go with the rest; batesStart in
\* memory does not, nor does the copy of a retry that has begun since.
ProjectCleared ==
    /\ "clear" \in chores
    /\ busy' = FALSE /\ chores' = chores \ {"clear"}
    /\ queue' = EmptyQueue /\ wanted' = {}
    /\ agreed' = {}
    /\ saved' = NothingSaved
    /\ UNCHANGED <<loop, aborted>>
    /\ UNCHANGED <<batesStart, reloads, overlapped, setBack, unasked>>

ClearingFails ==
    /\ "clear" \in chores
    /\ busy' = FALSE /\ chores' = chores \ {"clear"}
    /\ UNCHANGED <<queue, loop, agreed, aborted>>
    /\ UNCHANGED <<batesStart, saved, reloads, batchHistory>>

-----------------------------------------------------------------------------
(* runAll and runNext *)

Aborted(l) == l = "run" /\ aborted

\* Mutant of BatesStart: the number in the settings as saved.
SavedStart == saved.bates

\* getBatesStart, read once the job's bytes are there.
BatesStart == batesStart

NextJob(l) == FirstOf(With(loop[l].current, "pending"))

\* What a runner throws for before it starts: no input, or no password.
Runnable(job) == job.input /\ (job.tool = "protect" => "protect" \in agreed)

StartJob(l) ==
    /\ loop[l].at = "next"
    /\ With(loop[l].current, "pending") # {} /\ ~Aborted(l)
    /\ Runnable(loop[l].current[NextJob(l)])
    /\ BatesStart <= MaxBates
    /\ loop' = [loop EXCEPT ![l] = [@ EXCEPT !.at = "work", !.bates = BatesStart]]
    /\ LET tool == loop[l].current[NextJob(l)].tool IN
       unasked' = (unasked \/ (l = "run" /\ tool \in Confirmable \ agreed))
    /\ UNCHANGED <<queue, busy, panelVars, aborted, batesStart, saved, reloads>>
    /\ UNCHANGED <<wanted, overlapped, setBack>>

\* onUpdate: the loop's copy becomes the queue shown.
Shows(l, job) ==
    /\ queue' = [loop[l].current EXCEPT ![NextJob(l)] = job]
    /\ loop' = [loop EXCEPT ![l] = LoopOn(queue')]

\* "Missing input file." or "Set and confirm a protect password first."
JobRefused(l) ==
    /\ loop[l].at = "next"
    /\ With(loop[l].current, "pending") # {} /\ ~Aborted(l)
    /\ ~Runnable(loop[l].current[NextJob(l)])
    /\ Shows(l, Become(loop[l].current[NextJob(l)], "failed"))
    /\ UNCHANGED <<busy, panelVars, aborted, batesStart, saved, reloads, batchHistory>>

\* A runner that is done when the run was cancelled: the job stays pending.
Lands(l, n) ==
    IF Aborted(l) THEN LoopEnds(l) /\ UNCHANGED queue
    ELSE Shows(l, Done(loop[l].current[NextJob(l)], n)) /\ UNCHANGED busy

\* setBatesStart(nextNumber), then the result.
BatesDone(l) ==
    /\ loop[l].at = "work" /\ loop[l].current[NextJob(l)].tool = "bates"
    /\ batesStart' = loop[l].bates + 1
    /\ Lands(l, loop[l].bates)
    /\ UNCHANGED <<panelVars, aborted, saved, reloads, batchHistory>>

\* The other runners.
JobDone(l) ==
    /\ loop[l].at = "work" /\ loop[l].current[NextJob(l)].tool # "bates"
    /\ Lands(l, 0)
    /\ UNCHANGED <<panelVars, aborted, batesStart, saved, reloads, batchHistory>>

JobFails(l) ==
    /\ loop[l].at = "work"
    /\ Shows(l, Become(loop[l].current[NextJob(l)], "failed"))
    /\ UNCHANGED <<busy, panelVars, aborted, batesStart, saved, reloads, batchHistory>>

\* The abort is seen between two jobs: the queue shown stays as it is, and nothing
\* is saved.
StopRun(l) ==
    /\ loop[l].at = "next"
    /\ Aborted(l) /\ With(loop[l].current, "pending") # {}
    /\ LoopEnds(l)
    /\ UNCHANGED <<queue, panelVars, aborted, batesStart, saved, reloads, batchHistory>>

\* persistSession throws when the blobs exceed the budget: the settings are not
\* saved then.  What else goes wrong with IndexedDB is not heard of.
EndLoop(l) ==
    /\ loop[l].at = "next" /\ With(loop[l].current, "pending") = {}
    /\ queue' = loop[l].current
    /\ \/ /\ saved' \in {saved, Whole(queue')} \union Part(queue')
          /\ LoopGoes(l, "settings") /\ UNCHANGED busy
       \/ /\ saved' \in Part(queue')
          /\ LoopEnds(l)
    /\ UNCHANGED <<panelVars, aborted, batesStart, reloads, batchHistory>>

SaveSettings(l) ==
    /\ loop[l].at = "settings"
    /\ \/ saved' = [saved EXCEPT !.bates = batesStart]
       \/ UNCHANGED saved
    /\ LoopEnds(l)
    /\ UNCHANGED <<queue, panelVars, aborted, batesStart, reloads, batchHistory>>

-----------------------------------------------------------------------------
\* The saved jobs with the blobs there are.  A job saved as done without its
\* result stays done, with nothing to download; one without its input can only fail.
SavedQueue ==
    [j \in Jobs |-> [saved.jobs[j] EXCEPT !.input = j \in saved.inputs,
                                         !.result = @ /\ j \in saved.results]]

\* The page is reloaded and the panel opened, and the session restored before
\* anything else is done.
Reload ==
    /\ reloads < MaxReloads
    /\ queue' = SavedQueue
    /\ loop' = [l \in Loops |-> NoLoop]
    /\ busy' = FALSE /\ aborted' = FALSE
    /\ chores' = {} /\ agreed' = {}
    /\ batesStart' = saved.bates
    /\ reloads' = reloads + 1
    /\ setBack' = (setBack \/ SavedQueue # queue \/ saved.bates # batesStart)
    /\ UNCHANGED <<saved, wanted, overlapped, unasked>>

Loop(l) ==
    \/ StartJob(l)
    \/ JobRefused(l)
    \/ BatesDone(l)
    \/ JobDone(l)
    \/ JobFails(l)
    \/ StopRun(l)
    \/ EndLoop(l)
    \/ SaveSettings(l)

Toolbar ==
    \/ \E j \in Jobs, tool \in BatchTools : AddFiles(j, tool)
    \/ RunPending

SettingsForm ==
    \/ \E n \in {batesStart, TypedStart} : EditSettings(n)
    \/ \E tool \in Confirmable : Confirm(tool) \/ TakeBack(tool)

JobList == \E j \in Jobs : RetryFailed(j)

Footer ==
    \/ DownloadAll
    \/ ClearProject

ChoreEnds ==
    \/ ZipSaved
    \/ ProjectCleared
    \/ ClearingFails

BatchNext ==
    \/ Toolbar
    \/ SettingsForm
    \/ CancelRun
    \/ JobList
    \/ Footer
    \/ ChoreEnds
    \/ \E l \in Loops : Loop(l)
    \/ Reload

BatchSpec == BatchInit /\ [][BatchNext]_batchVars

-----------------------------------------------------------------------------
\* No two results carry the same Bates number, however jobs fail, are retried or
\* cancelled, and whatever else is in the queue; and Run pending works on no file
\* whose warning is not ticked, or password not confirmed, when the file's turn
\* comes.  Unless a loop ran beside another, or beside a ZIP or the clearing of the
\* project, or a reload or the user went back to a start, or a queue, older than the one
\* in use.
BatesUnique ==
    \/ overlapped \/ setBack
    \/ /\ \A j, k \in With(queue, "done") :
              queue[j].tool = "bates" /\ queue[j].bates = queue[k].bates => j = k
       /\ ~unasked
=============================================================================

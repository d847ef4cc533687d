----------------------------- MODULE WorkerTask -----------------------------
(***************************************************************************)
(* A tool that works in a web worker (split, PDF to images, extract,       *)
(* compress): run() of the tool, the effect that reads the picked file,    *)
(* Cancel and Retry, runWorkerTask of runInWorker.ts and                   *)
(* downloadWorkerOutputs.ts, all in apps/web/src/features/tools.           *)
(*                                                                         *)
(* run() does not ask whether a run is under way; the button does, the     *)
(* Retry of the error card does not.  The runs share the cancel flag, the  *)
(* function Cancel calls and the busy mark.  Between two awaits the        *)
(* browser runs nothing else: a message, a click or a timer is one step,   *)
(* with the promise callbacks that follow it.                              *)
(***************************************************************************)
EXTENDS Integers

CONSTANT MaxToolRuns     \* runs of the tool (bound)

ASSUME MaxToolRunsAssumption == MaxToolRuns \in Nat

VARIABLES
    toolKind,    \* which tool it is
    inHand,      \* a file is in the workbench
    effecting,   \* the effect is reading that file
    counted,     \* pageCount > 0
    selected,    \* extract: pages are selected
    toolRuns,    \* runs started
    place,       \* where each run() waits: "none", "reading", "working", "zipping", "over"
    cancelled,   \* cancelledBeforeWorkerRef, shared by the runs
    wired,       \* the run whose worker cancelRef.current stops, NoRun if it is null
    workers,     \* the runs whose worker has not been terminated
    answers,     \* the runs whose worker has posted an answer not yet received
    toolBusy,    \* busy: the button is off, the progress card has its Cancel
    toolError,   \* the error card with its Retry is shown
    asked,       \* history: runs under way when the user clicked Cancel
    revived,     \* history: runs of asked under way when a start reset the flag
    beside,      \* history: runs under way with another one
    saves        \* history: files downloaded by each run

toolFile   == <<toolKind, inHand, effecting, counted, selected>>
workerPool == <<wired, workers, answers>>
card       == <<toolBusy, toolError>>
pastRuns   == <<asked, revived, beside>>
workerVars == <<toolFile, toolRuns, place, cancelled, workerPool, card, pastRuns, saves>>

ToolRuns == 1 .. MaxToolRuns
NoRun    == 0
Active   == {t \in ToolRuns : place[t] \in {"reading", "working", "zipping"}}

\* Split and PDF to images need the page count, and may give several files.
NeedsCount == toolKind \in {"split", "images"}

WorkerInit ==
    /\ toolKind \in {"split", "images", "extract", "compress"}
    /\ inHand = FALSE /\ effecting = FALSE /\ counted = FALSE /\ selected = FALSE
    /\ toolRuns = 0 /\ place = [t \in ToolRuns |-> "none"]
    /\ cancelled = FALSE
    /\ wired = NoRun /\ workers = {} /\ answers = {}
    /\ toolBusy = FALSE /\ toolError = FALSE
    /\ asked = {} /\ revived = {} /\ beside = {}
    /\ saves = [t \in ToolRuns |-> 0]

-----------------------------------------------------------------------------
(* The file *)

\* What the runs have is left alone.
RunsGoOn == UNCHANGED <<toolRuns, place, cancelled, workerPool, pastRuns, saves>>

\* A file takes the place of the one there, whose effect is given up; what is known of the
\* old one stays until the new one is read.
PickToolFile ==
    /\ ~toolBusy
    /\ inHand' = TRUE /\ effecting' = TRUE
    /\ toolError' = (toolError /\ toolKind # "images")
    /\ UNCHANGED <<toolKind, counted, selected, toolBusy>> /\ RunsGoOn

DropToolFile ==
    /\ ~toolBusy /\ inHand
    /\ inHand' = FALSE /\ effecting' = FALSE
    /\ counted' = FALSE /\ selected' = FALSE
    /\ toolError' = (toolError /\ toolKind # "images")
    /\ UNCHANGED <<toolKind, toolBusy>> /\ RunsGoOn

\* The effect answers while a run may be under way.
EffectDone ==
    /\ effecting /\ effecting' = FALSE
    /\ counted' = TRUE /\ selected' = FALSE
    /\ toolError' = FALSE
    /\ UNCHANGED <<toolKind, inHand, toolBusy>> /\ RunsGoOn

\* Extract keeps the selection, compress the page count.
EffectFails ==
    /\ effecting /\ effecting' = FALSE
    /\ counted' = (counted /\ toolKind = "compress")
    /\ toolError' = TRUE
    /\ UNCHANGED <<toolKind, inHand, selected, toolBusy>> /\ RunsGoOn

\* A click on a page, All, None, Invert or Apply range; Apply takes the error away.
ChoosePages ==
    /\ toolKind = "extract" /\ counted /\ ~toolBusy
    /\ selected' \in BOOLEAN
    /\ toolError' \in {toolError, FALSE}
    /\ UNCHANGED <<toolKind, inHand, effecting, counted, toolBusy>> /\ RunsGoOn

\* Apply range of a text that cannot be read.
RangeRefused ==
    /\ toolKind = "extract" /\ counted /\ ~toolBusy
    /\ toolError' = TRUE
    /\ UNCHANGED <<toolFile, toolBusy>> /\ RunsGoOn

-----------------------------------------------------------------------------
(* The run *)

\* The first line of run().
MayRun == inHand /\ (NeedsCount => counted) /\ (toolKind = "extract" => selected)

\* The button, not while busy, or Retry, whenever an error is shown.
StartTool ==
    /\ ~toolBusy \/ toolError
    /\ MayRun /\ toolRuns < MaxToolRuns
    /\ toolRuns' = toolRuns + 1
    /\ place' = [place EXCEPT ![toolRuns + 1] = "reading"]
    /\ cancelled' = FALSE
    /\ toolBusy' = TRUE /\ toolError' = FALSE
    /\ revived' = revived \union (asked \intersect Active)
    /\ beside' = beside \union Active \union (IF Active = {} THEN {} ELSE {toolRuns + 1})
    /\ UNCHANGED <<toolFile, workerPool, asked, saves>>

\* Retry of a run that may not begin only takes the error away.
RetryInVain ==
    /\ toolError /\ ~MayRun
    /\ toolError' = FALSE
    /\ UNCHANGED <<toolFile, toolBusy>> /\ RunsGoOn

\* catch and finally: whatever else runs, Cancel is unwired and the tool is not busy.
EndsWith(t, error) ==
    /\ place' = [place EXCEPT ![t] = "over"]
    /\ wired' = NoRun /\ toolBusy' = FALSE
    /\ toolError' = error
    /\ UNCHANGED <<toolFile, toolRuns, pastRuns>>

Terminate(t) == workers' = workers \ {t} /\ answers' = answers \ {t}
WithoutWorker == UNCHANGED <<workers, answers>>

\* file.arrayBuffer() is there: the worker is started and wired to Cancel, unless Cancel
\* came first.
BytesRead(t) ==
    /\ place[t] = "reading"
    /\ \/ cancelled /\ EndsWith(t, FALSE) /\ WithoutWorker
       \/ /\ ~cancelled
          /\ place' = [place EXCEPT ![t] = "working"]
          /\ workers' = workers \union {t} /\ wired' = t
          /\ UNCHANGED <<toolFile, toolRuns, answers, card, pastRuns>>
    /\ UNCHANGED <<cancelled, saves>>

\* The file cannot be read, or the plan is refused.
ReadFails(t) ==
    /\ place[t] = "reading"
    /\ EndsWith(t, TRUE) /\ WithoutWorker
    /\ UNCHANGED <<cancelled, saves>>

\* A worker works on, whoever waits for it, until it is terminated.
WorkerPosts(t) ==
    /\ t \in workers \ answers
    /\ answers' = answers \union {t}
    /\ UNCHANGED <<toolFile, toolRuns, place, cancelled, wired, workers, card, pastRuns, saves>>

\* onmessage with ok, then the first look of downloadWorkerOutputs: one file is saved at
\* once, several are zipped first.
ReceiveResult(t, several) ==
    /\ place[t] = "working" /\ t \in answers
    /\ several => NeedsCount
    /\ Terminate(t)
    /\ \/ cancelled /\ EndsWith(t, FALSE) /\ UNCHANGED saves
       \/ /\ ~cancelled /\ several
          /\ place' = [place EXCEPT ![t] = "zipping"]
          /\ UNCHANGED <<toolFile, toolRuns, wired, card, pastRuns, saves>>
       \/ /\ ~cancelled /\ ~several
          /\ EndsWith(t, toolError) /\ saves' = [saves EXCEPT ![t] = @ + 1]
    /\ UNCHANGED cancelled

\* An answer that is not ok, onerror, or the timeout.
WorkerFails(t) ==
    /\ place[t] = "working"
    /\ Terminate(t) /\ EndsWith(t, TRUE)
    /\ UNCHANGED <<cancelled, saves>>

\* Mutant of StillWanted: the flag is not looked at again after zipping.
WantedAnyway == TRUE

\* isCancelled(), once the zip is there.
StillWanted == ~cancelled

ZipDone(t) ==
    /\ place[t] = "zipping"
    /\ \/ StillWanted /\ EndsWith(t, toolError) /\ saves' = [saves EXCEPT ![t] = @ + 1]
       \/ ~StillWanted /\ EndsWith(t, FALSE) /\ UNCHANGED saves
    /\ WithoutWorker
    /\ UNCHANGED cancelled

ZipFails(t) ==
    /\ place[t] = "zipping"
    /\ EndsWith(t, TRUE) /\ WithoutWorker
    /\ UNCHANGED <<cancelled, saves>>

\* The flag is set; the worker Cancel is wired to is terminated and its promise rejected.
CancelTool ==
    /\ toolBusy
    /\ cancelled' = TRUE
    /\ asked' = asked \union Active
    /\ \/ /\ wired # NoRun /\ place[wired] = "working"
          /\ Terminate(wired)
          /\ place' = [place EXCEPT ![wired] = "over"]
          /\ wired' = NoRun /\ toolBusy' = FALSE /\ toolError' = FALSE
       \/ /\ wired # NoRun => place[wired] # "working"
          /\ UNCHANGED <<place, workerPool, card>>
    /\ UNCHANGED <<toolFile, toolRuns, revived, beside, saves>>

WorkerNext ==
    \/ PickToolFile
    \/ DropToolFile
    \/ EffectDone
    \/ EffectFails
    \/ ChoosePages
    \/ RangeRefused
    \/ StartTool
    \/ RetryInVain
    \/ \E t \in ToolRuns : BytesRead(t)
    \/ \E t \in ToolRuns : ReadFails(t)
    \/ \E t \in ToolRuns : WorkerPosts(t)
    \/ \E t \in ToolRuns, several \in BOOLEAN : ReceiveResult(t, several)
    \/ \E t \in ToolRuns : WorkerFails(t)
    \/ \E t \in ToolRuns : ZipDone(t)
    \/ \E t \in ToolRuns : ZipFails(t)
    \/ CancelTool

WorkerSpec == WorkerInit /\ [][WorkerNext]_workerVars

-----------------------------------------------------------------------------
\* A run saves once at most, and a run that was cancelled saves nothing unless a Retry
\* took the Cancel back before the run looked; a worker is there exactly while its run
\* waits for it; and a run no Retry was started beside is the only one, with a Cancel
\* that reaches its worker.
CancelReaches ==
    /\ \A t \in ToolRuns : saves[t] <= 1
    /\ \A t \in asked \ revived : saves[t] = 0
    /\ workers = {t \in ToolRuns : place[t] = "working"}
    /\ \A t \in Active \ beside :
          toolBusy /\ Active = {t} /\ (place[t] = "working" => wired = t)

\* Split and PDF to images: Retry never begins a run beside another one, since what fails
\* while a run is under way takes the page count run() asks for.
CountedRunAlone == NeedsCount => beside = {}

\* What is left of Cancel whatever the user starts: it reaches every run but those that
\* Retry started beside each other, and in two of the four tools there are none.
CancelIsHonest == CancelReaches /\ CountedRunAlone
=============================================================================

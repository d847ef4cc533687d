--------------------------- MODULE TransferDialog ---------------------------
(***************************************************************************)
(* The transfer dialog (TransferProgressModal.tsx) over                    *)
(* useTransferOperation.ts, and its two users: the exports of              *)
(* WorkspaceApp.tsx with the download gate of useDownloadGate.ts, and the  *)
(* staff pages' useAdminExport.tsx (apps/web/src/features).                *)
(*                                                                         *)
(* The workspace compiles an export, or converts one in a dialog of its    *)
(* own (ConvertToWordModal.tsx), and saves it on the device; it may then   *)
(* be uploaded and mailed.  The gate asks who the visitor is: one who is   *)
(* not verified is asked for an address first.  The upload itself is       *)
(* MultipartClient's.  The staff pages download an export, which can be    *)
(* cancelled.                                                              *)
(***************************************************************************)
EXTENDS Integers

CONSTANT MaxConversions   \* conversions under way at once (bound)

ASSUME MaxConversions \in Nat

VARIABLES
    host,         \* who uses the dialog: "workspace" or "staff"
    phase,        \* state.phase
    canCancel,    \* state.canCancel
    active,       \* activeRef
    confirming,   \* confirmingCancel
    moved,        \* a quarter is done, or bytes were sent
    exporting,    \* the export that is compiled or downloaded, or NoExport
    stopping,     \* its signal is aborted
    local,        \* localExport: the export saved on the device, or NoExport
    named,        \* transferFile: the export the dialog names, or NoExport
    emailing,     \* emailingCopy
    retry,        \* retryTransfer: the export that can be tried again, or NoExport
    wordOpen,     \* the conversion's dialog is open
    isConverting, \* and says that it converts
    converting,   \* how many conversions are under way
    gate,         \* the gate's promise: "none", "asking", "pending", "upload"
    mailing,      \* the upload submitEmailForDownload waits for
    verifyOpen,   \* the address dialog is open
    left,         \* history: the address dialog was closed under an upload
    stranded,     \* history: an upload failed after the address dialog was gone
    overtaken,      \* history: a conversion was through while something else ran
    unheard       \* history: a Cancel that was offered did nothing

stateVars  == <<phase, canCancel, active, confirming, moved>>
exportVars == <<exporting, stopping>>
fileVars   == <<local, named, emailing, retry>>
wordVars   == <<wordOpen, isConverting, converting>>
uploadVars == <<gate, mailing, verifyOpen>>
pastVars   == <<left, stranded, overtaken, unheard>>
dialogVars == <<host, stateVars, exportVars, fileVars, wordVars, uploadVars, pastVars>>

ActivePhases   == {"preparing", "processing", "uploading", "finalizing", "cancelling"}
TerminalPhases == {"cancelled", "completed", "failed"}
NoExport  == "none"
Compiled  == {"merge", "extract"}

DialogInit ==
    /\ host \in {"workspace", "staff"}
    /\ phase = "idle" /\ canCancel = FALSE /\ active = FALSE
    /\ confirming = FALSE /\ moved = FALSE
    /\ exporting = NoExport /\ stopping = FALSE
    /\ local = NoExport /\ named = NoExport /\ emailing = FALSE /\ retry = NoExport
    /\ wordOpen = FALSE /\ isConverting = FALSE /\ converting = 0
    /\ gate = "none" /\ mailing = FALSE /\ verifyOpen = FALSE
    /\ left = FALSE /\ stranded = FALSE /\ overtaken = FALSE /\ unheard = FALSE

\* succeed, fail, markCancelled.  The dialog drops the question it asks.
Settle(end) ==
    /\ phase' = end /\ canCancel' = FALSE /\ active' = FALSE
    /\ confirming' = FALSE /\ UNCHANGED moved

Reset ==
    /\ phase' = "idle" /\ canCancel' = FALSE /\ active' = FALSE
    /\ confirming' = FALSE /\ moved' = FALSE

\* update
Progress(step, cancel) ==
    phase' = step /\ canCancel' = cancel /\ UNCHANGED <<active, confirming>>

\* What covers the rest of the page.
Shown    == phase # "idle" /\ ~verifyOpen
PageFree == phase = "idle" /\ ~wordOpen

-----------------------------------------------------------------------------
(* The export *)

Begin(export) ==
    /\ exporting = NoExport
    /\ phase' = "processing" /\ canCancel' = (host = "staff") /\ active' = TRUE
    /\ confirming' = FALSE /\ moved' = FALSE
    /\ exporting' = export /\ stopping' = FALSE
    /\ IF host = "staff" THEN UNCHANGED fileVars
       ELSE /\ named' = export /\ retry' = export /\ emailing' = FALSE
            /\ UNCHANGED local
    /\ UNCHANGED <<host, wordVars, uploadVars, pastVars>>

\* handleMergeAndCompile, handleExtractSelected, and the staff pages' run.
BeginExport(export) ==
    /\ PageFree
    /\ export \in IF host = "staff" THEN {"staff"} ELSE Compiled
    /\ Begin(export)

Retry ==
    /\ Shown /\ phase \in {"failed", "cancelled"} /\ retry # NoExport
    /\ Begin(retry)

\* onProgress; canCancel stays as begin left it.
ExportProgress(step) ==
    /\ exporting # NoExport /\ ~stopping
    /\ step = "processing" \/ host = "staff"
    /\ Progress(step, canCancel)
    /\ moved' \in BOOLEAN
    /\ UNCHANGED <<host, exportVars, fileVars, wordVars, uploadVars, pastVars>>

\* finishLocalExport
SaveLocal(export) == local' = export /\ Settle("completed")

\* An aborted download may be through all the same.
EndExport ==
    /\ exporting # NoExport
    /\ \/ /\ IF host = "workspace" THEN SaveLocal(exporting)
             ELSE Settle("completed") /\ UNCHANGED local
       \/ Settle("failed") /\ UNCHANGED local
       \/ stopping /\ Settle("cancelled") /\ UNCHANGED local
    /\ exporting' = NoExport
    /\ UNCHANGED <<host, stopping, named, emailing, retry, wordVars, uploadVars, pastVars>>

-----------------------------------------------------------------------------
(* The conversion to Word *)

OpenWord ==
    /\ host = "workspace" /\ PageFree
    /\ wordOpen' = TRUE /\ isConverting' = FALSE
    /\ UNCHANGED <<host, stateVars, exportVars, fileVars, converting, uploadVars, pastVars>>

\* The effect of the dialog: the files, or how many pages are selected, changed.
WordReset ==
    /\ wordOpen
    /\ isConverting' = FALSE
    /\ UNCHANGED <<host, stateVars, exportVars, fileVars, wordOpen, converting, uploadVars,
                   pastVars>>

CloseWord ==
    /\ wordOpen /\ ~isConverting
    /\ wordOpen' = FALSE
    /\ UNCHANGED <<host, stateVars, exportVars, fileVars, isConverting, converting, uploadVars,
                   pastVars>>

StartConversion ==
    /\ wordOpen /\ ~isConverting
    /\ converting < MaxConversions
    /\ isConverting' = TRUE /\ converting' = converting + 1
    /\ UNCHANGED <<host, stateVars, exportVars, fileVars, wordOpen, uploadVars, pastVars>>

ConversionFails ==
    /\ converting > 0
    /\ converting' = converting - 1 /\ isConverting' = FALSE
    /\ UNCHANGED <<host, stateVars, exportVars, fileVars, wordOpen, uploadVars, pastVars>>

Uploading == gate = "upload" \/ mailing

\* onClose, and then handleWordGatedDownload: begun and saved at once, whatever runs.
ConversionLands ==
    /\ converting > 0
    /\ converting' = converting - 1 /\ isConverting' = FALSE /\ wordOpen' = FALSE
    /\ named' = "word" /\ retry' = NoExport /\ emailing' = FALSE
    /\ SaveLocal("word")
    /\ overtaken' = (overtaken \/ exporting # NoExport \/ gate # "none" \/ mailing)
    /\ UNCHANGED <<host, exportVars, uploadVars, left, stranded, unheard>>

-----------------------------------------------------------------------------
(* The copy by e-mail *)

\* update, not begin: activeRef stays as the export left it.
EmailCopy ==
    /\ Shown /\ phase = "completed" /\ local # NoExport /\ ~emailing
    /\ Progress("preparing", TRUE) /\ moved' = FALSE
    /\ emailing' = TRUE
    /\ gate' = "asking"
    /\ UNCHANGED <<host, exportVars, local, named, retry, wordVars, mailing, verifyOpen,
                   pastVars>>

GateAnswers ==
    /\ gate = "asking"
    /\ \/ gate' = "upload" /\ UNCHANGED <<stateVars, verifyOpen>>
       \/ gate' = "pending" /\ verifyOpen' = TRUE /\ UNCHANGED stateVars
       \/ gate' = "none" /\ Settle("failed") /\ UNCHANGED verifyOpen
    /\ UNCHANGED <<host, exportVars, fileVars, wordVars, mailing, pastVars>>

SubmitEmail ==
    /\ verifyOpen /\ gate = "pending" /\ ~mailing
    /\ mailing' = TRUE
    /\ Progress("preparing", TRUE)
    /\ UNCHANGED <<host, moved, exportVars, fileVars, wordVars, gate, verifyOpen, pastVars>>

\* Mutant of CloseVerify: the rejection does not reach the transfer.
CloseVerifyOnly ==
    /\ verifyOpen
    /\ verifyOpen' = FALSE
    /\ gate' = IF gate = "pending" THEN "none" ELSE gate
    /\ left' = (left \/ mailing)
    /\ UNCHANGED <<host, stateVars, exportVars, fileVars, wordVars, mailing, stranded, overtaken,
                   unheard>>

\* cancelPending rejects, and the transfer is reset; an upload goes on.
CloseVerify ==
    /\ verifyOpen
    /\ verifyOpen' = FALSE
    /\ IF gate = "pending" THEN gate' = "none" /\ Reset
       ELSE UNCHANGED <<gate, stateVars>>
    /\ left' = (left \/ mailing)
    /\ UNCHANGED <<host, exportVars, fileVars, wordVars, mailing, stranded, overtaken, unheard>>

\* handleUploadProgress: the address dialog makes way.
UploadProgress(step) ==
    /\ Uploading
    /\ Progress(step, step # "finalizing")
    /\ moved' \in IF step = "uploading" THEN BOOLEAN ELSE {step = "finalizing"}
    /\ verifyOpen' = FALSE
    /\ UNCHANGED <<host, exportVars, fileVars, wordVars, gate, mailing, pastVars>>

UploadDone ==
    /\ Uploading
    /\ gate' = "none" /\ mailing' = FALSE
    /\ Settle("completed")
    /\ UNCHANGED <<host, exportVars, fileVars, wordVars, verifyOpen, pastVars>>

\* A visitor's address can be tried again as long as its dialog is there: the
\* gate's promise is not rejected, and the transfer is told nothing.
UploadFails ==
    /\ Uploading
    /\ IF mailing
       THEN /\ mailing' = FALSE
            /\ stranded' = (stranded \/ ~verifyOpen)
            /\ UNCHANGED <<stateVars, gate>>
       ELSE gate' = "none" /\ Settle("failed") /\ UNCHANGED <<mailing, stranded>>
    /\ UNCHANGED <<host, exportVars, fileVars, wordVars, verifyOpen, left, overtaken, unheard>>

-----------------------------------------------------------------------------
(* The dialog's buttons *)

\* requestCancel: without an active transfer nothing is done, so cancelUpload, the
\* handler set for the upload, is never called.
RequestCancel ==
    /\ confirming' = FALSE
    /\ IF active
       THEN phase' = "cancelling" /\ stopping' = TRUE /\ UNCHANGED unheard
       ELSE unheard' = TRUE /\ UNCHANGED <<phase, stopping>>
    /\ UNCHANGED <<canCancel, active, moved>>

\* attemptCancel, also by Escape: once something has moved, the first asks.
AttemptCancel ==
    /\ Shown /\ phase \in ActivePhases /\ canCancel
    /\ IF moved /\ ~confirming
       THEN confirming' = TRUE /\ UNCHANGED <<phase, canCancel, active, moved, stopping, unheard>>
       ELSE RequestCancel
    /\ UNCHANGED <<host, exporting, fileVars, wordVars, uploadVars, left, stranded, overtaken>>

KeepGoing ==
    /\ Shown /\ confirming /\ canCancel
    /\ confirming' = FALSE
    /\ UNCHANGED <<host, phase, canCancel, active, moved, exportVars, fileVars, wordVars,
                   uploadVars, pastVars>>

\* closeTransfer; the staff pages only reset.
CloseTransfer ==
    /\ Shown /\ phase \in TerminalPhases
    /\ Reset
    /\ local' = NoExport /\ named' = NoExport /\ emailing' = FALSE /\ retry' = NoExport
    /\ UNCHANGED <<host, exportVars, wordVars, uploadVars, pastVars>>

TransferOffers ==
    \/ Retry
    \/ EmailCopy
    \/ AttemptCancel
    \/ KeepGoing
    \/ CloseTransfer

WordOffers == CloseWord \/ StartConversion

DialogNext ==
    \/ \E export \in Compiled \union {"staff"} : BeginExport(export)
    \/ \E step \in {"processing", "uploading"} : ExportProgress(step)
    \/ EndExport
    \/ OpenWord
    \/ WordReset
    \/ WordOffers
    \/ ConversionFails
    \/ ConversionLands
    \/ GateAnswers
    \/ SubmitEmail
    \/ CloseVerify
    \/ \E step \in {"preparing", "uploading", "finalizing"} : UploadProgress(step)
    \/ UploadDone
    \/ UploadFails
    \/ TransferOffers

DialogSpec == DialogInit /\ [][DialogNext]_dialogVars

-----------------------------------------------------------------------------
\* The gate waits for the account's answer, or for an address that can be given.
Waiting == gate = "asking" \/ (gate = "pending" /\ verifyOpen)

\* While something runs for it the dialog is open, and while the dialog claims
\* that something runs it does; the export it calls ready is the one it saves and
\* mails; and the conversion's dialog says Converting only while it converts.  But
\* for the upload of an address whose dialog was closed under it, the one that
\* fails when that dialog is gone, and a conversion that is through while
\* something else runs.
DialogTellsTruth ==
    \/ left \/ stranded \/ overtaken
    \/ /\ phase \in ActivePhases <=> exporting # NoExport \/ Uploading \/ Waiting
       /\ host = "workspace" /\ phase = "completed" => local = named /\ local # NoExport
       /\ confirming => phase \in ActivePhases
       /\ isConverting => wordOpen /\ converting > 0

\* The comment on requestCancel: a Cancel that is offered, and asks no question,
\* moves the transfer to cancelling and stops what is in flight.
CancelIsHeard == [][AttemptCancel /\ ~confirming' => phase' = "cancelling"]_dialogVars
=============================================================================

------------------------------ MODULE MarkTools ------------------------------
(***************************************************************************)
(* The tools in which the user marks up one file and exports it: redact,   *)
(* forms, annotate, overlay (sign, edit, watermark, page numbers) and      *)
(* links, of apps/web/src/features/tools.                                  *)
(*                                                                         *)
(* Files are numbered as they come; a mark is known by the file that was   *)
(* pickedFile when it was drawn, so the list of marks is the set of those. *)
(* What runs between two awaits is one step.  Every refused value shows an *)
(* error, and an error has a Retry, which does not ask whether the tool is *)
(* busy.                                                                   *)
(***************************************************************************)
EXTENDS Integers

CONSTANTS MaxPicks,      \* files picked or handed over (bound)
          MaxExports     \* exports under way at the same time (bound)

ASSUME MarkAssumption == {MaxPicks, MaxExports} \subseteq Nat

VARIABLES
    mtool,        \* which of the tools it is
    pickedFile,   \* the file in the workbench, NoFile if there is none
    picks,        \* files picked so far
    handoff,      \* the file the workspace handed over, NoFile if none, Sought before
    reading,      \* files an effect is reading
    extracting,   \* files whose existing links are being extracted
    onDisplay,    \* the file whose pages are on display
    marks,        \* the files the marks on the list were drawn on
    confirmed,    \* redact: the file for which the warning was ticked, NoFile if it is not
    verdict,      \* redact: the file whose verification is shown
    complaint,    \* the error shown: what its Retry does, "quiet" without one, or "none"
    exports,      \* the exports under way
    highlighting, \* the file a text highlight is being made for
    markBusy,     \* busy
    stop,         \* cancelledRef
    ready,        \* history: files whose effect has run to its end
    exported      \* history: the last export that was downloaded, Undelivered before

pickVars == <<mtool, pickedFile, picks, handoff>>
loadVars == <<reading, extracting, onDisplay, ready>>
listVars == <<marks, confirmed>>
workVars == <<exports, highlighting, markBusy, stop, exported>>
markVars == <<pickVars, loadVars, listVars, verdict, complaint, workVars>>

MarkTool == {"redact", "forms", "annotate", "overlay", "links"}
NoFile == 0
Sought == -1
Undelivered == [file |-> NoFile, beside |-> FALSE]

MarkInit ==
    /\ mtool \in MarkTool
    /\ pickedFile = NoFile /\ picks = 0
    /\ handoff = IF mtool \in {"redact", "forms"} THEN Sought ELSE NoFile
    /\ reading = {} /\ extracting = {}
    /\ onDisplay = NoFile
    /\ marks = {} /\ confirmed = NoFile
    /\ verdict = NoFile /\ complaint = "none"
    /\ exports = {} /\ highlighting = NoFile /\ markBusy = FALSE /\ stop = FALSE
    /\ ready = {} /\ exported = Undelivered

-----------------------------------------------------------------------------
(* The file in the workbench *)

\* Rendering another file starts its effect; the one before is told it is cancelled.
Brings == /\ picks < MaxPicks
          /\ picks' = picks + 1
          /\ pickedFile' = picks + 1
          /\ reading' = reading \union {picks + 1}

\* onFilesChange: of the overlay tool it is setFiles and no more.
PicksAnew ==
    /\ confirmed' = NoFile /\ verdict' = NoFile
    /\ complaint' = IF mtool = "overlay" THEN complaint ELSE "none"

\* ToolWorkbench takes no file and removes none while the tool is busy.
PickFile ==
    /\ ~markBusy
    /\ Brings
    /\ PicksAnew
    /\ UNCHANGED <<mtool, handoff, extracting, onDisplay, ready, marks, workVars>>

\* Without a file the effect empties the list.
RemovePicked ==
    /\ ~markBusy /\ pickedFile # NoFile
    /\ pickedFile' = NoFile /\ onDisplay' = NoFile
    /\ marks' = {}
    /\ PicksAnew
    /\ UNCHANGED <<mtool, picks, handoff, reading, extracting, ready, workVars>>

\* The handoff replaces whatever is picked, busy or not, and leaves the tick alone.
HandoffArrives ==
    /\ handoff = Sought
    /\ \/ Brings /\ handoff' = pickedFile'
       \/ handoff' = NoFile /\ UNCHANGED <<picks, pickedFile, reading>>
    /\ UNCHANGED <<mtool, extracting, onDisplay, ready, listVars, verdict, complaint, workVars>>

-----------------------------------------------------------------------------
(* The effect that reads the file *)

\* Mutant of StillPicked: no cleanup tells an effect that its file is gone.
LandsAnyway(f) == TRUE

\* `cancelled` of the effect of f.
StillPicked(f) == f = pickedFile

\* The lists a read file empties; the overlay tool keeps its own.
Emptied == IF mtool \in {"redact", "forms", "annotate"} THEN {} ELSE marks

\* The links tool goes on to extract the links of the file.
LoadLands(f) ==
    /\ f \in reading
    /\ reading' = reading \ {f}
    /\ IF StillPicked(f)
       THEN /\ onDisplay' = f
            /\ marks' = Emptied
            /\ confirmed' = NoFile /\ verdict' = NoFile
            /\ complaint' = "none"
            /\ extracting' = IF mtool = "links" THEN extracting \union {f} ELSE extracting
            /\ ready' = IF mtool = "links" THEN ready ELSE ready \union {f}
       ELSE UNCHANGED <<onDisplay, listVars, verdict, complaint, extracting, ready>>
    /\ UNCHANGED <<pickVars, workVars>>

\* The links found replace the list, with what was added meanwhile.
LinksExtracted(f) ==
    /\ f \in extracting
    /\ extracting' = extracting \ {f}
    /\ IF StillPicked(f) THEN marks' \in {{}, {f}} /\ ready' = ready \union {f}
                         ELSE UNCHANGED <<marks, ready>>
    /\ UNCHANGED <<pickVars, reading, onDisplay, confirmed, verdict, complaint, workVars>>

\* The Retry of an error that is not an export's: annotate offers the one of the
\* export, or of the highlight, that failed last, if it is idle.
OffersOf == CASE mtool # "annotate" -> {"export"}
              [] mtool = "annotate" /\ markBusy -> {"quiet"}
              [] OTHER -> {"quiet", "export", "highlight"}

\* A file that cannot be read leaves pages and marks as they were.
LoadFails(f) ==
    /\ f \in reading \union extracting
    /\ reading' = reading \ {f} /\ extracting' = extracting \ {f}
    /\ IF StillPicked(f) THEN complaint' \in OffersOf ELSE UNCHANGED complaint
    /\ UNCHANGED <<pickVars, onDisplay, ready, listVars, verdict, workVars>>

-----------------------------------------------------------------------------
(* Marks *)

Places ==
    /\ pickedFile # NoFile
    /\ marks' = marks \union {pickedFile}
    /\ UNCHANGED <<pickVars, loadVars, confirmed, verdict, workVars>>

\* The value is refused: an error, and with it a Retry.
Refuses ==
    /\ pickedFile # NoFile
    /\ complaint' = "export"
    /\ UNCHANGED <<pickVars, loadVars, listVars, verdict, workVars>>

\* The last mark drawn on a file is removed.
Removes(f) ==
    /\ f \in marks
    /\ marks' = marks \ {f}
    /\ UNCHANGED <<pickVars, loadVars, confirmed, verdict, complaint, workVars>>

\* A page or a size out of range is refused.
AddRegion == \/ Places /\ complaint' = "none"
             \/ Refuses

ConfirmWarning ==
    /\ pickedFile # NoFile
    /\ confirmed' = IF confirmed = NoFile THEN pickedFile ELSE NoFile
    /\ UNCHANGED <<pickVars, loadVars, marks, verdict, complaint, workVars>>

\* All of the redact tool is disabled while it is busy.
RedactOffers ==
    /\ mtool = "redact" /\ ~markBusy
    /\ \/ ConfirmWarning
       \/ AddRegion
       \/ \E f \in marks : Removes(f)

\* So is a name that is no name, or is taken, and a choice without options.
AddField == \/ Places /\ complaint' = "none"
            \/ Refuses

\* moveFieldUp and moveFieldDown change the order only.
FormsOffers ==
    /\ mtool = "forms" /\ ~markBusy
    /\ AddField \/ \E f \in marks : Removes(f)

AddHighlight == ~markBusy /\ Places /\ UNCHANGED complaint

\* addSticky and addComment: also while the tool works.
AddNote == Places /\ UNCHANGED complaint

\* addTextHighlight keeps the tool busy while the text of the page is read.
StartHighlight ==
    /\ pickedFile # NoFile
    /\ highlighting' = pickedFile /\ markBusy' = TRUE
    /\ complaint' = "none"
    /\ UNCHANGED <<pickVars, loadVars, listVars, verdict, exports, stop, exported>>

\* No text in the selection, or no text layer: nothing is added.
EndHighlight ==
    /\ highlighting # NoFile
    /\ highlighting' = NoFile /\ markBusy' = FALSE
    /\ \/ marks' = marks \union {highlighting} /\ complaint' = "none"
       \/ complaint' = "highlight" /\ UNCHANGED marks
    /\ UNCHANGED <<pickVars, loadVars, confirmed, verdict, exports, stop, exported>>

AnnotateOffers ==
    /\ mtool = "annotate"
    /\ \/ AddHighlight
       \/ ~markBusy /\ StartHighlight
       \/ AddNote
       \/ \E f \in marks : Removes(f)

\* addSignatureFromDraw, addTypedSignature and an image.
AddSignature == Places /\ UNCHANGED complaint

\* addText, addShape and addCallout.
AddDrawn == Places /\ UNCHANGED complaint

\* A stroke of one point is refused.
PlaceFreehand == \/ Places /\ complaint' = "none"
                 \/ Refuses

\* The watermark before goes, and may have been the last mark of its file.
ReplaceMark ==
    /\ pickedFile # NoFile
    /\ \E gone \in {{}} \union {{f} : f \in marks} : marks' = (marks \ gone) \union {pickedFile}
    /\ UNCHANGED <<pickVars, loadVars, confirmed, verdict, complaint, workVars>>

\* One for the watermark, one for the page numbers.
AddWatermark   == ReplaceMark
AddPageNumbers == ReplaceMark

\* Once pages are shown, busy or not; the drawing surfaces of each mode.
OverlayOffers ==
    /\ mtool = "overlay" /\ onDisplay # NoFile
    /\ \/ AddSignature
       \/ AddDrawn
       \/ PlaceFreehand
       \/ AddWatermark
       \/ AddPageNumbers
       \/ \E f \in marks : Removes(f)

\* A URI of another scheme, a page or a size out of range is refused.
AddLink == \/ Places /\ complaint' = "none"
           \/ Refuses

\* Every keystroke in a link is taken and clears the error; leaving the field looks
\* at what was typed.
EditLink ==
    /\ marks # {}
    /\ complaint' \in {"none", "export"}
    /\ UNCHANGED <<pickVars, loadVars, listVars, verdict, workVars>>

\* Nothing of the links tool is disabled while it works.
LinksOffers ==
    /\ mtool = "links"
    /\ \/ AddLink
       \/ EditLink
       \/ \E f \in marks : Removes(f)

-----------------------------------------------------------------------------
(* Export: apply, exportPdf, exportFlattened, run and exportWithLinks *)

\* What the function asks for before it starts.
Exportable ==
    /\ pickedFile # NoFile
    /\ mtool \in {"redact", "forms", "overlay"} => marks # {}
    /\ mtool = "redact" => confirmed # NoFile

Free == (1 .. MaxExports) \ {e.id : e \in exports}

\* The file and the marks of the render in which the button was clicked.
Starts ==
    /\ Free # {}
    /\ exports' = {[e EXCEPT !.beside = TRUE] : e \in exports} \union
         {[id |-> CHOOSE i \in Free : TRUE, file |-> pickedFile, marks |-> marks,
           tick |-> confirmed, known |-> pickedFile \in ready, heard |-> FALSE,
           beside |-> exports # {}]}
    /\ stop' = FALSE /\ markBusy' = TRUE
    /\ complaint' = "none" /\ verdict' = NoFile
    /\ UNCHANGED <<pickVars, loadVars, listVars, highlighting, exported>>

\* Mutant of MayExport: the button is not disabled while the tool is busy.
MayExportAlways == Exportable

\* The button.
MayExport ==
    /\ ~markBusy
    /\ Exportable
    /\ mtool = "annotate" => marks # {}

StartExport == MayExport /\ Starts

\* Retry takes the error away and calls the function, busy or not.
RetryExport ==
    /\ complaint = "export"
    /\ IF Exportable THEN Starts
       ELSE /\ complaint' = "none"
            /\ UNCHANGED <<pickVars, loadVars, listVars, verdict, workVars>>

RetryHighlight == complaint = "highlight" /\ StartHighlight

\* Cancel of the progress card.
CancelExport ==
    /\ markBusy /\ exports # {}
    /\ stop' = TRUE
    /\ exports' = {[e EXCEPT !.heard = TRUE] : e \in exports}
    /\ UNCHANGED <<pickVars, loadVars, listVars, verdict, complaint, highlighting, markBusy,
                   exported>>

ExportOver(e) ==
    /\ exports' = exports \ {e}
    /\ markBusy' = FALSE
    /\ UNCHANGED <<pickVars, loadVars, listVars, highlighting, stop>>

\* The flag is looked at after the last await, and then the file is downloaded.
ExportDone(e) ==
    /\ ~stop
    /\ ExportOver(e)
    /\ exported' = e
    /\ verdict' = IF mtool = "redact" THEN e.file ELSE NoFile
    /\ UNCHANGED complaint

\* A look at the flag: the forms tool returns, redact throws, the others do both.
ExportStops(e) ==
    /\ stop
    /\ ExportOver(e)
    /\ \/ mtool # "redact" /\ UNCHANGED complaint
       \/ mtool # "forms" /\ complaint' = "none"
    /\ UNCHANGED <<verdict, exported>>

\* An error after Cancel counts as the cancel in three of the tools.
ExportFails(e) ==
    /\ ExportOver(e)
    /\ complaint' = IF stop /\ mtool \in {"annotate", "overlay", "links"} THEN "none"
                    ELSE "export"
    /\ UNCHANGED <<verdict, exported>>

MarkNext ==
    \/ PickFile
    \/ RemovePicked
    \/ HandoffArrives
    \/ \E f \in 1 .. MaxPicks : LoadLands(f) \/ LinksExtracted(f) \/ LoadFails(f)
    \/ RedactOffers
    \/ FormsOffers
    \/ AnnotateOffers
    \/ OverlayOffers
    \/ LinksOffers
    \/ EndHighlight
    \/ StartExport
    \/ RetryExport
    \/ RetryHighlight
    \/ CancelExport
    \/ \E e \in exports : ExportDone(e) \/ ExportStops(e) \/ ExportFails(e)

MarkSpec == MarkInit /\ [][MarkNext]_markVars

-----------------------------------------------------------------------------
\* Once a file has been read its own pages are on display, until it is replaced, and
\* the verification shown is of no other file, unless the workspace handed it over.  A
\* download was never cancelled and, when its file had been read before the export
\* began, carries no mark drawn on another file (the overlay tool apart, which keeps its
\* overlays for the next file) and was not confirmed for another one: unless Retry had
\* started it beside another export.
MarksFitFile ==
    /\ pickedFile \in ready => onDisplay = pickedFile
    /\ pickedFile \in ready \ {handoff} /\ ~exported.beside =>
          verdict \in {NoFile, pickedFile}
    /\ exported # Undelivered /\ ~exported.beside =>
          /\ ~exported.heard
          /\ exported.known /\ mtool # "overlay" => exported.marks \subseteq {exported.file}
          /\ exported.known /\ mtool = "redact" => exported.tick = exported.file
=============================================================================

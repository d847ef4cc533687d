------------------------------ MODULE TableTool ------------------------------
(***************************************************************************)
(* PDF to Excel: PdfToExcelTool.tsx with ocrGenerationGuard.ts and         *)
(* ocrTables.ts, of apps/web/src/features/tools/pdf-to-excel.              *)
(*                                                                         *)
(* Files are numbered as they come, and so are the runs, by the generation *)
(* they were given.  `cancelled` of the effect and the abort signal of an  *)
(* OCR run are the set `signalled`.  What runs between two awaits is one   *)
(* step.                                                                   *)
(***************************************************************************)
EXTENDS Integers

CONSTANTS MaxSheets,        \* files picked or handed over (bound)
          MaxGens           \* runs of either kind (bound)

ASSUME TableAssumption == MaxSheets \in Nat /\ MaxGens \in Nat

VARIABLES
    inBench,     \* the file in the workbench, NoSource if there is none
    sources,     \* files so far
    handed,      \* the file the workspace handed over, NoSource if none, Awaited before
    gen,         \* the generation guard
    underWay,    \* the runs under way
    signalled,   \* generations told to stop
    busyFlag,    \* busy
    ocrFlag,     \* ocrBusy
    ocrConsent,  \* the file for which the box was ticked, NoSource if it is not
    tables,      \* the file whose tables are listed
    chosen,      \* some table is selected
    lastAction,
    errorShown,
    unread,      \* history: files of which a detection failed
    sent,        \* history: the last page image sent
    book         \* history: the last workbook saved

tableHistory == <<unread, sent, book>>
listing   == <<tables, chosen>>
tableVars == <<inBench, sources, handed, gen, underWay, signalled, busyFlag, ocrFlag,
               ocrConsent, listing, lastAction, errorShown, tableHistory>>

NoSource == 0
Awaited  == -1
NothingYet == [file |-> NoSource]

TableInit ==
    /\ inBench = NoSource /\ sources = 0 /\ handed = Awaited
    /\ gen = 0 /\ underWay = {} /\ signalled = {}
    /\ busyFlag = FALSE /\ ocrFlag = FALSE
    /\ ocrConsent = NoSource
    /\ tables = NoSource /\ chosen = FALSE
    /\ lastAction = "detect" /\ errorShown = FALSE
    /\ unread = {} /\ sent = NothingYet /\ book = NothingYet

\* Mutant of IsCurrent: results are never stale.
NeverStale(run) == TRUE

IsCurrent(run) == run.gen = gen

-----------------------------------------------------------------------------
(* The effect of [file, detectKey], with the cleanup of the one before *)

Detects(file) ==
    /\ gen < MaxGens
    /\ gen' = gen + 1
    /\ signalled' = signalled \union {r.gen : r \in underWay}
    /\ underWay' = underWay \union {[gen |-> gen + 1, kind |-> "detect", file |-> file]}
    /\ busyFlag' = TRUE /\ ocrFlag' = FALSE
    /\ lastAction' = "detect" /\ errorShown' = FALSE

\* The workbench takes and gives up files only while the tool is not busy.
PickSource ==
    /\ ~busyFlag /\ sources < MaxSheets
    /\ inBench' = sources + 1 /\ sources' = sources + 1
    /\ ocrConsent' = NoSource
    /\ Detects(sources + 1)
    /\ UNCHANGED <<handed, listing, tableHistory>>

\* A handoff replaces the file at any time and leaves the tick of the box alone.
HandedOver ==
    /\ handed = Awaited
    /\ \/ /\ sources < MaxSheets
          /\ inBench' = sources + 1 /\ sources' = sources + 1
          /\ handed' = sources + 1
          /\ Detects(sources + 1)
       \/ /\ handed' = NoSource
          /\ UNCHANGED <<inBench, sources, gen, underWay, signalled, busyFlag, ocrFlag,
                         lastAction, errorShown>>
    /\ UNCHANGED <<ocrConsent, listing, tableHistory>>

RemoveSource ==
    /\ ~busyFlag /\ inBench # NoSource /\ gen < MaxGens
    /\ inBench' = NoSource /\ ocrConsent' = NoSource
    /\ gen' = gen + 1
    /\ tables' = NoSource /\ chosen' = FALSE
    /\ ocrFlag' = FALSE /\ errorShown' = FALSE
    /\ UNCHANGED <<sources, handed, underWay, signalled, busyFlag, lastAction,
                   tableHistory>>

\* The detection ends: what it found replaces the list, or an error is shown.
DetectEnds(run, outcome) ==
    /\ run \in underWay /\ run.kind = "detect"
    /\ underWay' = underWay \ {run}
    /\ unread' = IF outcome = "fails" THEN unread \union {run.file} ELSE unread
    /\ IF run.gen \notin signalled /\ IsCurrent(run)
       THEN /\ busyFlag' = FALSE
            /\ IF outcome = "fails" THEN errorShown' = TRUE /\ UNCHANGED listing
               ELSE /\ tables' = run.file /\ chosen' = (outcome = "found")
                    /\ UNCHANGED errorShown
       ELSE UNCHANGED <<busyFlag, listing, errorShown>>
    /\ UNCHANGED <<inBench, sources, handed, gen, signalled, ocrFlag, ocrConsent,
                   lastAction, sent, book>>

-----------------------------------------------------------------------------
(* OCR, with ocrConsent *)

TickConsent ==
    /\ ~busyFlag /\ inBench # NoSource
    /\ ocrConsent' = IF ocrConsent = NoSource THEN inBench ELSE NoSource
    /\ UNCHANGED <<inBench, sources, handed, gen, underWay, signalled, busyFlag, ocrFlag,
                   listing, lastAction, errorShown, tableHistory>>

RunOcrDetect ==
    /\ ~busyFlag /\ gen < MaxGens
    /\ inBench # NoSource /\ ocrConsent # NoSource
    /\ gen' = gen + 1
    /\ underWay' = underWay \union {[gen |-> gen + 1, kind |-> "ocr", file |-> inBench]}
    /\ busyFlag' = TRUE /\ ocrFlag' = TRUE
    /\ lastAction' = "ocr" /\ errorShown' = FALSE
    /\ UNCHANGED <<inBench, sources, handed, signalled, ocrConsent, listing, tableHistory>>

\* Mutant of MaySend: the signal is not looked at between two pages.
SendsOn(run) == TRUE

\* throwIfAborted, before each page.
MaySend(run) == run.gen \notin signalled

SendPage(run) ==
    /\ run \in underWay /\ run.kind = "ocr"
    /\ MaySend(run)
    /\ sent' = [file |-> run.file, seen |-> inBench, tick |-> ocrConsent,
                stopped |-> run.gen \in signalled]
    /\ UNCHANGED <<inBench, sources, handed, gen, underWay, signalled, busyFlag, ocrFlag,
                   ocrConsent, listing, lastAction, errorShown, unread, book>>

\* The run returns its tables, throws, or finds itself aborted.
OcrEnds(run, outcome) ==
    /\ run \in underWay /\ run.kind = "ocr"
    /\ underWay' = underWay \ {run}
    /\ IF IsCurrent(run)
       THEN /\ busyFlag' = FALSE /\ ocrFlag' = FALSE
            /\ CASE run.gen \in signalled -> UNCHANGED <<listing, errorShown>>
                 [] run.gen \notin signalled /\ outcome = "fails" ->
                        errorShown' = TRUE /\ UNCHANGED listing
                 [] OTHER -> /\ tables' = run.file /\ chosen' = (outcome = "found")
                             /\ UNCHANGED errorShown
       ELSE UNCHANGED <<busyFlag, ocrFlag, listing, errorShown>>
    /\ UNCHANGED <<inBench, sources, handed, gen, signalled, ocrConsent, lastAction,
                   tableHistory>>

CancelOcr ==
    /\ ocrFlag
    /\ signalled' = signalled \union
                      {r.gen : r \in {q \in underWay : q.kind = "ocr" /\ IsCurrent(q)}}
    /\ UNCHANGED <<inBench, sources, handed, gen, underWay, busyFlag, ocrFlag, ocrConsent,
                   listing, lastAction, errorShown, tableHistory>>

-----------------------------------------------------------------------------
(* Export and retry *)

Toggle ==
    /\ ~busyFlag /\ tables # NoSource
    /\ chosen' = ~chosen
    /\ UNCHANGED <<inBench, sources, handed, gen, underWay, signalled, busyFlag, ocrFlag,
                   ocrConsent, tables, lastAction, errorShown, tableHistory>>

\* One step: nothing is handed.
ExportXlsx ==
    /\ ~busyFlag /\ inBench # NoSource /\ chosen
    /\ lastAction' = "export"
    /\ \/ book' = [file |-> inBench, tables |-> tables] /\ errorShown' = FALSE
       \/ errorShown' = TRUE /\ UNCHANGED book
    /\ UNCHANGED <<inBench, sources, handed, gen, underWay, signalled, busyFlag, ocrFlag,
                   ocrConsent, listing, unread, sent>>

\* detectKey changes and the effect runs again; the error goes, and what the other two
\* do then is what their buttons do.
RetryLast ==
    /\ errorShown
    /\ IF lastAction = "detect" THEN Detects(inBench)
       ELSE /\ errorShown' = FALSE
            /\ UNCHANGED <<gen, underWay, signalled, busyFlag, ocrFlag, lastAction>>
    /\ UNCHANGED <<inBench, sources, handed, ocrConsent, listing, tableHistory>>

TableNext ==
    \/ PickSource
    \/ HandedOver
    \/ RemoveSource
    \/ \E run \in underWay : \/ \E outcome \in {"found", "empty", "fails"} :
                                 DetectEnds(run, outcome) \/ OcrEnds(run, outcome)
                           \/ SendPage(run)
    \/ TickConsent
    \/ RunOcrDetect
    \/ CancelOcr
    \/ Toggle
    \/ ExportXlsx
    \/ RetryLast

TableSpec == TableInit /\ [][TableNext]_tableVars

-----------------------------------------------------------------------------
\* Whatever order detections, OCR runs, cancels and new files come in: the tool is busy
\* exactly while the run of the current generation is under way; a workbook holds the
\* tables of the file it is named after, unless a detection of that file failed (the
\* list of the file before is then still there); and a page image is sent only of the
\* file in the workbench, before Cancel, with the box ticked (for that file, unless a
\* handoff brought it).
TablesOfFile ==
    /\ busyFlag <=> \E run \in underWay : IsCurrent(run)
    /\ book # NothingYet /\ book.file \notin unread => book.tables = book.file
    /\ sent # NothingYet =>
          /\ ~sent.stopped /\ sent.seen = sent.file
          /\ sent.tick # NoSource
          /\ sent.file # handed => sent.tick = sent.file
=============================================================================

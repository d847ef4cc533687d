------------------------------ MODULE ToolRuns -------------------------------
(***************************************************************************)
(* The tools that turn picked files into one download at the push of a     *)
(* button, of apps/web/src/features/tools: what they share (ToolWorkbench, *)
(* useToolHandoff, the run with its cancel flag and its Retry) as actions, *)
(* and what tells them apart as one profile per tool.                      *)
(*                                                                         *)
(* Files are numbered as they come.  What runs between two awaits is one   *)
(* step; the flag is looked at after every await of a run.  The start field*)
(* of the Bates tool is moved by its runs only: what the user types into it*)
(* is left out.                                                            *)
(***************************************************************************)
EXTENDS Integers, Sequences, FiniteSets, SequencesExt

CONSTANTS MaxShelf,       \* files picked or handed over (bound)
          MaxNumber,      \* no run starts from a Bates number beyond it (bound)
          MaxAtOnce       \* runs under way at the same time (bound)

ASSUME RunsAssumption == {MaxShelf, MaxNumber, MaxAtOnce} \subseteq Nat

Numbers  == 1 .. MaxShelf
NoPdf    == 0
LookedUp == -1

-----------------------------------------------------------------------------
(* One profile per tool *)

\* reads: what the run takes from the effect that reads the first file: nothing, the
\* bytes, or the pages to work on; "count" is an effect whose result no run needs,
\* "reset" one that only takes the error away.
\* keeps: a file that cannot be read leaves that as it was.  box: a box must be ticked.
\* least, many: how many files it needs, and whether it takes a list.  clears: a change
\* of the list takes the error away.  cancels: the progress card has a Cancel.  handed:
\* the workspace may hand over a file.  result: a download, a download that moves the
\* stored number, or a preview.
Plain == [reads |-> "nothing", keeps |-> FALSE, box |-> FALSE, least |-> 1, many |-> FALSE,
          clears |-> FALSE, cancels |-> TRUE, handed |-> FALSE, result |-> "download"]

Reader   == [Plain EXCEPT !.reads = "pages"]
Asks     == [Plain EXCEPT !.box = TRUE, !.clears = TRUE]

Crop     == [Plain EXCEPT !.reads = "bytes", !.handed = TRUE]
Resize   == [Plain EXCEPT !.reads = "bytes", !.handed = TRUE]
SplitUp  == Reader
Extract  == [Reader EXCEPT !.keeps = TRUE]
ToImages == [Reader EXCEPT !.clears = TRUE]
Pptx     == [Reader EXCEPT !.keeps = TRUE, !.handed = TRUE, !.clears = TRUE]
Bates    == [Reader EXCEPT !.handed = TRUE, !.many = TRUE, !.clears = TRUE,
                           !.result = "numbers"]
Merged   == [Plain EXCEPT !.least = 2, !.many = TRUE]
Pictures == [Plain EXCEPT !.many = TRUE]
Rotate   == Plain
Compress == [Plain EXCEPT !.reads = "count"]
Protect  == Plain
Unlock   == Plain
Flatten  == [Asks EXCEPT !.handed = TRUE]
Office   == [Asks EXCEPT !.cancels = FALSE]
CertSign == [Asks EXCEPT !.cancels = FALSE, !.handed = TRUE]
Epub     == [Plain EXCEPT !.reads = "reset", !.handed = TRUE]
Html     == [Plain EXCEPT !.reads = "reset", !.handed = TRUE, !.clears = TRUE,
                          !.result = "preview"]

Tools == {Crop, Resize, SplitUp, Extract, ToImages, Pptx, Bates, Merged, Pictures, Rotate,
          Compress, Protect, Unlock, Flatten, Office, CertSign, Epub, Html}

-----------------------------------------------------------------------------
VARIABLES
    profile,     \* which tool it is
    broken,      \* the files that cannot be read
    shelf,       \* the files in the workbench, in order
    shelved,     \* files so far
    handedIn,    \* the file the workspace handed over, NoPdf if none, LookedUp before
    opening,     \* files an effect is reading
    known,       \* the file whose bytes or pages the tool has, NoPdf if none
    ticked,      \* the file for which the box was ticked, NoPdf if it is not
    runs,        \* the runs under way
    flag,        \* cancelledRef
    busyMark,    \* busy
    failed,      \* an error with its Retry is shown
    preview,     \* the file whose preview is shown
    startField,  \* Bates: the number in the start field
    savedNext,   \* Bates: the number in storage
    download,    \* history: the last download
    stamped      \* history: the number after the last one downloaded

runHistory == <<download, stamped>>
given      == <<profile, broken>>
numbering  == <<startField, savedNext, runHistory>>
bench      == <<shelf, shelved, handedIn, opening>>
runVars == <<given, bench, known, ticked, runs, flag, busyMark, failed, preview,
             numbering>>

NoDownload == [files |-> <<>>, content |-> <<>>, pages |-> NoPdf, tick |-> NoPdf,
               heard |-> FALSE, early |-> FALSE, swapped |-> FALSE, beside |-> FALSE,
               first |-> 0, again |-> FALSE]

NoPreview == [file |-> NoPdf, swapped |-> FALSE]

RunsInit ==
    /\ profile \in Tools /\ broken \in SUBSET Numbers
    /\ shelf = <<>> /\ shelved = 0 /\ handedIn = IF profile.handed THEN LookedUp ELSE NoPdf
    /\ opening = {} /\ known = NoPdf /\ ticked = NoPdf
    /\ runs = {} /\ flag = FALSE /\ busyMark = FALSE /\ failed = FALSE
    /\ preview = NoPreview
    /\ startField = 1 /\ savedNext = 1
    /\ download = NoDownload /\ stamped = 1

First == IF shelf = <<>> THEN NoPdf ELSE Head(shelf)

-----------------------------------------------------------------------------
(* The workbench and the handoff *)

\* A new first file starts its effect; html drops its preview and its error.
ShowsFirst(files) ==
    /\ shelf' = files
    /\ LET first == IF files = <<>> THEN NoPdf ELSE Head(files) IN
       /\ opening' = IF profile.reads \notin {"nothing", "reset"} /\ first \notin {First, NoPdf}
                     THEN opening \union {first} ELSE opening
       /\ known' = IF first = NoPdf THEN NoPdf ELSE known
       /\ preview' = IF first = First THEN preview ELSE NoPreview

\* onFilesChange.
ListChanged ==
    /\ ticked' = NoPdf
    /\ failed' = (failed /\ ~profile.clears /\ profile.reads # "reset")

\* Not while the tool is busy; the box is cleared by every change of the list.
AddFile ==
    /\ ~busyMark /\ shelved < MaxShelf
    /\ shelved' = shelved + 1
    /\ ShowsFirst(IF profile.many THEN Append(shelf, shelved + 1) ELSE <<shelved + 1>>)
    /\ ListChanged
    /\ UNCHANGED <<given, handedIn, runs, flag, busyMark, numbering>>

TakeAway(i) ==
    /\ ~busyMark /\ i \in DOMAIN shelf
    /\ ShowsFirst(RemoveAt(shelf, i))
    /\ ListChanged
    /\ UNCHANGED <<given, shelved, handedIn, runs, flag, busyMark, numbering>>

\* At any time, busy or not, and the box stays as it is.
Handed ==
    /\ handedIn = LookedUp
    /\ \/ /\ shelved < MaxShelf
          /\ shelved' = shelved + 1 /\ handedIn' = shelved + 1
          /\ ShowsFirst(<<shelved + 1>>)
          /\ runs' = {[r EXCEPT !.swapped = TRUE] : r \in runs}
          /\ failed' = (failed /\ profile.reads # "reset")
       \/ /\ handedIn' = NoPdf
          /\ UNCHANGED <<shelf, shelved, opening, known, preview, runs, failed>>
    /\ UNCHANGED <<given, ticked, flag, busyMark, numbering>>

\* Mutant of StillFirst: an effect whose file is gone goes on.
GoesOn(f) == TRUE

\* `cancelled` of the effect of f.
StillFirst(f) == f = First

EffectEnds(f) ==
    /\ f \in opening
    /\ opening' = opening \ {f}
    /\ IF ~StillFirst(f) THEN UNCHANGED <<known, failed>>
       ELSE IF f \in broken
            THEN /\ failed' = TRUE
                 /\ known' = IF profile.keeps THEN known ELSE NoPdf
            ELSE known' = f /\ failed' = FALSE
    /\ UNCHANGED <<given, shelf, shelved, handedIn, ticked, runs, flag, busyMark, preview,
                   numbering>>

\* Retry of Bates reads a file again that could not be read.
ReadAgain ==
    /\ profile.result = "numbers" /\ failed /\ known = NoPdf
    /\ failed' = FALSE
    /\ opening' = IF First = NoPdf THEN opening ELSE opening \union {First}
    /\ UNCHANGED <<given, shelf, shelved, handedIn, known, ticked, runs, flag, busyMark,
                   preview, numbering>>

TickBox ==
    /\ profile.box /\ ~busyMark /\ First # NoPdf
    /\ ticked' = IF ticked = NoPdf THEN First ELSE NoPdf
    /\ UNCHANGED <<given, bench, known, runs, flag, busyMark, failed, preview, numbering>>

-----------------------------------------------------------------------------
(* run *)

\* What the run works on is fixed by the click.  Retry asks for no more than run does:
\* it may find another run under way.
StartRun ==
    /\ ~busyMark \/ failed
    /\ startField <= MaxNumber /\ Cardinality(runs) < MaxAtOnce
    /\ Len(shelf) >= profile.least
    /\ profile.reads \in {"bytes", "pages"} => known # NoPdf
    /\ profile.box => ticked # NoPdf
    /\ flag' = FALSE /\ busyMark' = TRUE /\ failed' = FALSE
    /\ runs' = {[r EXCEPT !.beside = TRUE] : r \in runs} \union
         {[files |-> shelf, content |-> IF profile.reads = "bytes" THEN <<known>> ELSE shelf,
           pages |-> IF profile.reads = "pages" THEN known ELSE NoPdf,
           tick |-> ticked, at |-> 1, heard |-> FALSE, early |-> First \in opening,
           swapped |-> FALSE, beside |-> runs # {}, first |-> startField,
           again |-> FALSE]}
    /\ UNCHANGED <<given, bench, known, ticked, preview, numbering>>

PressCancel ==
    /\ runs # {} /\ busyMark /\ profile.cancels
    /\ flag' = TRUE
    /\ runs' = {[r EXCEPT !.heard = TRUE] : r \in runs}
    /\ UNCHANGED <<given, bench, known, ticked, busyMark, failed, preview, numbering>>

\* The loop over the files; a file that cannot be read ends it.
NextFile(r) ==
    /\ r.at < Len(r.content) /\ r.content[r.at] \notin broken
    /\ ~flag
    /\ runs' = (runs \ {r}) \union {[r EXCEPT !.at = @ + 1]}
    /\ UNCHANGED <<given, bench, known, ticked, flag, busyMark, failed, preview,
                   numbering>>

RunOver(r) == runs' = runs \ {r} /\ busyMark' = FALSE

\* Mutant of MayDeliver: the flag is not looked at after the last await.
DeliversAnyway(r) == r.at = Len(r.content) /\ r.content[r.at] \notin broken

MayDeliver(r) == r.at = Len(r.content) /\ r.content[r.at] \notin broken /\ ~flag

\* The number after the last page stamped, one page to a file.
NumberAfter(r) == r.first + Len(r.content)

Download(d) ==
    /\ download' = [d EXCEPT !.again = d.first < stamped]
    /\ IF profile.result = "numbers"
       THEN savedNext' = NumberAfter(d) /\ startField' = savedNext' /\ stamped' = savedNext'
       ELSE UNCHANGED <<savedNext, startField, stamped>>

\* A download, and for Bates the next number to the storage and to the field.
Deliver(r) ==
    /\ MayDeliver(r)
    /\ RunOver(r)
    /\ IF profile.result = "preview"
       THEN /\ preview' = [file |-> Head(r.content), swapped |-> r.swapped]
            /\ UNCHANGED numbering
       ELSE Download(r) /\ UNCHANGED preview
    /\ UNCHANGED <<given, bench, known, ticked, flag, failed>>

\* Something throws, or the server refuses.
RunFails(r) ==
    /\ RunOver(r)
    /\ failed' = TRUE
    /\ preview' = NoPreview
    /\ UNCHANGED <<given, bench, known, ticked, flag, numbering>>

\* The run comes to a look at the flag.
RunStops(r) ==
    /\ flag
    /\ RunOver(r)
    /\ UNCHANGED <<given, bench, known, ticked, flag, failed, preview, numbering>>

\* Download .html takes the preview and the name of the file in the workbench.
DownloadPreview ==
    /\ ~busyMark /\ preview # NoPreview /\ First # NoPdf
    /\ download' = [NoDownload EXCEPT !.files = shelf, !.content = <<preview.file>>,
                             !.swapped = preview.swapped]
    /\ UNCHANGED <<given, bench, known, ticked, runs, flag, busyMark, failed, preview,
                   startField, savedNext, stamped>>

\* The page is left and opened again: what was not stored is gone.
Reopen ==
    /\ runs = {} /\ profile.result = "numbers"
    /\ startField' = savedNext
    /\ shelf' = <<>> /\ opening' = {} /\ known' = NoPdf /\ failed' = FALSE
    /\ UNCHANGED <<given, shelved, handedIn, ticked, runs, flag, busyMark, preview,
                   savedNext, runHistory>>

RunsNext ==
    \/ AddFile
    \/ \E i \in Numbers : TakeAway(i)
    \/ Handed
    \/ \E f \in Numbers : EffectEnds(f)
    \/ ReadAgain
    \/ TickBox
    \/ StartRun
    \/ PressCancel
    \/ \E r \in runs : NextFile(r) \/ Deliver(r) \/ RunFails(r) \/ RunStops(r)
    \/ DownloadPreview
    \/ Reopen

RunsSpec == RunsInit /\ [][RunsNext]_runVars

-----------------------------------------------------------------------------
\* A download was never cancelled, holds the files it is named after, whose pages were
\* selected and whose box was ticked (for that file, unless a handoff brought it), unless
\* the button was pushed while the file was still being read, a handoff replaced the file
\* during the run, or Retry started a run beside another; and no Bates number is given
\* out twice, across downloads, cancelled runs and visits.
DownloadFitsFiles ==
    LET d == download IN
    d.files # <<>> /\ ~d.early /\ ~d.swapped /\ ~d.beside =>
        /\ ~d.heard
        /\ d.content = d.files
        /\ d.pages \in {NoPdf, Head(d.files)}
        /\ profile.box /\ Head(d.files) # handedIn => d.tick = Head(d.files)
        /\ profile.result = "numbers" => ~d.again
=============================================================================

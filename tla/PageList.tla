------------------------------ MODULE PageList ------------------------------
(***************************************************************************)
(* The pages of the workspace: the handlers of WorkspaceApp.tsx            *)
(* (apps/web/src/features/workspace) that change files, fileStore, pages   *)
(* and the selection, the full-screen preview, and what the page cards,    *)
(* the bulk controls, the sidebar and the header offer of them.  How far a *)
(* page is turned and the colour of its file are left out.                 *)
(*                                                                         *)
(* React renders what a user's event sets at once, and what an upload that *)
(* has finished parsing sets some time later: until then pagesRef shows    *)
(* the pages of the last render.  An update given as a function is applied *)
(* to both; an update given as a value replaces what is pending.           *)
(***************************************************************************)
EXTENDS Integers, Sequences, FiniteSets, SequencesExt

CONSTANTS
    PdfFiles,     \* files that can be uploaded
    FilePages,    \* how many pages each has
    MaxPages      \* pages that may be made, copies and blanks included (bound)


VARIABLES
    pages,        \* the page list with every update applied
    shown,        \* the page list of the last render
    origin,       \* the file each page came from
    fileStore,    \* the files, and their bytes
    selection,
    lastSelected, \* lastSelectedIndexRef: the index of the page last selected, or 0
    upload,       \* per file: "new", "parsing" or "over", and where its pages go
    insertAt,     \* insertTargetRef: the page uploads go before or after, or Nowhere
    viewing,      \* fullscreenPageId: the page in the full-screen preview, or NoPage
    screen,       \* isLoading, the page whose picture is there, and those rendered
    kept,         \* history: pages made and not deleted
    staleDrop     \* history: cards were dropped while an upload was not yet shown

picked   == <<selection, lastSelected>>
viewed   == <<viewing, screen>>
pageVars == <<pages, shown, origin, fileStore, picked, upload, insertAt, viewed, kept,
              staleDrop>>

Pages   == 1 .. MaxPages
NoPage  == 0
BlankPage == "blank"
Unmade  == "none"
ASSUME FilePagesAssumption ==
    /\ FilePages \in [PdfFiles -> Nat] /\ MaxPages \in Nat
    /\ Unmade \notin PdfFiles

Nowhere == [page |-> NoPage, side |-> "before"]
NotShowing == [loading |-> FALSE, picture |-> NoPage, rendering |-> {}]

PageInit ==
    /\ pages = <<>> /\ shown = <<>>
    /\ origin = [p \in Pages |-> Unmade]
    /\ fileStore = {}
    /\ selection = {} /\ lastSelected = 0
    /\ upload = [f \in PdfFiles |-> [at |-> "new", target |-> Nowhere]]
    /\ insertAt = Nowhere
    /\ viewing = NoPage /\ screen = NotShowing
    /\ kept = {}
    /\ staleDrop = FALSE

Fresh  == {p \in Pages : origin[p] = Unmade}
Made(n) == {p \in Fresh : Cardinality({q \in Fresh : q < p}) < n}

\* The numbers of a set, the least one first.
InOrder(S) == [k \in 1 .. Cardinality(S) |->
                  CHOOSE i \in S : Cardinality({j \in S : j <= i}) = k]

\* filter
Only(seq, P) == LET at == InOrder({i \in DOMAIN seq : seq[i] \in P})
                IN  [k \in DOMAIN at |-> seq[at[k]]]
Without(seq, P) == Only(seq, ToSet(seq) \ P)

IndexIn(seq, p)  == CHOOSE i \in 1 .. Len(seq) : seq[i] = p
Splice(seq, i, new) == SubSeq(seq, 1, i) \o new \o SubSeq(seq, i + 1, Len(seq))
PutBeside(seq, p, side, new) ==
    Splice(seq, IF side = "before" THEN IndexIn(seq, p) - 1 ELSE IndexIn(seq, p), new)

\* The effect of the preview: a picture of the page is rendered, the last one is
\* covered.
Rendering(p) ==
    [loading |-> TRUE, picture |-> NoPage, rendering |-> screen.rendering \union {p}]

-----------------------------------------------------------------------------
(* Uploading *)

\* handleTriggerInsertImage.  The picker may be closed without choosing a file: the
\* target stays set.
InsertImage(p, side) ==
    /\ insertAt' = [page |-> p, side |-> side]
    /\ UNCHANGED <<pages, shown, origin, fileStore, picked, upload, viewed, kept, staleDrop>>

\* Chosen in a picker, or dropped on the page.
Pick(f) ==
    /\ upload[f].at = "new"
    /\ upload' = [upload EXCEPT ![f] = [at |-> "parsing", target |-> insertAt]]
    /\ insertAt' = Nowhere
    /\ UNCHANGED <<pages, shown, origin, fileStore, picked, viewed, kept, staleDrop>>

UploadEnds(f) ==
    /\ upload[f].at = "parsing"
    /\ upload' = [upload EXCEPT ![f] = [at |-> "over", target |-> Nowhere]]

\* The page the upload was meant for may be gone: at the end, then.  A preview is
\* rendered again from the new fileStore.
FinishUpload(f) ==
    LET new == Made(FilePages[f])
        target == upload[f].target
    IN
    /\ Cardinality(new) = FilePages[f]
    /\ UploadEnds(f)
    /\ fileStore' = fileStore \union {f}
    /\ origin' = [p \in Pages |-> IF p \in new THEN f ELSE origin[p]]
    /\ pages' = IF target.page \in ToSet(pages)
                THEN PutBeside(pages, target.page, target.side, InOrder(new))
                ELSE pages \o InOrder(new)
    /\ kept' = kept \union new
    /\ screen' = IF viewing = NoPage THEN screen ELSE Rendering(viewing)
    /\ UNCHANGED <<shown, picked, insertAt, viewing, staleDrop>>

\* The file is of another kind or cannot be parsed: a toast, and nothing else.
RefuseFile(f) ==
    /\ UploadEnds(f)
    /\ UNCHANGED <<pages, shown, origin, fileStore, picked, insertAt, viewed, kept, staleDrop>>

Render ==
    /\ shown # pages
    /\ shown' = pages
    /\ UNCHANGED <<pages, origin, fileStore, picked, upload, insertAt, viewed, kept, staleDrop>>

-----------------------------------------------------------------------------
(* Selecting *)

SelectPage(p) ==
    /\ IF p \in selection
       THEN selection' = selection \ {p} /\ UNCHANGED lastSelected
       ELSE selection' = selection \union {p} /\ lastSelected' = IndexIn(shown, p)
    /\ UNCHANGED <<pages, shown, origin, fileStore, upload, insertAt, viewed, kept, staleDrop>>

\* The page is loaded anew, and nothing of the workspace is kept.
StartOver ==
    /\ pages' = <<>> /\ shown' = <<>> /\ fileStore' = {} /\ kept' = {}
    /\ selection' = {} /\ lastSelected' = 0 /\ insertAt' = Nowhere
    /\ viewing' = NoPage /\ screen' = NotShowing
    /\ upload' = [f \in PdfFiles |->
          IF upload[f].at = "parsing" THEN [at |-> "over", target |-> Nowhere] ELSE upload[f]]
    /\ UNCHANGED <<origin, staleDrop>>

\* With shift: the pages from the one last selected to this one.  The index is not
\* kept in step with the list: beyond its end the handler throws, and the page
\* starts again with nothing.
SelectRange(p) ==
    LET i == IndexIn(shown, p)
        between == (lastSelected .. i) \union (i .. lastSelected)
    IN
    /\ lastSelected # 0
    /\ IF lastSelected <= Len(shown)
       THEN /\ selection' = selection \union {shown[j] : j \in between}
            /\ UNCHANGED <<pages, shown, origin, fileStore, lastSelected, upload, insertAt,
                           viewed, kept, staleDrop>>
       ELSE StartOver

SelectOnly(P) ==
    /\ selection # P
    /\ selection' = P
    /\ UNCHANGED <<pages, shown, origin, fileStore, lastSelected, upload, insertAt, viewed, kept,
                   staleDrop>>

SelectAll   == SelectOnly(ToSet(shown))
DeselectAll == SelectOnly({})

-----------------------------------------------------------------------------
(* The full-screen preview *)

OpenPreview(p) ==
    /\ viewing' = p
    /\ screen' = Rendering(p)
    /\ UNCHANGED <<pages, shown, origin, fileStore, picked, upload, insertAt, kept, staleDrop>>

\* To the page at an index of the list as it is now.
Navigate(i) ==
    /\ i \in 1 .. Len(shown)
    /\ viewing' = shown[i]
    /\ screen' = Rendering(shown[i])
    /\ UNCHANGED <<pages, shown, origin, fileStore, picked, upload, insertAt, kept, staleDrop>>

ClosePreview ==
    /\ viewing' = NoPage /\ screen' = NotShowing
    /\ UNCHANGED <<pages, shown, origin, fileStore, picked, upload, insertAt, kept, staleDrop>>

\* Mutant of IsMounted: a picture is shown whatever the page.
MountedAnyway(p) == TRUE

\* isMounted: the effect that asked for the picture has not been cleaned up.
IsMounted(p) == p = viewing

\* The picture is rendered, or the thumbnail stands in for it.
PreviewLands(p) ==
    /\ p \in screen.rendering
    /\ screen' = IF IsMounted(p) THEN [loading |-> FALSE, picture |-> p,
                                       rendering |-> screen.rendering \ {p}]
                 ELSE [screen EXCEPT !.rendering = @ \ {p}]
    /\ UNCHANGED <<pages, shown, origin, fileStore, picked, upload, insertAt, viewing, kept,
                   staleDrop>>

-----------------------------------------------------------------------------
(* Ordering *)

\* The remaining pages with the selected ones before the page dropped on, or at its
\* index when that page is itself selected.
MovedTogether(seq, target) ==
    LET rest == Without(seq, selection)
        at == IF seq[target] \in selection THEN target - 1
              ELSE IndexIn(rest, seq[target]) - 1
    IN  Splice(rest, IF at > Len(rest) THEN Len(rest) ELSE at, Only(seq, selection))

MovedAlone(seq, source, target) ==
    Splice(Without(seq, {seq[source]}), target - 1, <<seq[source]>>)

\* handleCardDrop: a value, made from the pages shown.  A page dropped where it was
\* changes nothing.
DropCard(source, target) ==
    LET dropped == IF shown[source] \in selection THEN MovedTogether(shown, target)
                   ELSE MovedAlone(shown, source, target)
    IN
    /\ shown[source] \in selection \/ source # target
    /\ pages' = dropped /\ shown' = dropped
    /\ staleDrop' = (staleDrop \/ shown # pages)
    /\ UNCHANGED <<origin, fileStore, picked, upload, insertAt, viewed, kept>>

\* handlePageMoveTo
Moved(seq, p, target) == IF p \in ToSet(seq) /\ target <= Len(seq)
                         THEN MovedAlone(seq, IndexIn(seq, p), target) ELSE seq

MovePageTo(p, target) ==
    /\ pages' = Moved(pages, p, target) /\ shown' = Moved(shown, p, target)
    /\ UNCHANGED <<origin, fileStore, picked, upload, insertAt, viewed, kept, staleDrop>>

\* Mutant of SelectedAt: the page at the target is skipped.
SelectedAtSkipping(seq, target) ==
    LET rest == Without(seq, selection)
        at == IF target > Len(rest) THEN Len(rest) ELSE target
    IN  SubSeq(rest, 1, at) \o Only(seq, selection) \o SubSeq(rest, at + 2, Len(rest))

\* clampedTarget
SelectedAt(seq, target) ==
    LET rest == Without(seq, selection)
    IN  Splice(rest, IF target > Len(rest) THEN Len(rest) ELSE target,
               Only(seq, selection))

\* handleMoveSelectedTo
MoveSelectedTo(target) ==
    /\ pages' = SelectedAt(pages, target) /\ shown' = SelectedAt(shown, target)
    /\ UNCHANGED <<origin, fileStore, picked, upload, insertAt, viewed, kept, staleDrop>>

-----------------------------------------------------------------------------
(* Deleting, copying, blanks *)

Delete(P) ==
    /\ pages' = Without(pages, P) /\ shown' = Without(shown, P)
    /\ selection' = selection \ P
    /\ kept' = kept \ P

DeletePages(P) ==
    /\ Delete(P)
    /\ UNCHANGED <<origin, fileStore, lastSelected, upload, insertAt, viewed, staleDrop>>

DeletePage(p)  == DeletePages({p})
DeleteSelected == DeletePages(selection)

\* Every page followed by its copy; a page without one by none.
Copied(seq, copyOf) ==
    LET doubled == [k \in 1 .. 2 * Len(seq) |->
                       IF k % 2 = 1 THEN seq[(k + 1) \div 2] ELSE copyOf[seq[k \div 2]]]
    IN  Only(doubled, Pages)

\* The copies are made in the list's order; what is gone has none.
Duplicate(P) ==
    LET copies == Made(Cardinality(P))
        originals == Only(pages, P)
        copyOf == [p \in Pages |->
                      IF p \in P THEN InOrder(copies)[IndexIn(originals, p)] ELSE NoPage]
    IN
    /\ Cardinality(copies) = Cardinality(P) /\ P \subseteq ToSet(pages)
    /\ pages' = Copied(pages, copyOf) /\ shown' = Copied(shown, copyOf)
    /\ origin' = [q \in Pages |-> IF q \in copies
                                  THEN origin[CHOOSE p \in P : copyOf[p] = q] ELSE origin[q]]
    /\ kept' = kept \union copies
    /\ UNCHANGED <<fileStore, picked, upload, insertAt, viewed, staleDrop>>

DuplicatePage(p)  == Duplicate({p})
DuplicateSelected == Duplicate(selection)

\* makeBlank
MakeBlank ==
    LET blank == Made(1) IN
    /\ blank # {}
    /\ origin' = [q \in Pages |-> IF q \in blank THEN BlankPage ELSE origin[q]]
    /\ kept' = kept \union blank
    /\ UNCHANGED <<fileStore, picked, upload, insertAt, viewed, staleDrop>>

AddBlankPage ==
    /\ pages' = pages \o InOrder(Made(1)) /\ shown' = shown \o InOrder(Made(1))
    /\ MakeBlank

InsertBlankPage(p, side) ==
    /\ p \in ToSet(pages)
    /\ pages' = PutBeside(pages, p, side, InOrder(Made(1)))
    /\ shown' = PutBeside(shown, p, side, InOrder(Made(1)))
    /\ MakeBlank

\* Every page of the file goes, copies included, and then its bytes.
RemoveFile(f) ==
    /\ f \in fileStore
    /\ Delete({p \in Pages : origin[p] = f})
    /\ fileStore' = fileStore \ {f}
    /\ UNCHANGED <<origin, lastSelected, upload, insertAt, viewed, staleDrop>>

\* Once it is confirmed.  Uploads under way are not stopped.
ClearAll ==
    /\ Delete(Pages)
    /\ fileStore' = {}
    /\ UNCHANGED <<origin, lastSelected, upload, insertAt, viewed, staleDrop>>

\* navigateWorkspaceToTool, once the pages are compiled and handed over: what is in
\* memory stays behind, edits made meanwhile included.
OpenTool == StartOver

\* window.location.href: nothing is handed over.
OpenPage == StartOver

-----------------------------------------------------------------------------
(* Where they are offered.  The preview covers the rest of the page. *)

CardOffers(p) ==
    \/ OpenPreview(p)
    \/ SelectPage(p) \/ SelectRange(p)
    \/ DeletePage(p) \/ DuplicatePage(p)
    \/ \E target \in 1 .. Len(shown) : DropCard(IndexIn(shown, p), target)

\* The arrows, and handleMoveSubmit: to any place of the list shown.
CardMoves(p) == \E target \in 1 .. Len(shown) : MovePageTo(p, target)

CardInserts(p) ==
    \E side \in {"before", "after"} : InsertBlankPage(p, side) \/ InsertImage(p, side)

\* handleCardKeyDown: Space, Enter, Alt with an arrow, Delete.
CardKeys(p) ==
    \/ SelectPage(p) \/ SelectRange(p)
    \/ \E step \in {-1, 1} :
          IndexIn(shown, p) + step \in 1 .. Len(shown) /\ MovePageTo(p, IndexIn(shown, p) + step)
    \/ DeletePage(p)

\* Every tool but one is given the pages.
ToolOffers == OpenTool \/ OpenPage

BulkOffers ==
    /\ selection # {}
    /\ \/ IF Cardinality(selection) = Len(shown) THEN DeselectAll ELSE SelectAll
       \/ DeselectAll
       \/ DuplicateSelected \/ DeleteSelected
       \/ \E target \in 1 .. Len(shown) : MoveSelectedTo(target - 1)
       \/ ToolOffers

SidebarOffers ==
    \/ \E f \in PdfFiles : Pick(f) \/ RemoveFile(f)
    \/ AddBlankPage
    \/ fileStore \union ToSet(shown) # {} /\ ClearAll

HeaderOffers ==
    /\ shown # <<>>
    /\ SelectAll \/ ClearAll \/ OpenPage

PreviewOffers ==
    \/ viewing \in ToSet(shown) /\ \E step \in {-1, 1} : Navigate(IndexIn(shown, viewing) + step)
    \/ ClosePreview

PageNext ==
    \/ /\ viewing = NoPage
       /\ \/ \E p \in ToSet(shown) :
                CardOffers(p) \/ CardMoves(p) \/ CardInserts(p) \/ CardKeys(p)
          \/ BulkOffers
          \/ SidebarOffers
          \/ HeaderOffers
    \/ viewing # NoPage /\ PreviewOffers
    \/ \E f \in PdfFiles : FinishUpload(f) \/ RefuseFile(f)
    \/ \E p \in Pages : PreviewLands(p)
    \/ Render

PageSpec == PageInit /\ [][PageNext]_pageVars

-----------------------------------------------------------------------------
\* The list holds every page that was made and not deleted, each once, however
\* they are dragged, moved and copied; only cards dropped before an upload is
\* shown can take pages off.  Every page that is not blank has its bytes, only
\* pages of the list are selected, and the preview that is not loading shows the
\* page it is of.
PagesKept ==
    /\ IsInjective(pages)
    /\ ToSet(pages) \subseteq kept
    /\ staleDrop \/ ToSet(pages) = kept
    /\ \A p \in ToSet(pages) : origin[p] \in fileStore \union {BlankPage}
    /\ selection \subseteq ToSet(pages)
    /\ viewing = NoPage \/ screen.loading \/ screen.picture = viewing
=============================================================================

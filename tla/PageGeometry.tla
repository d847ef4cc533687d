----------------------------- MODULE PageGeometry -----------------------------
(***************************************************************************)
(* The crop tool on one page: the margins and the box drawn on the preview *)
(* (CropTool.tsx, PagePreviewCanvas.tsx, pageGeometry.ts) and the cut that *)
(* cropPdf.ts makes of them (apps/web/src/features/tools).                 *)
(*                                                                         *)
(* Lengths are whole points and the preview has scale 1.  The page has its *)
(* media box at the origin.                                                *)
(***************************************************************************)
EXTENDS Integers

CONSTANTS PageW, PageH,     \* media box of the page
          Typable,          \* what is typed into a margin field, and the presets (bound)
          MaxDrag           \* how far the pointer is dragged (bound)

ASSUME GeometryAssumption ==
    /\ PageW \in Nat /\ PageH \in Nat /\ MaxDrag \in Nat
    /\ Typable \subseteq Int

VARIABLES
    turned,     \* the page's rotation, clockwise
    margins,    \* the four margins of the tool
    edge,       \* history: the edge the last step dragged, "none" if it did not
    cropped     \* history: the margins and the box of the last crop, unless changed since

geomVars == <<turned, margins, edge, cropped>>

Edges   == {"left", "right", "top", "bottom"}
Uncut   == [w |-> 0]
minSize == 8
Larger(p, q)  == IF p > q THEN p ELSE q
Smaller(p, q) == IF p < q THEN p ELSE q

uniformMargins(pt) == [e \in Edges |-> pt]

GeomInit ==
    /\ turned \in {0, 90, 180, 270}
    /\ margins = uniformMargins(0)
    /\ edge = "none" /\ cropped = Uncut

-----------------------------------------------------------------------------
(* Margins to box and back *)

marginsToCropBox(m) ==
    LET at(e) == Larger(0, m[e]) IN
    [x |-> at("left"), y |-> at("bottom"),
     w |-> Larger(1, PageW - at("left") - at("right")),
     h |-> Larger(1, PageH - at("top") - at("bottom"))]

cropBoxToMargins(box) ==
    [e \in Edges |->
        Larger(0, CASE e = "left"   -> box.x
                    [] e = "bottom" -> box.y
                    [] e = "right"  -> PageW - box.x - box.w
                    [] e = "top"    -> PageH - box.y - box.h)]

-----------------------------------------------------------------------------
(* The preview, which shows the page turned *)

widthPt  == IF turned \in {0, 180} THEN PageW ELSE PageH
heightPt == IF turned \in {0, 180} THEN PageH ELSE PageW

clampCrop(box) ==
    LET x == Larger(0, Smaller(box.x, widthPt - minSize))
        y == Larger(0, Smaller(box.y, heightPt - minSize))
    IN [x |-> x, y |-> y,
        w |-> Larger(minSize, Smaller(box.w, widthPt - x)),
        h |-> Larger(minSize, Smaller(box.h, heightPt - y))]

\* Mutant of Pull: the far edge is not held when the near one is dragged.
PullLoose(low, size, d) ==
    [at |-> Larger(0, Smaller(low + d, low + size - minSize)), size |-> size]

\* The left or the bottom edge by d: the edge across stays.
Pull(low, size, d) ==
    LET at == Smaller(low + d, low + size - minSize) IN
    IF at <= 0 THEN [at |-> 0, size |-> low + size]
               ELSE [at |-> at, size |-> size + low - at]

\* The right or the top edge.
Push(low, size, d, room) == Larger(minSize, Smaller(size + d, room - low))

updateFromClientDelta(box, e, d) ==
    CASE e = "left"   -> LET p == Pull(box.x, box.w, d)
                         IN [box EXCEPT !.x = p.at, !.w = p.size]
      [] e = "bottom" -> LET p == Pull(box.y, box.h, d)
                         IN [box EXCEPT !.y = p.at, !.h = p.size]
      [] e = "right"  -> [box EXCEPT !.w = Push(box.x, box.w, d, widthPt)]
      [] e = "top"    -> [box EXCEPT !.h = Push(box.y, box.h, d, heightPt)]

\* Every move of a drag is reckoned from the box it began with.
DragEdge(e, d) ==
    /\ margins' = cropBoxToMargins(
                      clampCrop(updateFromClientDelta(marginsToCropBox(margins), e, d)))
    /\ edge' = e /\ cropped' = Uncut
    /\ UNCHANGED turned

setMarginField(e, value) ==
    /\ margins' = [margins EXCEPT ![e] = Larger(0, value)]
    /\ edge' = "none" /\ cropped' = Uncut
    /\ UNCHANGED turned

\* A preset, or zero for Restore.
applyPreset(pt) ==
    /\ margins' = uniformMargins(pt)
    /\ edge' = "none" /\ cropped' = Uncut
    /\ UNCHANGED turned

-----------------------------------------------------------------------------
(* cropPdf *)

\* The margins in the space of the media box.
MediaMargins ==
    IF turned \in {90, 270}
    THEN [left |-> margins["bottom"], right |-> margins["top"],
          top |-> margins["left"], bottom |-> margins["right"]]
    ELSE margins

cropPdf ==
    /\ cropped' = [margins |-> margins, w |-> 1, kept |-> marginsToCropBox(MediaMargins)]
    /\ edge' = "none"
    /\ UNCHANGED <<turned, margins>>

GeomNext ==
    \/ \E e \in Edges, d \in -MaxDrag .. MaxDrag : DragEdge(e, d)
    \/ \E e \in Edges, v \in Typable : setMarginField(e, v)
    \/ \E pt \in {v \in Typable : v >= 0} : applyPreset(pt)
    \/ cropPdf

GeomSpec == GeomInit /\ [][GeomNext]_geomVars

-----------------------------------------------------------------------------
\* The box shown is large enough to be dragged and lies in the page.
Draggable ==
    LET box == marginsToCropBox(margins) IN
    /\ box.w >= minSize /\ box.x + box.w <= PageW
    /\ box.h >= minSize /\ box.y + box.h <= PageH

\* On a page that is not turned, dragging one edge of a box that fits the page moves no
\* other edge, whatever clamps the pointer runs into, and leaves a box that fits.
DragMovesOneEdge ==
    [][edge' # "none" /\ turned = 0 /\ Draggable =>
          /\ \A e \in Edges \ {edge'} : margins'[e] = margins[e]
          /\ Draggable']_geomVars

\* The edge of the media box that is on this side of the page as it is displayed.
OnSide(side) ==
    CASE turned = 0   -> side
      [] turned = 90  -> [left |-> "bottom", top |-> "left", right |-> "top",
                          bottom |-> "right"][side]
      [] turned = 180 -> [left |-> "right", top |-> "bottom", right |-> "left",
                          bottom |-> "top"][side]
      [] turned = 270 -> [left |-> "top", top |-> "right", right |-> "bottom",
                          bottom |-> "left"][side]

\* cropPdf.ts:49: what is cut off each side of the page as it is displayed is the margin
\* given for that side, when the margins leave something of the page.
MarginsFollowTheView ==
    LET cut == cropBoxToMargins(cropped.kept)
        m   == cropped.margins
    IN cropped # Uncut /\ m["left"] + m["right"] < Smaller(PageW, PageH)
                       /\ m["top"] + m["bottom"] < Smaller(PageW, PageH) =>
          \A side \in Edges : cut[OnSide(side)] = m[side]
=============================================================================

------------------------------ MODULE PagePlans ------------------------------
(***************************************************************************)
(* From what the user types to pages: parsePageRanges, chunkEveryN and     *)
(* individualPageRanges of parsePageRanges.ts and planSplitRanges of       *)
(* split/splitPdf.ts (apps/web/src/features/tools).                        *)
(*                                                                         *)
(* A range text is a sequence of groups of tokens, and a token the pair of *)
(* its two numbers (one number twice for a single page); a step is one     *)
(* round of the loop that builds the parts or reads the tokens.  The       *)
(* number of pages per file need not be whole: of a broken number its      *)
(* whole pages and `broken` are kept, which is all that pages turn on.     *)
(* File names are left out.                                                *)
(***************************************************************************)
EXTENDS Integers, Sequences

CONSTANTS
    MaxPlanPages,       \* pages of the document (bound)
    Texts               \* range texts that may be typed

Token == [from : Nat, to : Nat]

ASSUME PlanAssumption ==
    /\ MaxPlanPages \in Nat \ {0}
    /\ Texts \subseteq Seq(Seq(Token)) \ {<<>>}

VARIABLES
    request,    \* the request, with the page count it is planned for
    cursor,     \* start of the next part; for ranges, the next group
    between,    \* the next part starts between the page of the cursor and the one after it
    token,      \* the token of the group to be read next
    seen,       \* the pages of the group so far
    pieces,     \* the parts planned so far
    refused     \* an error was thrown

parsing  == <<token, seen>>
planVars == <<request, cursor, between, parsing, pieces, refused>>

Lengths == 1 .. MaxPlanPages
Typed   == 0 .. MaxPlanPages + 1

\* onChange of `Pages per file` lets every number of 1 or more through.
Requests ==
    [mode : {"individual"}, total : Lengths]
        \union [mode : {"every"}, total : Lengths, every : Typed \ {0}, broken : BOOLEAN]
        \union [mode : {"at"}, total : Lengths, cuts : SUBSET (2 .. MaxPlanPages + 1)]
        \union [mode : {"ranges"}, total : Lengths, groups : Texts]

PlanInit ==
    /\ request \in Requests
    /\ cursor = 1 /\ between = FALSE /\ pieces = <<>> /\ refused = FALSE
    /\ token = 1 /\ seen = {}

Finished == \/ refused
            \/ request.mode = "ranges" /\ cursor > Len(request.groups)
            \/ /\ request.mode # "ranges"
               /\ \/ cursor > request.total
                  \/ cursor = request.total /\ between

-----------------------------------------------------------------------------
(* chunkEveryN, individualPageRanges and the cuts of mode `at` *)

\* A part from the cursor up to the page before `next`.
Takes(next) ==
    /\ pieces' = Append(pieces, [start |-> cursor, end |-> next - 1])
    /\ cursor' = next
    /\ UNCHANGED <<request, between, parsing, refused>>

\* Mutant of ChunkEnd: the last chunk is as long as the others.
ChunkUncut(start) == start + request.every - 1

\* Last page of the chunk that begins at start: the end may be a broken number, of which
\* the whole pages are copied.
ChunkEnd(start) == IF start + request.every - 1 < request.total THEN start + request.every - 1
                                                              ELSE request.total

NextChunk ==
    /\ request.mode = "every" /\ ~Finished /\ ~between
    /\ pieces' = Append(pieces, [start |-> cursor, end |-> ChunkEnd(cursor)])
    /\ cursor' = cursor + request.every
    /\ between' = request.broken
    /\ UNCHANGED <<request, parsing, refused>>

\* There is no page between two pages: copyPages throws, and the whole split fails.
ChunkBetween ==
    /\ request.mode = "every" /\ ~Finished /\ between
    /\ refused' = TRUE
    /\ UNCHANGED <<request, cursor, between, parsing, pieces>>

PageAlone ==
    /\ request.mode = "individual" /\ cursor <= request.total
    /\ Takes(cursor + 1)

\* Cuts outside 2 .. total are dropped; the bounds are sorted and end at total + 1.
Bounds == {b \in request.cuts : b <= request.total} \union {request.total + 1}

CutHere(b) ==
    /\ request.mode = "at" /\ cursor <= request.total
    /\ b \in Bounds /\ b > cursor
    /\ \A c \in Bounds : c > cursor => c >= b
    /\ Takes(b)

-----------------------------------------------------------------------------
(* parsePageRanges, and the ranges of mode `ranges` *)

Group == request.groups[cursor]
PagesOf(t) == t.from .. t.to

\* With rejectOverlaps a page may not appear twice.
TokenFits(t) ==
    /\ 1 <= t.from /\ t.from <= t.to /\ t.to <= request.total
    /\ PagesOf(t) \intersect seen = {}

\* The next token of the group.
ReadToken ==
    /\ request.mode = "ranges" /\ ~Finished /\ token <= Len(Group)
    /\ IF TokenFits(Group[token])
       THEN /\ seen' = seen \union PagesOf(Group[token])
            /\ token' = token + 1
            /\ UNCHANGED refused
       ELSE refused' = TRUE /\ UNCHANGED parsing
    /\ UNCHANGED <<request, cursor, between, pieces>>

\* The group is read: a group of no pages, or with a gap between its first and its last
\* one, refuses the whole plan.
PlanGroup ==
    /\ request.mode = "ranges" /\ ~Finished /\ token > Len(Group)
    /\ \/ \E low, high \in seen :
             /\ low .. high = seen
             /\ pieces' = Append(pieces, [start |-> low, end |-> high])
             /\ cursor' = cursor + 1
             /\ token' = 1 /\ seen' = {}
             /\ UNCHANGED refused
       \/ /\ \A low, high \in seen : low .. high # seen
          /\ refused' = TRUE
          /\ UNCHANGED <<cursor, parsing, pieces>>
    /\ UNCHANGED <<request, between>>

PlanNext ==
    \/ NextChunk
    \/ ChunkBetween
    \/ PageAlone
    \/ \E b \in 2 .. MaxPlanPages + 1 : CutHere(b)
    \/ ReadToken
    \/ PlanGroup

PlanSpec == PlanInit /\ [][PlanNext]_planVars

-----------------------------------------------------------------------------
\* A broken number of pages per file, less than one page short of the document.
LosesLastPage ==
    request.mode = "every" /\ request.broken /\ request.every = request.total - 1

\* The parts follow each other from page 1 without gap or overlap, and a finished plan ends
\* with the last page of the document, or the one before when a broken number loses it;
\* only a broken number that asks for two files is refused.
Tiles ==
    /\ \A i \in 1 .. Len(pieces) :
          /\ pieces[i].start <= pieces[i].end /\ pieces[i].end <= request.total
          /\ i = 1 => pieces[i].start = 1
          /\ i > 1 => pieces[i].start = pieces[i - 1].end + 1
    /\ Finished /\ ~refused =>
          /\ pieces # <<>>
          /\ pieces[Len(pieces)].end =
                IF LosesLastPage THEN request.total - 1 ELSE request.total
    /\ refused =>
          request.mode = "every" /\ request.broken /\ request.every < request.total - 1

\* What the user typed in one group.
Wanted(group) == UNION {PagesOf(group[i]) : i \in 1 .. Len(group)}

\* A group is of no pages, out of the document, backwards, gives a page twice, or has a gap.
Misfit(group, total) ==
    \/ Wanted(group) = {}
    \/ \E i \in 1 .. Len(group) : group[i].from > group[i].to
    \/ ~(Wanted(group) \subseteq 1 .. total)
    \/ \E i, j \in 1 .. Len(group) :
          i # j /\ PagesOf(group[i]) \intersect PagesOf(group[j]) # {}
    \/ \E p, q \in Wanted(group), n \in 1 .. total \ Wanted(group) : p < n /\ n < q

\* A part for every group, with the very pages typed; refused exactly when a group does
\* not fit.
AsTyped ==
    Finished =>
        /\ refused <=> \E i \in 1 .. Len(request.groups) : Misfit(request.groups[i], request.total)
        /\ ~refused => /\ Len(pieces) = Len(request.groups)
                       /\ \A i \in 1 .. Len(pieces) :
                             pieces[i].start .. pieces[i].end = Wanted(request.groups[i])

\* Splitting repeats no page and loses none but the last one, to a broken number of pages
\* per file; and typed ranges give the pages typed or are refused as a whole.
PartsFitRequest == IF request.mode = "ranges" THEN AsTyped ELSE Tiles
==============================================================================

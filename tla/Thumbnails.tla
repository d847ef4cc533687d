----------------------------- MODULE Thumbnails -----------------------------
(***************************************************************************)
(* Page thumbnails: the cache, the render slots and the blob URLs of       *)
(* apps/web/src/lib/pdf/pdfHelpers.ts, and the map of URLs on display in   *)
(* WorkspaceApp.tsx.                                                       *)
(*                                                                         *)
(* One file.  Page p shows page Sheet[p] of it: copies share a sheet, and  *)
(* so a cache key; pages of the sheet Image are images with a URL of their *)
(* own.  What runs between two awaits is one step, the promise callbacks   *)
(* that follow it included; rendering the map is a step of its own.        *)
(***************************************************************************)
EXTENDS Integers, Sequences, FiniteSets, SequencesExt

CONSTANTS
    Cards,            \* pages that may be on the list
    Sheet,            \* the page of the file each shows
    Copies,           \* those that are made by duplicating another
    Image,
    THUMB_LRU_MAX,
    THUMB_CONCURRENCY,
    MaxUrls,          \* blob URLs that may be made (bound)
    MaxLoads          \* loads that may go on at a time (bound)

ASSUME ThumbAssumption ==
    /\ THUMB_LRU_MAX \in Nat \ {0} /\ THUMB_CONCURRENCY \in Nat \ {0} /\ MaxUrls \in Nat
    /\ MaxLoads \in Nat
    /\ Copies \subseteq Cards

VARIABLES
    listed,       \* the pages on the list
    cache,        \* thumbnailDataCache, the oldest entry first
    thumb,        \* thumbnailsByPageId: the URL on display for each page
    seenThumb,    \* the map of the last render
    revoked,      \* URLs that are revoked
    urls,         \* URLs made
    load,         \* the page of each load, and "waiting", "woken" or "working"
    inFlight,     \* inFlightPromises: the pages with a load that a request joins
    swept,        \* history: every URL was revoked while image pages were listed
    staleCopy     \* history: a copy took a URL that was revoked since the last render

thumbHistory == <<swept, staleCopy>>
thumbVars == <<listed, cache, thumb, seenThumb, revoked, urls, load, inFlight,
              thumbHistory>>

LoadSlots == 1 .. MaxLoads
NoLoad    == [of |-> {}, at |-> "idle"]
LoadOf(p, step) == [of |-> {p}, at |-> step]

NoThumb  == 0       \* no entry in the map
NoImage  == -1      \* an entry with the empty string: it could not be rendered
ImageUrl == MaxUrls + 1
Images   == {p \in Cards : Sheet[p] = Image}
Rendered == Cards \ Images

\* The thumbnailUrl of the page itself: images have one, copies have none.
OwnUrl(p) == IF p \in Images \ Copies THEN ImageUrl ELSE NoThumb

ThumbInit ==
    /\ listed \in SUBSET (Cards \ Copies)
    /\ cache = <<>>
    /\ thumb = [p \in Cards |-> NoThumb]
    /\ seenThumb = thumb
    /\ revoked = {}
    /\ urls = 0
    /\ load = [l \in LoadSlots |-> NoLoad] /\ inFlight = {}
    /\ swept = FALSE /\ staleCopy = FALSE

Loads(step)  == {l \in LoadSlots : load[l].at = step}
Keys(c)      == {c[i].key : i \in 1 .. Len(c)}
Urls(c)      == {c[i].url : i \in 1 .. Len(c)}

\* lruGet: the entry becomes the newest.
Place(key)   == CHOOSE i \in 1 .. Len(cache) : cache[i].key = key
Cached(key)  == cache[Place(key)].url
Touched(key) == Append(RemoveAt(cache, Place(key)), cache[Place(key)])
Dropped(key) == IF key \in Keys(cache) THEN RemoveAt(cache, Place(key)) ELSE cache

\* Mutant of Forget: the listeners are not told.
ForgetNothing(gone) == thumb

\* notifyThumbnailEvict: the map drops the URLs that are gone.
Forget(gone) == [p \in Cards |-> IF thumb[p] \in gone THEN NoThumb ELSE thumb[p]]

-----------------------------------------------------------------------------
(* withThumbnailSlot *)

Advanced(l, step) == [of |-> load[l].of, at |-> step]

\* A newcomer does not look at the waiters.
StepIn(p, l) == [load EXCEPT ![l] = LoadOf(p,
    IF Cardinality(Loads("working")) < THUMB_CONCURRENCY THEN "working" ELSE "waiting")]

\* The slot is given back, and the first waiter is woken.
StepOut(l) ==
    IF Loads("waiting") = {} THEN {[load EXCEPT ![l] = NoLoad]}
    ELSE {[[load EXCEPT ![l] = NoLoad] EXCEPT ![m] = Advanced(m, "woken")] : m \in Loads("waiting")}

Wake(p, l) ==
    /\ load[l] = LoadOf(p, "woken") /\ Sheet[p] \notin Keys(cache)
    /\ load' = [load EXCEPT ![l] = LoadOf(p, "working")]
    /\ UNCHANGED <<listed, cache, thumb, seenThumb, revoked, urls, inFlight, thumbHistory>>

\* Whichever of the page's loads ends, the entry is deleted.
LoadOver(p, l) == load' \in StepOut(l) /\ inFlight' = inFlight \ {p}

-----------------------------------------------------------------------------
(* Loading *)

\* The grid asks for the cards in view that show no thumbnail.
ThumbWanted(p) == p \in listed /\ seenThumb[p] = NoThumb

\* The loads are alike: a new one takes the first slot that is free.
FreeLoad == {l \in LoadSlots : l \in Loads("idle") /\ \A m \in Loads("idle") : l <= m}

\* handleRequestThumbnail: a cached URL is shown, a load in flight is shared.
RequestThumbnail(p) ==
    /\ ThumbWanted(p)
    /\ CASE p \in Images ->
               /\ thumb' = [thumb EXCEPT ![p] = IF p \in Copies THEN NoImage ELSE OwnUrl(p)]
               /\ UNCHANGED <<cache, load, inFlight>>
         [] p \in Rendered /\ Sheet[p] \in Keys(cache) ->
               /\ thumb' = [thumb EXCEPT ![p] = Cached(Sheet[p])]
               /\ cache' = Touched(Sheet[p])
               /\ UNCHANGED <<load, inFlight>>
         [] OTHER ->
               /\ p \notin inFlight
               /\ \E l \in FreeLoad : load' = StepIn(p, l)
               /\ inFlight' = inFlight \union {p}
               /\ UNCHANGED <<cache, thumb>>
    /\ UNCHANGED <<listed, seenThumb, revoked, urls, thumbHistory>>

\* lruSet: an older URL under the key is revoked, and then the oldest entries.
RenderDone(p, l) ==
    LET all  == Append(Dropped(Sheet[p]), [key |-> Sheet[p], url |-> urls + 1])
        fits == IF Len(all) > THUMB_LRU_MAX THEN Tail(all) ELSE all
        gone == Urls(cache) \ Urls(fits)
    IN
    /\ load[l] = LoadOf(p, "working")
    /\ urls < MaxUrls
    /\ urls' = urls + 1
    /\ cache' = fits
    /\ revoked' = revoked \union gone
    /\ thumb' = [Forget(gone) EXCEPT ![p] = urls + 1]
    /\ LoadOver(p, l)
    /\ UNCHANGED <<listed, seenThumb, thumbHistory>>

\* Another load put the sheet in the cache while this one waited.
CacheHit(p, l) ==
    /\ load[l] = LoadOf(p, "woken") /\ Sheet[p] \in Keys(cache)
    /\ thumb' = [thumb EXCEPT ![p] = Cached(Sheet[p])]
    /\ cache' = Touched(Sheet[p])
    /\ LoadOver(p, l)
    /\ UNCHANGED <<listed, seenThumb, revoked, urls, thumbHistory>>

\* The document cannot be read, or is destroyed under the load.
RenderFails(p, l) ==
    /\ load[l] = LoadOf(p, "working")
    /\ thumb' = [thumb EXCEPT ![p] = NoImage]
    /\ LoadOver(p, l)
    /\ UNCHANGED <<listed, cache, seenThumb, revoked, urls, thumbHistory>>

ShowThumbs ==
    /\ seenThumb # thumb
    /\ seenThumb' = thumb
    /\ UNCHANGED <<listed, cache, thumb, revoked, urls, load, inFlight, thumbHistory>>

-----------------------------------------------------------------------------
(* What the workspace does to them *)

\* The copy takes the URL its original has in the map of the last render, or of its
\* own.
CopyThumb(p, q) ==
    LET shown == IF seenThumb[p] # NoThumb THEN seenThumb[p] ELSE OwnUrl(p) IN
    /\ p \in listed /\ q \in Copies \ listed
    /\ Sheet[p] = Sheet[q] /\ thumb[q] = NoThumb
    /\ listed' = listed \union {q}
    /\ thumb' = [thumb EXCEPT ![q] = shown]
    /\ staleCopy' = (staleCopy \/ shown \in revoked)
    /\ UNCHANGED <<cache, seenThumb, revoked, urls, load, inFlight, swept>>

DeleteCard(p) ==
    /\ p \in listed
    /\ listed' = listed \ {p}
    /\ thumb' = [thumb EXCEPT ![p] = NoThumb]
    /\ UNCHANGED <<cache, seenThumb, revoked, urls, load, inFlight, thumbHistory>>

\* evictFileCaches, with the file's pages taken off the list; loads go on, forgotten.
EvictFile ==
    /\ listed \ Images # {}
    /\ listed' = listed \cap Images
    /\ cache' = <<>>
    /\ revoked' = revoked \union Urls(cache)
    /\ thumb' = [p \in Cards |-> IF p \in Images THEN thumb[p] ELSE NoThumb]
    /\ inFlight' = {}
    /\ UNCHANGED <<seenThumb, urls, load, thumbHistory>>

\* clearAllPdfCaches when a batch job fails or is cancelled: every tracked URL is
\* revoked, those the pages on the list still use included.  A load that is forgotten may
\* be followed by another beside it.
ClearAllPdfCaches ==
    /\ cache' = <<>>
    /\ revoked' = revoked \union 1 .. urls \union {ImageUrl}
    /\ inFlight' = {}
    /\ revoked' # revoked \/ inFlight # {}
    /\ thumb' = Forget(Urls(cache))
    /\ swept' = (swept \/ listed \cap Images # {})
    /\ UNCHANGED <<listed, seenThumb, urls, load, staleCopy>>

LoadStep(p, l) ==
    \/ Wake(p, l)
    \/ RenderDone(p, l)
    \/ CacheHit(p, l)
    \/ RenderFails(p, l)

ThumbNext ==
    \/ \E p \in Cards :
          \/ RequestThumbnail(p)
          \/ \E l \in LoadSlots : LoadStep(p, l)
          \/ DeleteCard(p)
          \/ \E q \in Cards : CopyThumb(p, q)
    \/ ShowThumbs
    \/ EvictFile
    \/ ClearAllPdfCaches

ThumbSpec == ThumbInit /\ [][ThumbNext]_thumbVars

-----------------------------------------------------------------------------
\* No page on the list shows a URL that is revoked; but for image pages after a
\* batch job has swept the caches, and copies of a thumbnail that was evicted
\* before the map was rendered again.
ThumbsAlive ==
    \/ staleCopy
    \/ \A p \in listed :
          thumb[p] \in revoked => p \in Images /\ swept
=============================================================================

----------------------------- MODULE ToolProofs -----------------------------
(***************************************************************************)
(* Proofs about the PDF tools: the worker's run of WorkerTask, the plans   *)
(* of PagePlans, the crop box of PageGeometry, and what two kinds of tool  *)
(* show and offer of the file in them (TableTool and MarkTools).           *)
(***************************************************************************)
EXTENDS WorkerTask, PagePlans, PageGeometry, TableTool, MarkTools, SequenceTheorems,
        WellFoundedInduction, TLAPS

-----------------------------------------------------------------------------
(* A run in a worker *)

WorkerTools == {"split", "images", "extract", "compress"}
RunPlaces   == {"none", "reading", "working", "zipping", "over"}

WorkerTypeOK ==
    /\ toolKind \in WorkerTools
    /\ inHand \in BOOLEAN /\ effecting \in BOOLEAN
    /\ counted \in BOOLEAN /\ selected \in BOOLEAN
    /\ toolRuns \in 0 .. MaxToolRuns
    /\ place \in [ToolRuns -> RunPlaces]
    /\ cancelled \in BOOLEAN
    /\ wired \in ToolRuns \union {NoRun}
    /\ workers \subseteq ToolRuns /\ answers \subseteq ToolRuns
    /\ toolBusy \in BOOLEAN /\ toolError \in BOOLEAN
    /\ asked \subseteq ToolRuns /\ revived \subseteq ToolRuns /\ beside \subseteq ToolRuns
    /\ saves \in [ToolRuns -> Nat]

\* Nothing has happened to the runs to come.
Unstarted ==
    \A t \in ToolRuns : t > toolRuns =>
        /\ place[t] = "none" /\ saves[t] = 0
        /\ t \notin asked /\ t \notin revived /\ t \notin beside

\* A run under way has saved nothing, and the flag still tells it of its Cancel.
UnderWay ==
    \A t \in Active : saves[t] = 0 /\ (t \in asked \ revived => cancelled)

\* Cancel is wired to a run that is past its reading.
Wiring == wired # NoRun => place[wired] \in {"working", "zipping"}

\* What fails while a counted run is under way takes the page count.
CountTaken == NeedsCount => beside = {} /\ (toolBusy /\ toolError => ~counted)

\* The inductive invariant of WorkerTask.
WorkerIInv == /\ WorkerTypeOK /\ CancelReaches
              /\ Unstarted /\ UnderWay /\ Wiring /\ CountTaken

LEMMA WorkerInitiallySound == WorkerInit => WorkerIInv
<1> SUFFICES ASSUME WorkerInit PROVE WorkerIInv
  OBVIOUS
<1>1. /\ \A t \in ToolRuns : place[t] = "none" /\ saves[t] = 0
      /\ place \in [ToolRuns -> RunPlaces] /\ saves \in [ToolRuns -> Nat]
  BY DEF WorkerInit, RunPlaces
<1>2. Active = {}
  BY <1>1 DEF Active
<1>3. WorkerTypeOK
  <2>1. /\ inHand \in BOOLEAN /\ effecting \in BOOLEAN /\ counted \in BOOLEAN
        /\ selected \in BOOLEAN /\ cancelled \in BOOLEAN
        /\ toolBusy \in BOOLEAN /\ toolError \in BOOLEAN
    BY DEF WorkerInit
  <2>2. toolKind \in WorkerTools /\ wired = NoRun /\ toolRuns \in 0 .. MaxToolRuns
    BY MaxToolRunsAssumption DEF WorkerInit, WorkerTools
  <2>3. workers = {} /\ answers = {} /\ asked = {} /\ revived = {} /\ beside = {}
    BY DEF WorkerInit
  <2> QED
    BY <1>1, <2>1, <2>2, <2>3 DEF WorkerTypeOK
<1>4. CancelReaches
  <2>1. workers = {t \in ToolRuns : place[t] = "working"}
    BY <1>1 DEF WorkerInit
  <2> QED
    BY <1>1, <1>2, <2>1 DEF WorkerInit, CancelReaches
<1>5. Unstarted /\ UnderWay /\ Wiring /\ CountTaken
  BY <1>1, <1>2 DEF WorkerInit, Unstarted, UnderWay, Wiring, CountTaken
<1> QED
  BY <1>3, <1>4, <1>5 DEF WorkerIInv

\* A step that leaves the runs alone.
LEMMA RunsLeftAlone ==
    ASSUME WorkerIInv, RunsGoOn, toolKind' = toolKind, toolBusy' = toolBusy,
           <<inHand, effecting, counted, selected, toolError>>' \in
               BOOLEAN \X BOOLEAN \X BOOLEAN \X BOOLEAN \X BOOLEAN,
           NeedsCount /\ toolBusy /\ toolError' => ~counted'
    PROVE  WorkerIInv'
<1> USE DEF WorkerIInv
<1>1. /\ UNCHANGED <<toolKind, toolRuns, place, cancelled, wired, workers, answers, toolBusy>>
      /\ UNCHANGED <<asked, revived, beside, saves>>
  BY DEF RunsGoOn, workerPool, pastRuns
<1>2. Active' = Active /\ ToolRuns' = ToolRuns /\ (NeedsCount' <=> NeedsCount)
  BY <1>1 DEF Active, ToolRuns, NeedsCount
<1>3. WorkerTypeOK'
  BY <1>1, <1>2 DEF WorkerTypeOK
<1>4. CancelReaches'
  BY <1>1, <1>2 DEF CancelReaches
<1>5. Unstarted' /\ UnderWay' /\ Wiring' /\ CountTaken'
  BY <1>1, <1>2 DEF Unstarted, UnderWay, Wiring, CountTaken
<1> QED
  BY <1>3, <1>4, <1>5

\* A run ends: it takes its worker along and saves, if it does, as one nobody cancelled.
LEMMA RunEnds ==
    ASSUME WorkerIInv, NEW t \in Active, NEW error \in BOOLEAN, EndsWith(t, error),
           workers' = workers \ {t}, answers' \subseteq answers, cancelled' = cancelled,
           \/ saves' = saves
           \/ t \notin asked \ revived /\ saves' = [saves EXCEPT ![t] = @ + 1]
    PROVE  WorkerIInv'
<1> USE DEF WorkerIInv
<1>1. t \in ToolRuns /\ place[t] \in {"reading", "working", "zipping"} /\ saves[t] = 0
  BY DEF Active, UnderWay
<1>2. /\ UNCHANGED <<toolKind, inHand, effecting, counted, selected, toolRuns>>
      /\ UNCHANGED <<asked, revived, beside>>
      /\ place' = [place EXCEPT ![t] = "over"]
      /\ wired' = NoRun /\ toolBusy' = FALSE /\ toolError' = error
  BY DEF EndsWith, toolFile, pastRuns
<1>3. /\ place' \in [ToolRuns -> RunPlaces] /\ place'[t] = "over"
      /\ \A u \in ToolRuns : u # t => place'[u] = place[u]
  BY <1>1, <1>2 DEF WorkerTypeOK, RunPlaces
<1>4. Active' = Active \ {t}
  BY <1>1, <1>3 DEF Active
<1>5. /\ saves' \in [ToolRuns -> Nat]
      /\ \A u \in ToolRuns : u # t => saves'[u] = saves[u]
      /\ saves'[t] <= 1 /\ (t \in asked \ revived => saves'[t] = 0)
  BY <1>1 DEF WorkerTypeOK
<1>6. WorkerTypeOK'
  BY <1>2, <1>3, <1>5 DEF WorkerTypeOK
<1>7. CancelReaches'
  <2>1. \A u \in ToolRuns : saves'[u] <= 1
    BY <1>5 DEF CancelReaches
  <2>2. \A u \in asked' \ revived' : saves'[u] = 0
    BY <1>2, <1>5 DEF CancelReaches, WorkerTypeOK
  <2>3. workers' = {u \in ToolRuns : place'[u] = "working"}
    BY <1>1, <1>3 DEF CancelReaches
  <2>4. Active' \ beside' = {}
    BY <1>2, <1>4 DEF CancelReaches
  <2> QED
    BY <2>1, <2>2, <2>3, <2>4 DEF CancelReaches
<1>8. Unstarted'
  <2>1. ~(t > toolRuns)
    BY <1>1 DEF Unstarted
  <2> QED
    BY <1>2, <1>3, <1>5, <2>1 DEF Unstarted
<1>9. UnderWay'
  BY <1>2, <1>4, <1>5 DEF UnderWay, Active
<1>10. Wiring' /\ CountTaken'
  BY <1>2 DEF Wiring, CountTaken, NeedsCount
<1> QED
  BY <1>6, <1>7, <1>8, <1>9, <1>10

\* A run goes on, from one place to the next.
LEMMA RunGoesOn ==
    ASSUME WorkerIInv, NEW t \in Active, NEW where \in {"working", "zipping"},
           place' = [place EXCEPT ![t] = where],
           UNCHANGED <<toolFile, toolRuns, cancelled, card, pastRuns, saves>>,
           answers' \subseteq answers,
           \/ where = "working" /\ workers' = workers \union {t} /\ wired' = t
           \/ where = "zipping" /\ workers' = workers \ {t} /\ wired' = wired
    PROVE  WorkerIInv'
<1> USE DEF WorkerIInv
<1>1. t \in ToolRuns /\ place[t] \in {"reading", "working", "zipping"}
  BY DEF Active
<1>2. /\ UNCHANGED <<toolKind, inHand, effecting, counted, selected, toolRuns, cancelled>>
      /\ UNCHANGED <<toolBusy, toolError, asked, revived, beside, saves>>
  BY DEF toolFile, card, pastRuns
<1>3. /\ place' \in [ToolRuns -> RunPlaces] /\ place'[t] = where
      /\ \A u \in ToolRuns : u # t => place'[u] = place[u]
  BY <1>1, <1>2 DEF WorkerTypeOK, RunPlaces
<1>4. Active' = Active
  BY <1>1, <1>3 DEF Active
<1>5. WorkerTypeOK'
  BY <1>1, <1>2, <1>3 DEF WorkerTypeOK
<1>6. CancelReaches'
  <2>1. workers' = {u \in ToolRuns : place'[u] = "working"}
    BY <1>1, <1>3 DEF CancelReaches
  <2>2. ASSUME NEW u \in Active' \ beside'
        PROVE  toolBusy' /\ Active' = {u} /\ (place'[u] = "working" => wired' = u)
    <3>1. toolBusy /\ Active = {u} /\ u = t
      BY <1>2, <1>4, <2>2 DEF CancelReaches
    <3> QED
      BY <1>2, <1>3, <1>4, <3>1
  <2> QED
    BY <1>2, <2>1, <2>2 DEF CancelReaches
<1>7. Unstarted'
  <2>1. ~(t > toolRuns)
    BY <1>1 DEF Unstarted
  <2> QED
    BY <1>2, <1>3, <2>1 DEF Unstarted
<1>8. UnderWay'
  BY <1>2, <1>4 DEF UnderWay
<1>9. Wiring'
  BY <1>1, <1>3 DEF Wiring, WorkerTypeOK
<1>10. CountTaken'
  BY <1>2 DEF CountTaken, NeedsCount
<1> QED
  BY <1>5, <1>6, <1>7, <1>8, <1>9, <1>10

\* The button or Retry.
LEMMA RunStarts == WorkerIInv /\ StartTool => WorkerIInv'
<1> SUFFICES ASSUME WorkerIInv, StartTool PROVE WorkerIInv'
  OBVIOUS
<1> USE DEF WorkerIInv
<1> DEFINE t == toolRuns + 1
<1>1. /\ t \in ToolRuns /\ toolRuns' = t /\ t > toolRuns
      /\ \A u \in ToolRuns : u > t => u > toolRuns
  BY MaxToolRunsAssumption DEF StartTool, ToolRuns, WorkerTypeOK
<1>2. /\ UNCHANGED <<toolKind, inHand, effecting, counted, selected, wired, workers, answers>>
      /\ UNCHANGED <<asked, saves>>
      /\ place' = [place EXCEPT ![t] = "reading"]
      /\ cancelled' = FALSE /\ toolBusy' = TRUE /\ toolError' = FALSE
      /\ revived' = revived \union (asked \intersect Active)
      /\ beside' = beside \union Active \union (IF Active = {} THEN {} ELSE {t})
  BY DEF StartTool, toolFile, workerPool
<1>3. place[t] = "none" /\ saves[t] = 0 /\ t \notin asked /\ t \notin revived /\ t \notin beside
  BY <1>1 DEF Unstarted
<1> HIDE DEF t
<1>4. /\ place' \in [ToolRuns -> RunPlaces] /\ place'[t] = "reading"
      /\ \A u \in ToolRuns : u # t => place'[u] = place[u]
  BY <1>1, <1>2 DEF WorkerTypeOK, RunPlaces
<1>5. Active' = Active \union {t} /\ t \notin Active /\ Active \subseteq ToolRuns
  BY <1>1, <1>3, <1>4 DEF Active
<1>6. WorkerTypeOK'
  <2>1. toolRuns' \in 0 .. MaxToolRuns
    BY <1>1 DEF ToolRuns
  <2>2. revived' \subseteq ToolRuns /\ beside' \subseteq ToolRuns
    BY <1>1, <1>2, <1>5 DEF WorkerTypeOK
  <2> QED
    BY <1>2, <1>4, <2>1, <2>2 DEF WorkerTypeOK
<1>7. CancelReaches'
  <2>1. workers' = {u \in ToolRuns : place'[u] = "working"}
    BY <1>1, <1>2, <1>3, <1>4 DEF CancelReaches
  <2>2. \A u \in asked' \ revived' : saves'[u] = 0
    BY <1>2 DEF CancelReaches
  <2>3. ASSUME NEW u \in Active' \ beside'
        PROVE  toolBusy' /\ Active' = {u} /\ (place'[u] = "working" => wired' = u)
    <3>1. u = t /\ Active = {}
      BY <1>2, <1>5, <2>3
    <3> QED
      BY <1>2, <1>4, <1>5, <3>1
  <2> QED
    BY <1>2, <2>1, <2>2, <2>3 DEF CancelReaches
<1>8. Unstarted'
  <2> SUFFICES ASSUME NEW u \in ToolRuns, u > t
               PROVE  /\ place'[u] = "none" /\ saves'[u] = 0
                      /\ u \notin asked' /\ u \notin revived' /\ u \notin beside'
    BY <1>1 DEF Unstarted
  <2>1. /\ place[u] = "none" /\ saves[u] = 0 /\ u # t
        /\ u \notin asked /\ u \notin revived /\ u \notin beside
    BY <1>1 DEF Unstarted, ToolRuns
  <2>2. u \notin Active
    BY <2>1 DEF Active
  <2> QED
    BY <1>2, <1>4, <2>1, <2>2
<1>9. UnderWay'
  BY <1>2, <1>3, <1>5 DEF UnderWay
<1>10. Wiring'
  BY <1>2, <1>3, <1>4 DEF Wiring, WorkerTypeOK
<1>11. CountTaken'
  <2> SUFFICES ASSUME NeedsCount PROVE beside' = {} /\ ~toolError'
    BY <1>2 DEF CountTaken, NeedsCount
  <2>1. beside = {} /\ ~toolBusy
    BY DEF CountTaken, StartTool, MayRun, WorkerTypeOK
  <2>2. Active = {}
    BY <2>1 DEF CancelReaches
  <2> QED
    BY <1>2, <2>1, <2>2
<1> QED
  BY <1>6, <1>7, <1>8, <1>9, <1>10, <1>11

\* Cancel: the flag is set, and the run it is wired to ends if a worker works for it.
LEMMA RunsCancelled == WorkerIInv /\ CancelTool => WorkerIInv'
<1> SUFFICES ASSUME WorkerIInv, CancelTool PROVE WorkerIInv'
  OBVIOUS
<1> USE DEF WorkerIInv
<1>1. /\ UNCHANGED <<toolKind, inHand, effecting, counted, selected, toolRuns>>
      /\ UNCHANGED <<revived, beside, saves>>
      /\ cancelled' = TRUE /\ asked' = asked \union Active
  BY DEF CancelTool, toolFile
<1>2. Active \subseteq ToolRuns /\ \A u \in Active : saves[u] = 0
  BY DEF Active, UnderWay
<1>3. \A u \in asked' \ revived' : saves'[u] = 0
  BY <1>1, <1>2 DEF CancelReaches
<1>4. \A u \in Active : ~(u > toolRuns)
  BY DEF Active, Unstarted
<1>5. CASE wired # NoRun /\ place[wired] = "working"
  <2>1. wired \in ToolRuns /\ wired \in Active
    BY <1>5 DEF WorkerTypeOK, Active
  <2>2. /\ workers' = workers \ {wired} /\ answers' \subseteq answers
        /\ place' = [place EXCEPT ![wired] = "over"]
        /\ wired' = NoRun /\ toolBusy' = FALSE /\ toolError' = FALSE
    BY <1>5 DEF CancelTool, Terminate
  <2>3. /\ place' \in [ToolRuns -> RunPlaces] /\ place'[wired] = "over"
        /\ \A u \in ToolRuns : u # wired => place'[u] = place[u]
    BY <2>1, <2>2 DEF WorkerTypeOK, RunPlaces
  <2>4. Active' = Active \ {wired}
    BY <2>1, <2>3 DEF Active
  <2>5. WorkerTypeOK'
    BY <1>1, <1>2, <2>2, <2>3 DEF WorkerTypeOK
  <2>6. CancelReaches'
    <3>1. workers' = {u \in ToolRuns : place'[u] = "working"}
      BY <2>1, <2>2, <2>3 DEF CancelReaches
    <3>2. Active' \ beside' = {}
      BY <1>1, <2>1, <2>4 DEF CancelReaches
    <3> QED
      BY <1>1, <1>3, <3>1, <3>2 DEF CancelReaches
  <2>7. Unstarted'
    BY <1>1, <1>4, <2>1, <2>3 DEF Unstarted
  <2>8. UnderWay' /\ Wiring' /\ CountTaken'
    BY <1>1, <1>2, <2>2, <2>4 DEF UnderWay, Wiring, CountTaken, NeedsCount
  <2> QED
    BY <2>5, <2>6, <2>7, <2>8
<1>6. CASE ~(wired # NoRun /\ place[wired] = "working")
  <2>1. UNCHANGED <<place, wired, workers, answers, toolBusy, toolError>>
    BY <1>6 DEF CancelTool, workerPool, card
  <2>2. Active' = Active
    BY <2>1 DEF Active
  <2>3. WorkerTypeOK'
    BY <1>1, <1>2, <2>1 DEF WorkerTypeOK
  <2>4. CancelReaches'
    BY <1>1, <1>3, <2>1, <2>2 DEF CancelReaches
  <2>5. Unstarted'
    BY <1>1, <1>4, <2>1 DEF Unstarted
  <2>6. UnderWay' /\ Wiring' /\ CountTaken'
    BY <1>1, <1>2, <2>1, <2>2 DEF UnderWay, Wiring, CountTaken, NeedsCount
  <2> QED
    BY <2>3, <2>4, <2>5, <2>6
<1> QED
  BY <1>5, <1>6

LEMMA WorkerStaysSound == WorkerIInv /\ [WorkerNext]_workerVars => WorkerIInv'
<1> SUFFICES ASSUME WorkerIInv, [WorkerNext]_workerVars PROVE WorkerIInv'
  OBVIOUS
<1>0. WorkerTypeOK /\ CancelReaches /\ UnderWay /\ CountTaken
  BY DEF WorkerIInv
<1>1. CASE PickToolFile
  BY <1>0, <1>1, RunsLeftAlone DEF PickToolFile, WorkerTypeOK
<1>2. CASE DropToolFile
  BY <1>0, <1>2, RunsLeftAlone DEF DropToolFile, WorkerTypeOK
<1>3. CASE EffectDone
  BY <1>0, <1>3, RunsLeftAlone DEF EffectDone, WorkerTypeOK
<1>4. CASE EffectFails
  BY <1>0, <1>4, RunsLeftAlone DEF EffectFails, WorkerTypeOK, NeedsCount
<1>5. CASE ChoosePages
  BY <1>0, <1>5, RunsLeftAlone DEF ChoosePages, WorkerTypeOK, NeedsCount
<1>6. CASE RangeRefused
  BY <1>0, <1>6, RunsLeftAlone DEF RangeRefused, WorkerTypeOK, toolFile, NeedsCount
<1>7. CASE RetryInVain
  BY <1>0, <1>7, RunsLeftAlone DEF RetryInVain, WorkerTypeOK, toolFile
<1>8. CASE StartTool
  BY <1>8, RunStarts
<1>9. CASE CancelTool
  BY <1>9, RunsCancelled
<1>10. ASSUME NEW t \in ToolRuns, BytesRead(t) PROVE WorkerIInv'
  <2>1. t \in Active /\ t \notin workers
    BY <1>0, <1>10 DEF BytesRead, Active, CancelReaches
  <2>2. CASE cancelled
    BY <1>10, <2>1, <2>2, RunEnds DEF BytesRead, WithoutWorker
  <2>3. CASE ~cancelled
    BY <1>10, <2>1, <2>3, RunGoesOn DEF BytesRead
  <2> QED
    BY <2>2, <2>3
<1>11. ASSUME NEW t \in ToolRuns, ReadFails(t) \/ ZipFails(t) PROVE WorkerIInv'
  <2>1. t \in Active /\ t \notin workers
    BY <1>0, <1>11 DEF ReadFails, ZipFails, Active, CancelReaches
  <2> QED
    BY <1>11, <2>1, RunEnds DEF ReadFails, ZipFails, WithoutWorker
<1>12. ASSUME NEW t \in ToolRuns, WorkerPosts(t) PROVE WorkerIInv'
  <2>1. /\ UNCHANGED <<toolKind, inHand, effecting, counted, selected, toolRuns, place>>
        /\ UNCHANGED <<cancelled, wired, workers, toolBusy, toolError>>
        /\ UNCHANGED <<asked, revived, beside, saves>>
        /\ answers' = answers \union {t}
    BY <1>12 DEF WorkerPosts, toolFile, card, pastRuns
  <2>2. Active' = Active
    BY <2>1 DEF Active
  <2> QED
    BY <2>1, <2>2 DEF WorkerIInv, WorkerTypeOK, CancelReaches, Unstarted, UnderWay, Wiring,
                      CountTaken, NeedsCount
<1>13. ASSUME NEW t \in ToolRuns, NEW several \in BOOLEAN, ReceiveResult(t, several)
       PROVE  WorkerIInv'
  <2>1. t \in Active /\ toolError \in BOOLEAN
    BY <1>0, <1>13 DEF ReceiveResult, Active, WorkerTypeOK
  <2>2. workers' = workers \ {t} /\ answers' \subseteq answers /\ cancelled' = cancelled
    BY <1>13 DEF ReceiveResult, Terminate
  <2>3. CASE cancelled
    BY <1>13, <2>1, <2>2, <2>3, RunEnds DEF ReceiveResult
  <2>4. CASE ~cancelled /\ several
    BY <1>13, <2>1, <2>2, <2>4, RunGoesOn DEF ReceiveResult
  <2>5. CASE ~cancelled /\ ~several
    <3>1. t \notin asked \ revived
      BY <1>0, <2>1, <2>5 DEF UnderWay
    <3>2. EndsWith(t, toolError) /\ saves' = [saves EXCEPT ![t] = @ + 1]
      BY <1>13, <2>5 DEF ReceiveResult
    <3> QED
      BY <2>1, <2>2, <3>1, <3>2, RunEnds
  <2> QED
    BY <2>3, <2>4, <2>5
<1>14. ASSUME NEW t \in ToolRuns, WorkerFails(t) PROVE WorkerIInv'
  <2>1. t \in Active
    BY <1>14 DEF WorkerFails, Active
  <2> QED
    BY <1>14, <2>1, RunEnds DEF WorkerFails, Terminate
<1>15. ASSUME NEW t \in ToolRuns, ZipDone(t) PROVE WorkerIInv'
  <2>1. t \in Active /\ t \notin workers /\ toolError \in BOOLEAN
    BY <1>0, <1>15 DEF ZipDone, Active, CancelReaches, WorkerTypeOK
  <2>2. workers' = workers \ {t} /\ answers' \subseteq answers /\ cancelled' = cancelled
    BY <1>15, <2>1 DEF ZipDone, WithoutWorker
  <2>3. CASE cancelled
    BY <1>15, <2>1, <2>2, <2>3, RunEnds DEF ZipDone, StillWanted
  <2>4. CASE ~cancelled
    <3>1. t \notin asked \ revived
      BY <1>0, <2>1, <2>4 DEF UnderWay
    <3>2. EndsWith(t, toolError) /\ saves' = [saves EXCEPT ![t] = @ + 1]
      BY <1>15, <2>4 DEF ZipDone, StillWanted
    <3> QED
      BY <2>1, <2>2, <3>1, <3>2, RunEnds
  <2> QED
    BY <2>3, <2>4
<1>16. CASE UNCHANGED workerVars
  <2>1. /\ UNCHANGED <<toolKind, inHand, effecting, counted, selected, toolRuns, place>>
        /\ UNCHANGED <<cancelled, wired, workers, answers, toolBusy, toolError>>
        /\ UNCHANGED <<asked, revived, beside, saves>>
    BY <1>16 DEF workerVars, toolFile, workerPool, card, pastRuns
  <2>2. Active' = Active
    BY <2>1 DEF Active
  <2> QED
    BY <2>1, <2>2 DEF WorkerIInv, WorkerTypeOK, CancelReaches, Unstarted, UnderWay, Wiring,
                      CountTaken, NeedsCount
<1> QED
  BY <1>1, <1>2, <1>3, <1>4, <1>5, <1>6, <1>7, <1>8, <1>9, <1>10, <1>11, <1>12, <1>13, <1>14,
     <1>15, <1>16 DEF WorkerNext

\* runInWorker.ts, downloadWorkerOutputs.ts and the four tools, for any number of runs beside
\* each other: none saves twice, one that was cancelled saves nothing unless a Retry took the
\* Cancel back, no worker is left behind, and Cancel reaches a run no other was started beside;
\* Split and PDF to images never run beside themselves, since whatever fails under a run takes
\* the page count that Retry's run() asks for.
THEOREM WorkerCancelsHonestly == WorkerSpec => []CancelIsHonest
<1>1. WorkerIInv => CancelReaches
  BY DEF WorkerIInv
<1>2. WorkerIInv => CountedRunAlone
  BY DEF WorkerIInv, CountTaken, CountedRunAlone
<1>3. WorkerIInv => CancelIsHonest
  BY <1>1, <1>2 DEF CancelIsHonest
<1> QED
  BY WorkerInitiallySound, WorkerStaysSound, <1>3, PTL DEF WorkerSpec

-----------------------------------------------------------------------------
(* Plans *)

\* What is known of a request that is not typed as ranges.
Cut ==
    /\ request.total \in Nat \ {0}
    /\ request.mode = "every" => request.every \in Nat \ {0} /\ request.broken \in BOOLEAN
    /\ request.mode = "at" => request.cuts \subseteq Nat

Part == [start : Nat, end : Nat]

\* The number of pages per file is a broken one.
Broken == request.mode = "every" /\ request.broken

\* The parts so far end where the cursor stands; a broken number puts it between two pages
\* after the first part.
UpToCursor ==
    /\ cursor \in Nat \ {0}
    /\ pieces \in Seq(Part)
    /\ pieces = <<>> => cursor = 1
    /\ between <=> Broken /\ pieces # <<>>
    /\ between => cursor = request.every + 1
    /\ pieces # <<>> => pieces[Len(pieces)].end =
                           IF cursor <= request.total THEN cursor - 1 ELSE request.total

\* The inductive invariant of PagePlans, ranges apart.
PlanIInv == request.mode # "ranges" => Cut /\ UpToCursor /\ Tiles

LEMMA PlanInitiallySound == PlanInit => PlanIInv
<1> SUFFICES ASSUME PlanInit, request.mode # "ranges" PROVE Cut /\ UpToCursor /\ Tiles
  BY DEF PlanIInv
<1>1. Cut
  BY PlanAssumption DEF PlanInit, Requests, Lengths, Typed, Cut
<1> QED
  BY <1>1 DEF PlanInit, UpToCursor, Tiles, Finished, Cut, Part, Broken

\* A part from the cursor to the page before the next cursor, or to the last page.
LEMMA PartFits ==
  ASSUME Cut, UpToCursor, Tiles, request.mode # "ranges", request' = request,
         NEW end \in Nat, NEW next \in Nat, cursor <= end, cursor <= request.total,
         pieces' = Append(pieces, [start |-> cursor, end |-> end]), cursor' = next,
         refused' = refused, ~between, between' <=> Broken, Broken => next = request.every + 1,
         \/ end < request.total /\ next = end + 1
         \/ end = request.total /\ next > request.total
  PROVE  UpToCursor' /\ Tiles'
<1> DEFINE part == [start |-> cursor, end |-> end]
           n    == Len(pieces)
<1> USE DEF Cut
<1>1. n \in Nat /\ pieces \in Seq(Part) /\ part \in Part
  BY DEF UpToCursor, Part
<1>2. /\ Len(pieces') = n + 1 /\ pieces' \in Seq(Part) /\ pieces'[n + 1] = part
      /\ \A i \in 1 .. n : pieces'[i] = pieces[i]
  BY <1>1
<1>3. pieces' # <<>> /\ pieces'[Len(pieces')].end = end
  BY <1>1, <1>2
<1>4. UpToCursor'
  <2>1. cursor \in Nat \ {0}
    BY DEF UpToCursor
  <2>2. cursor' \in Nat \ {0}
    BY <2>1
  <2>3. end = IF next <= request.total THEN next - 1 ELSE request.total
    BY <2>1
  <2> QED
    BY <1>2, <1>3, <2>2, <2>3 DEF UpToCursor, Broken
<1>6. n > 0 => pieces[n].end = cursor - 1
  BY <1>1 DEF UpToCursor
<1>7. n = 0 => cursor = 1
  BY <1>1 DEF UpToCursor
<1>8. ASSUME NEW i \in 1 .. Len(pieces')
      PROVE  /\ pieces'[i].start <= pieces'[i].end /\ pieces'[i].end <= request.total
             /\ i = 1 => pieces'[i].start = 1
             /\ i > 1 => pieces'[i].start = pieces'[i - 1].end + 1
  <2>1. CASE i <= n
    <3>1. pieces'[i] = pieces[i] /\ i \in 1 .. n
      BY <1>1, <1>2, <2>1
    <3>2. i > 1 => pieces'[i - 1] = pieces[i - 1]
      BY <1>1, <1>2, <2>1
    <3> QED
      BY <3>1, <3>2 DEF Tiles
  <2>2. CASE i = n + 1
    <3>1. pieces'[i].start = cursor /\ pieces'[i].end = end
      BY <1>2, <2>2
    <3>2. i > 1 => n > 0 /\ pieces'[i - 1] = pieces[n]
      BY <1>1, <1>2, <2>2
    <3>3. cursor \in Nat
      BY DEF UpToCursor
    <3> QED
      BY <1>1, <1>6, <1>7, <2>2, <3>1, <3>2, <3>3
  <2> QED
    BY <1>1, <1>2, <2>1, <2>2
<1>9. Finished' /\ ~refused' =>
         pieces'[Len(pieces')].end = IF LosesLastPage THEN request.total - 1 ELSE request.total
  BY <1>3 DEF Finished, UpToCursor, LosesLastPage, Broken
<1> QED
  BY <1>3, <1>4, <1>8, <1>9 DEF Tiles, LosesLastPage

LEMMA PlanStaysSound == PlanIInv /\ [PlanNext]_planVars => PlanIInv'
<1> SUFFICES ASSUME PlanIInv, [PlanNext]_planVars, request'.mode # "ranges"
             PROVE  (Cut /\ UpToCursor /\ Tiles)'
  BY DEF PlanIInv
<1>0. request' = request
  BY DEF PlanNext, planVars, NextChunk, ChunkBetween, PageAlone, CutHere, ReadToken, PlanGroup,
         Takes
<1>1. Cut /\ UpToCursor /\ Tiles /\ request.mode # "ranges"
  BY <1>0 DEF PlanIInv
<1>2. Cut'
  BY <1>0, <1>1 DEF Cut
<1>3. cursor \in Nat \ {0} /\ request.total \in Nat \ {0}
  BY <1>1 DEF UpToCursor, Cut
<1>4. CASE NextChunk
  <2>1. /\ request.every \in Nat \ {0} /\ cursor <= request.total /\ ~between
        /\ cursor' = cursor + request.every /\ refused' = refused /\ between' = request.broken
        /\ pieces' = Append(pieces, [start |-> cursor, end |-> ChunkEnd(cursor)])
    BY <1>1, <1>3, <1>4 DEF NextChunk, Cut, Finished
  <2>2. /\ ChunkEnd(cursor) \in Nat /\ cursor <= ChunkEnd(cursor)
        /\ \/ ChunkEnd(cursor) < request.total /\ cursor' = ChunkEnd(cursor) + 1
           \/ ChunkEnd(cursor) = request.total /\ cursor' > request.total
        /\ cursor' \in Nat
    BY <1>3, <2>1 DEF ChunkEnd
  <2>3. between' <=> Broken
    BY <1>4, <2>1 DEF NextChunk, Broken
  <2>4. Broken => cursor' = request.every + 1
    BY <1>1, <2>1 DEF UpToCursor
  <2> QED
    BY <1>0, <1>1, <1>2, <2>1, <2>2, <2>3, <2>4, PartFits
<1>5. CASE PageAlone
  <2>1. /\ cursor <= request.total /\ cursor' = cursor + 1
        /\ pieces' = Append(pieces, [start |-> cursor, end |-> cursor])
        /\ refused' = refused /\ ~between /\ ~between' /\ ~Broken
    BY <1>1, <1>3, <1>5 DEF PageAlone, Takes, UpToCursor, Broken
  <2> QED
    BY <1>0, <1>1, <1>2, <1>3, <2>1, PartFits
<1>6. ASSUME NEW b \in 2 .. MaxPlanPages + 1, CutHere(b)
      PROVE  (Cut /\ UpToCursor /\ Tiles)'
  <2>1. /\ cursor <= request.total /\ cursor' = b /\ b > cursor /\ b <= request.total + 1
        /\ b \in Nat
        /\ pieces' = Append(pieces, [start |-> cursor, end |-> b - 1])
        /\ refused' = refused /\ ~between /\ ~between' /\ ~Broken
    BY <1>1, <1>3, <1>6 DEF CutHere, Takes, Bounds, UpToCursor, Broken
  <2>2. b - 1 \in Nat /\ cursor <= b - 1
    BY <1>3, <2>1
  <2> QED
    BY <1>0, <1>1, <1>2, <1>3, <2>1, <2>2, PartFits
<1>7. CASE ChunkBetween
  <2>1. request.broken /\ cursor = request.every + 1 /\ cursor < request.total
    BY <1>1, <1>3, <1>7 DEF ChunkBetween, UpToCursor, Finished, Broken
  <2>2. UNCHANGED <<cursor, between, pieces>> /\ refused' = TRUE
    BY <1>7 DEF ChunkBetween
  <2>3. request.mode = "every" /\ request.every < request.total - 1
    BY <1>1, <1>3, <1>7, <2>1 DEF ChunkBetween, Cut
  <2> QED
    BY <1>0, <1>1, <1>2, <2>1, <2>2, <2>3 DEF UpToCursor, Tiles, Broken
<1>8. CASE UNCHANGED planVars
  BY <1>0, <1>1, <1>2, <1>8 DEF planVars, UpToCursor, Tiles, Finished, Broken, LosesLastPage
<1>9. ~PlanGroup /\ ~ReadToken
  BY <1>1 DEF PlanGroup, ReadToken
<1> QED
  BY <1>4, <1>5, <1>6, <1>7, <1>8, <1>9 DEF PlanNext

-----------------------------------------------------------------------------
(* Plans typed as ranges *)

\* A set of numbers up to n has a smallest and a largest one.
LEMMA EndsExist ==
    ASSUME NEW n \in Nat, NEW S, S \subseteq 1 .. n, S # {}
    PROVE  \E low, high \in S : \A k \in S : low <= k /\ k <= high
<1> DEFINE less == OpToRel(<, Nat)
           T == {n - k : k \in S}
<1>1. IsWellFoundedOn(less, Nat)
  BY NatLessThanWellFounded
<1>2. \A k, m \in Nat : k < m => <<k, m>> \in less
  BY DEF OpToRel
<1> HIDE DEF less
<1>3. S \subseteq Nat /\ T \subseteq Nat /\ T # {}
  <2>1. \A k \in S : k \in Nat /\ n - k \in Nat
    OBVIOUS
  <2>2. PICK k \in S : TRUE
    OBVIOUS
  <2>3. n - k \in T
    BY <2>2
  <2> QED
    BY <2>1, <2>3
<1>4. PICK low \in S : \A k \in S : ~(<<k, low>> \in less)
  BY <1>1, <1>3, WFMin
<1>5. PICK top \in T : \A k \in T : ~(<<k, top>> \in less)
  BY <1>1, <1>3, WFMin
<1>6. PICK high \in S : top = n - high
  BY <1>5
<1>7. ASSUME NEW k \in S PROVE low <= k /\ k <= high
  <2>1. /\ k \in 1 .. n /\ low \in 1 .. n /\ high \in 1 .. n
        /\ k \in Nat /\ low \in Nat /\ high \in Nat
    BY <1>4, <1>6
  <2>2. ~(k < low)
    BY <1>2, <1>4, <2>1
  <2>3. n - k \in T /\ n - k \in Nat /\ top \in Nat
    BY <1>6, <2>1
  <2>4. ~(n - k < top)
    BY <1>2, <1>5, <2>3
  <2> QED
    BY <1>6, <2>1, <2>2, <2>4
<1> QED
  BY <1>4, <1>6, <1>7

\* What is known of a text.
TextTyped ==
    /\ request.total \in Lengths
    /\ request.groups \in Seq(Seq(Token)) /\ request.groups # <<>>

\* The pages of the first tokens of a group.
PagesBefore(group, n) == UNION {PagesOf(group[i]) : i \in 1 .. n - 1}

\* Tokens of a group, up to one, that parse.
TokensFit(total, group, n) ==
    /\ \A i \in 1 .. n - 1 : group[i].from <= group[i].to
    /\ PagesBefore(group, n) \subseteq 1 .. total
    /\ \A i, j \in 1 .. n - 1 :
          i # j => PagesOf(group[i]) \intersect PagesOf(group[j]) = {}

\* The group under way has been read up to the token, and fits so far.
GroupReading ==
    /\ cursor \in 1 .. Len(request.groups) + 1
    /\ cursor <= Len(request.groups) /\ ~refused =>
          /\ token \in 1 .. Len(Group) + 1
          /\ seen = PagesBefore(Group, token)
          /\ TokensFit(request.total, Group, token)

\* The groups before it have their parts, and a plan is refused for one that does not fit.
GroupsPlanned ==
    /\ pieces \in Seq(Part) /\ Len(pieces) = cursor - 1
    /\ \A i \in 1 .. Len(pieces) :
          /\ pieces[i].start .. pieces[i].end = Wanted(request.groups[i])
          /\ ~Misfit(request.groups[i], request.total)
    /\ refused => cursor <= Len(request.groups) /\ Misfit(request.groups[cursor], request.total)

\* The inductive invariant of PagePlans for ranges.
RangesIInv == request.mode = "ranges" => TextTyped /\ GroupReading /\ GroupsPlanned

LEMMA RangesInitially == PlanInit => RangesIInv
<1> SUFFICES ASSUME PlanInit, request.mode = "ranges" PROVE TextTyped /\ GroupReading /\ GroupsPlanned
  BY DEF RangesIInv
<1>1. TextTyped
  BY PlanAssumption DEF PlanInit, Requests, TextTyped
<1>2. request.groups[1] \in Seq(Token) /\ Len(request.groups) \in Nat /\ Len(request.groups) # 0
  BY <1>1, ElementOfSeq, LenProperties, EmptySeq DEF TextTyped
<1>3. GroupReading
  <2>1. PagesBefore(Group, 1) = {}
    BY DEF PagesBefore
  <2>2. TokensFit(request.total, Group, 1)
    BY <2>1 DEF TokensFit
  <2>3. Len(Group) \in Nat
    BY <1>2, LenProperties DEF PlanInit, Group
  <2> QED
    BY <1>2, <2>1, <2>2, <2>3 DEF PlanInit, GroupReading
<1>4. GroupsPlanned
  BY DEF PlanInit, GroupsPlanned, Part
<1> QED
  BY <1>1, <1>3, <1>4

\* One token more.
LEMMA TokenMore ==
    ASSUME NEW total \in Nat, NEW g \in Seq(Token), NEW n \in 1 .. Len(g), TokensFit(total, g, n),
           1 <= g[n].from, g[n].from <= g[n].to, g[n].to <= total,
           PagesOf(g[n]) \intersect PagesBefore(g, n) = {}
    PROVE  /\ PagesBefore(g, n + 1) = PagesBefore(g, n) \union PagesOf(g[n])
           /\ TokensFit(total, g, n + 1)
<1>1. n \in Nat /\ 1 .. (n + 1) - 1 = 1 .. n - 1 \union {n}
  BY LenProperties
<1>2. g[n].from \in Nat /\ g[n].to \in Nat
  <2>1. g[n] \in Token
    BY ElementOfSeq
  <2> QED
    BY <2>1 DEF Token
<1>3. PagesBefore(g, n + 1) = PagesBefore(g, n) \union PagesOf(g[n])
  BY <1>1 DEF PagesBefore
<1>4. PagesOf(g[n]) \subseteq 1 .. total
  BY <1>2 DEF PagesOf
<1>5. \A i \in 1 .. n - 1 : PagesOf(g[i]) \intersect PagesOf(g[n]) = {}
  BY DEF PagesBefore
<1>6. \A i \in 1 .. (n + 1) - 1 : g[i].from <= g[i].to
  BY <1>1 DEF TokensFit
<1>7. PagesBefore(g, n + 1) \subseteq 1 .. total
  BY <1>3, <1>4 DEF TokensFit
<1>8. \A i, j \in 1 .. (n + 1) - 1 : i # j => PagesOf(g[i]) \intersect PagesOf(g[j]) = {}
  BY <1>1, <1>5 DEF TokensFit
<1> QED
  BY <1>3, <1>6, <1>7, <1>8 DEF TokensFit

\* The group under way.
LEMMA GroupUnderWay ==
    ASSUME TextTyped, GroupReading, ~Finished, request.mode = "ranges"
    PROVE  /\ ~refused /\ cursor \in 1 .. Len(request.groups) /\ Len(request.groups) \in Nat
           /\ Group \in Seq(Token) /\ Len(Group) \in Nat
           /\ token \in 1 .. Len(Group) + 1
           /\ seen = PagesBefore(Group, token)
           /\ TokensFit(request.total, Group, token)
<1>1. Len(request.groups) \in Nat
  BY LenProperties DEF TextTyped
<1>2. ~refused /\ cursor \in 1 .. Len(request.groups)
  BY <1>1 DEF GroupReading, Finished
<1>3. Group \in Seq(Token)
  BY <1>1, <1>2, ElementOfSeq DEF TextTyped, Group
<1> QED
  BY <1>1, <1>2, <1>3, LenProperties DEF GroupReading

\* A token that does not parse makes its group a misfit.
LEMMA TokenMisfit ==
    ASSUME NEW g \in Seq(Token), NEW n \in 1 .. Len(g), request.total \in Nat,
           seen = PagesBefore(g, n), ~TokenFits(g[n])
    PROVE  Misfit(g, request.total)
<1>1. n \in Nat /\ Len(g) \in Nat
  BY LenProperties
<1>2. g[n].from \in Nat /\ g[n].to \in Nat
  <2>1. g[n] \in Token
    BY ElementOfSeq
  <2> QED
    BY <2>1 DEF Token
<1>3. CASE g[n].from > g[n].to
  BY <1>3 DEF Misfit
<1>4. CASE g[n].from <= g[n].to /\ ~(1 <= g[n].from /\ g[n].to <= request.total)
  <2>1. g[n].from \in PagesOf(g[n]) /\ g[n].to \in PagesOf(g[n])
    BY <1>2, <1>4 DEF PagesOf
  <2>2. g[n].from \in Wanted(g) /\ g[n].to \in Wanted(g)
    BY <2>1 DEF Wanted
  <2>3. ~(Wanted(g) \subseteq 1 .. request.total)
    BY <1>2, <1>4, <2>2
  <2> QED
    BY <2>3 DEF Misfit
<1>5. CASE PagesOf(g[n]) \intersect PagesBefore(g, n) # {}
  <2>1. PICK i \in 1 .. n - 1 : PagesOf(g[i]) \intersect PagesOf(g[n]) # {}
    BY <1>5 DEF PagesBefore
  <2>2. i \in 1 .. Len(g) /\ i # n
    BY <1>1
  <2> QED
    BY <2>1, <2>2 DEF Misfit
<1> QED
  BY <1>2, <1>3, <1>4, <1>5 DEF TokenFits

LEMMA ReadKeepsRanges ==
    ASSUME TextTyped, GroupReading, GroupsPlanned, ReadToken
    PROVE  (TextTyped /\ GroupReading /\ GroupsPlanned)'
<1>1. /\ request.mode = "ranges" /\ ~Finished /\ token <= Len(Group)
      /\ request' = request /\ cursor' = cursor /\ pieces' = pieces
  BY DEF ReadToken
<1>2. PICK g \in Seq(Token), n \in Nat, total \in Nat :
           g = Group /\ n = token /\ total = request.total /\ n \in 1 .. Len(g)
  BY <1>1, GroupUnderWay DEF TextTyped, Lengths
<1>3. seen = PagesBefore(g, n) /\ TokensFit(total, g, n)
  BY <1>1, <1>2, GroupUnderWay
<1>4. ~refused /\ cursor \in 1 .. Len(request.groups) /\ Len(request.groups) \in Nat
  BY <1>1, GroupUnderWay
<1>5. Group' = g /\ request'.total = total
  BY <1>1, <1>2 DEF Group
<1>6. TextTyped'
  BY <1>1 DEF TextTyped
<1>7. CASE TokenFits(g[n])
  <2>1. seen' = seen \union PagesOf(g[n]) /\ token' = n + 1 /\ refused' = refused
    BY <1>2, <1>7 DEF ReadToken
  <2>2. PagesBefore(g, n + 1) = PagesBefore(g, n) \union PagesOf(g[n]) /\ TokensFit(total, g, n + 1)
    BY <1>2, <1>3, <1>7, TokenMore DEF TokenFits
  <2>3. GroupReading'
    <3>1. cursor' \in 1 .. Len(request'.groups) + 1
      BY <1>1 DEF GroupReading
    <3>2. token' \in 1 .. Len(g) + 1
      BY <1>2, <2>1, LenProperties
    <3> QED
      BY <1>3, <1>5, <2>1, <2>2, <3>1, <3>2 DEF GroupReading
  <2>4. GroupsPlanned'
    BY <1>1, <1>4, <2>1 DEF GroupsPlanned
  <2> QED
    BY <1>6, <2>3, <2>4
<1>8. CASE ~TokenFits(g[n])
  <2>1. refused' /\ UNCHANGED <<token, seen>>
    BY <1>2, <1>8 DEF ReadToken, parsing
  <2>2. Misfit(g, request.total)
    BY <1>2, <1>3, <1>8, TokenMisfit
  <2>3. GroupReading'
    BY <1>1, <2>1 DEF GroupReading
  <2>4. GroupsPlanned'
    <3>1. Misfit(request.groups[cursor], request.total)
      BY <1>2, <2>2 DEF Group
    <3> QED
      BY <1>1, <1>4, <2>1, <3>1 DEF GroupsPlanned
  <2> QED
    BY <1>6, <2>3, <2>4
<1> QED
  BY <1>7, <1>8

\* A group that has been read to its end.
LEMMA GroupRead ==
    ASSUME NEW g \in Seq(Token), request.total \in Lengths,
           TokensFit(request.total, g, Len(g) + 1)
    PROVE  /\ Wanted(g) = PagesBefore(g, Len(g) + 1)
           /\ Wanted(g) \subseteq 1 .. request.total
           /\ Misfit(g, request.total) <=> \A low, high \in Wanted(g) : low .. high # Wanted(g)
<1>1. /\ Len(g) \in Nat /\ 1 .. (Len(g) + 1) - 1 = 1 .. Len(g)
      /\ request.total \in Nat /\ request.total <= MaxPlanPages /\ MaxPlanPages \in Nat
  BY LenProperties, PlanAssumption DEF Lengths
<1>2. Wanted(g) = PagesBefore(g, Len(g) + 1)
  BY <1>1 DEF Wanted, PagesBefore
<1>3. Wanted(g) \subseteq 1 .. request.total
  BY <1>2 DEF TokensFit
<1>4. /\ \A i \in 1 .. Len(g) : ~(g[i].from > g[i].to)
      /\ \A i, j \in 1 .. Len(g) : i # j => PagesOf(g[i]) \intersect PagesOf(g[j]) = {}
  <2>1. ASSUME NEW i \in 1 .. Len(g) PROVE ~(g[i].from > g[i].to)
    <3>1. g[i] \in Token
      BY ElementOfSeq
    <3>2. g[i].from \in Nat /\ g[i].to \in Nat /\ i \in 1 .. (Len(g) + 1) - 1
      BY <1>1, <3>1 DEF Token
    <3>3. g[i].from <= g[i].to
      BY <3>2 DEF TokensFit
    <3> QED
      BY <3>2, <3>3
  <2>2. \A i, j \in 1 .. Len(g) : i # j => PagesOf(g[i]) \intersect PagesOf(g[j]) = {}
    BY <1>1 DEF TokensFit
  <2> QED
    BY <2>1, <2>2
<1>5. Misfit(g, request.total) <=> \/ Wanted(g) = {}
                    \/ \E p, q \in Wanted(g), n \in 1 .. request.total \ Wanted(g) : p < n /\ n < q
  BY <1>3, <1>4 DEF Misfit
<1>6. ASSUME Misfit(g, request.total), NEW low \in Wanted(g), NEW high \in Wanted(g), low .. high = Wanted(g)
      PROVE  FALSE
  <2>1. PICK p \in Wanted(g), q \in Wanted(g), n \in 1 .. request.total \ Wanted(g) : p < n /\ n < q
    BY <1>5, <1>6
  <2>2. p \in low .. high /\ q \in low .. high /\ n \in Nat /\ low \in Nat /\ high \in Nat
    BY <1>3, <1>6, <2>1 DEF Lengths
  <2>3. n \in low .. high
    BY <2>1, <2>2
  <2> QED
    BY <1>6, <2>1, <2>3
<1>7. ASSUME ~Misfit(g, request.total) PROVE \E low, high \in Wanted(g) : low .. high = Wanted(g)
  <2>1. PICK low \in Wanted(g), high \in Wanted(g) :
             \A k \in Wanted(g) : low <= k /\ k <= high
    BY <1>1, <1>3, <1>5, <1>7, EndsExist
  <2>2. low \in 1 .. request.total /\ high \in 1 .. request.total
    BY <1>3
  <2>3. Wanted(g) \subseteq low .. high
    BY <1>1, <1>3, <2>1, <2>2
  <2>4. ASSUME NEW n \in low .. high, n \notin Wanted(g) PROVE FALSE
    <3>1. n \in 1 .. request.total /\ low < n /\ n < high
      BY <1>1, <2>2, <2>4
    <3> QED
      BY <1>5, <1>7, <2>4, <3>1
  <2> QED
    BY <2>3, <2>4
<1> QED
  BY <1>2, <1>3, <1>6, <1>7

LEMMA GroupKeepsRanges ==
    ASSUME TextTyped, GroupReading, GroupsPlanned, PlanGroup
    PROVE  (TextTyped /\ GroupReading /\ GroupsPlanned)'
<1>1. request.mode = "ranges" /\ ~Finished /\ token > Len(Group) /\ request' = request
  BY DEF PlanGroup
<1>2. PICK g \in Seq(Token), c \in Nat : g = Group /\ c = cursor /\ c \in 1 .. Len(request.groups)
  BY <1>1, GroupUnderWay
<1>3. ~refused /\ Len(request.groups) \in Nat /\ g = request.groups[c]
  BY <1>1, <1>2, GroupUnderWay DEF Group
<1>4. token = Len(g) + 1 /\ seen = PagesBefore(g, Len(g) + 1) /\ TokensFit(request.total, g, Len(g) + 1)
  <2>1. token \in 1 .. Len(g) + 1 /\ token > Len(g) /\ Len(g) \in Nat
    BY <1>1, <1>2, GroupUnderWay
  <2>2. token = Len(g) + 1
    BY <2>1
  <2> QED
    BY <1>1, <1>2, <2>2, GroupUnderWay
<1>5. /\ seen = Wanted(g) /\ seen \subseteq Nat
      /\ Misfit(g, request.total) <=> \A low, high \in seen : low .. high # seen
  <2>1. request.total \in Lengths
    BY DEF TextTyped
  <2>2. /\ Wanted(g) = PagesBefore(g, Len(g) + 1)
        /\ Wanted(g) \subseteq 1 .. request.total
        /\ Misfit(g, request.total) <=> \A low, high \in Wanted(g) : low .. high # Wanted(g)
    BY <1>4, <2>1, GroupRead
  <2> QED
    BY <1>4, <2>2
<1>6. TextTyped'
  BY <1>1 DEF TextTyped
<1>7. ASSUME NEW low \in seen, NEW high \in seen, low .. high = seen,
             pieces' = Append(pieces, [start |-> low, end |-> high]),
             cursor' = cursor + 1, token' = 1, seen' = {}, refused' = refused
      PROVE  (GroupReading /\ GroupsPlanned)'
  <2> DEFINE piece == [start |-> low, end |-> high]
  <2>1. piece \in Part /\ piece.start .. piece.end = Wanted(g)
    BY <1>5, <1>7 DEF Part
  <2>2. ~Misfit(g, request.total)
    BY <1>5, <1>7
  <2> HIDE DEF piece
  <2>3. pieces \in Seq(Part) /\ Len(pieces) = c - 1
    BY <1>2 DEF GroupsPlanned
  <2>4. /\ pieces' \in Seq(Part) /\ Len(pieces') = c
        /\ pieces'[c] = piece
        /\ \A i \in 1 .. c - 1 : pieces'[i] = pieces[i]
    <3>1. pieces' = Append(pieces, piece)
      BY <1>7 DEF piece
    <3>2. /\ Append(pieces, piece) \in Seq(Part)
          /\ Len(Append(pieces, piece)) = Len(pieces) + 1
          /\ Append(pieces, piece)[Len(pieces) + 1] = piece
          /\ \A i \in 1 .. Len(pieces) : Append(pieces, piece)[i] = pieces[i]
      BY <2>1, <2>3, AppendProperties
    <3>3. (c - 1) + 1 = c
      OBVIOUS
    <3> QED
      BY <2>3, <3>1, <3>2, <3>3
  <2>5. ASSUME NEW i \in 1 .. c
        PROVE  /\ pieces'[i].start .. pieces'[i].end = Wanted(request.groups[i])
               /\ ~Misfit(request.groups[i], request.total)
    <3>1. CASE i = c
      BY <1>3, <2>1, <2>2, <2>4, <3>1
    <3>2. CASE i # c
      <4>1. i \in 1 .. c - 1
        BY <3>2
      <4> QED
        BY <2>3, <2>4, <4>1 DEF GroupsPlanned
    <3> QED
      BY <3>1, <3>2
  <2>6. cursor' = c + 1
    BY <1>2, <1>7
  <2>7. GroupsPlanned'
    <3>1. Len(pieces') = cursor' - 1
      BY <2>4, <2>6
    <3> QED
      BY <1>1, <1>3, <1>7, <2>4, <2>5, <3>1 DEF GroupsPlanned
  <2>8. GroupReading'
    <3>1. cursor' \in 1 .. Len(request'.groups) + 1
      BY <1>1, <1>2, <1>3, <2>6
    <3>2. cursor' <= Len(request'.groups) => token' \in 1 .. Len(Group') + 1
      <4>1. cursor' <= Len(request'.groups) => Len(Group') \in Nat
        <5> SUFFICES ASSUME cursor' <= Len(request'.groups) PROVE Len(Group') \in Nat
          OBVIOUS
        <5>1. c + 1 \in 1 .. Len(request.groups)
          BY <1>1, <1>3, <2>6
        <5>2. request.groups[c + 1] \in Seq(Token)
          BY <5>1, ElementOfSeq DEF TextTyped
        <5> QED
          BY <1>1, <2>6, <5>2, LenProperties DEF Group
      <4> QED
        BY <1>7, <4>1
    <3>3. PagesBefore(Group', 1) = {} /\ TokensFit(request'.total, Group', 1)
      BY DEF PagesBefore, TokensFit
    <3> QED
      BY <1>7, <3>1, <3>2, <3>3 DEF GroupReading
  <2> QED
    BY <2>7, <2>8
<1>8. ASSUME \A low, high \in seen : low .. high # seen,
             refused' = TRUE, UNCHANGED <<cursor, token, seen, pieces>>
      PROVE  (GroupReading /\ GroupsPlanned)'
  <2>1. Misfit(request.groups[cursor], request.total) /\ cursor <= Len(request.groups)
    BY <1>2, <1>3, <1>5, <1>8
  <2>2. GroupReading'
    BY <1>1, <1>8 DEF GroupReading
  <2>3. GroupsPlanned'
    BY <1>1, <1>8, <2>1 DEF GroupsPlanned
  <2> QED
    BY <2>2, <2>3
<1> QED
  BY <1>6, <1>7, <1>8 DEF PlanGroup, parsing

LEMMA RangesStaySound == RangesIInv /\ [PlanNext]_planVars => RangesIInv'
<1> SUFFICES ASSUME RangesIInv, [PlanNext]_planVars, request'.mode = "ranges"
             PROVE  (TextTyped /\ GroupReading /\ GroupsPlanned)'
  BY DEF RangesIInv
<1>1. request' = request
  BY DEF PlanNext, planVars, NextChunk, ChunkBetween, PageAlone, CutHere, ReadToken, PlanGroup,
         Takes
<1>2. TextTyped /\ GroupReading /\ GroupsPlanned /\ request.mode = "ranges"
  BY <1>1 DEF RangesIInv
<1>3. ReadToken \/ PlanGroup \/ UNCHANGED planVars
  BY <1>2 DEF PlanNext, NextChunk, ChunkBetween, PageAlone, CutHere
<1>4. CASE UNCHANGED planVars
  BY <1>2, <1>4 DEF planVars, parsing, TextTyped, GroupReading, GroupsPlanned, Group
<1> QED
  BY <1>2, <1>3, <1>4, ReadKeepsRanges, GroupKeepsRanges

\* A plan that is over was refused for a misfit, or gave every group its part.
LEMMA RangesAsTyped == RangesIInv /\ request.mode = "ranges" => AsTyped
<1> SUFFICES ASSUME TextTyped, GroupReading, GroupsPlanned, request.mode = "ranges", Finished
             PROVE  /\ refused <=> \E i \in 1 .. Len(request.groups) :
                                       Misfit(request.groups[i], request.total)
                    /\ ~refused => /\ Len(pieces) = Len(request.groups)
                                   /\ \A i \in 1 .. Len(pieces) :
                                         pieces[i].start .. pieces[i].end = Wanted(request.groups[i])
  BY DEF RangesIInv, AsTyped
<1>1. cursor \in 1 .. Len(request.groups) + 1 /\ Len(request.groups) \in Nat
  BY LenProperties DEF TextTyped, GroupReading
<1>2. CASE refused
  <2>1. cursor \in 1 .. Len(request.groups)
    BY <1>1, <1>2 DEF GroupsPlanned
  <2> QED
    BY <1>2, <2>1 DEF GroupsPlanned
<1>3. CASE ~refused
  <2>1. Len(pieces) = Len(request.groups)
    BY <1>1, <1>3 DEF Finished, GroupsPlanned
  <2> QED
    BY <1>3, <2>1 DEF GroupsPlanned
<1> QED
  BY <1>2, <1>3

\* parsePageRanges.ts and splitPdf.ts, for documents of any length and any text: pages cut one
\* by one, every so many or at given pages come out in parts that repeat no page and lose none,
\* or the last one to a number of pages per file that is not whole; typed
\* ranges give a part for every group, of the very pages typed, and are refused exactly when a
\* group is out of the document, backwards, has a gap or gives a page twice.
THEOREM PartsAlwaysFit == PlanSpec => []PartsFitRequest
<1>1. PlanIInv /\ RangesIInv => PartsFitRequest
  BY RangesAsTyped DEF PlanIInv, PartsFitRequest
<1> QED
  BY PlanInitiallySound, PlanStaysSound, RangesInitially, RangesStaySound, <1>1, PTL DEF PlanSpec


-----------------------------------------------------------------------------
(* The crop box *)

Margins == [Edges -> Nat]

MarginsOK == turned \in {0, 90, 180, 270} /\ margins \in Margins

\* The box of margins that fit is the page less the margins.
LEMMA BoxOfMargins ==
    ASSUME NEW m \in Margins
    PROVE  LET b == marginsToCropBox(m) IN
           /\ b.x = m["left"] /\ b.y = m["bottom"]
           /\ b.w = Larger(1, PageW - m["left"] - m["right"])
           /\ b.h = Larger(1, PageH - m["top"] - m["bottom"])
BY GeometryAssumption DEF Margins, Edges, marginsToCropBox, Larger

\* The near edge of a side with room to drag stays in the page and leaves the far one.
LEMMA PullKeepsFar ==
    ASSUME NEW low \in Nat, NEW size \in Int, NEW d \in Int, size >= minSize
    PROVE  LET p == Pull(low, size, d) IN
           p.at \in Nat /\ p.size \in Nat /\ p.size >= minSize /\ p.at + p.size = low + size
BY DEF Pull, Smaller, minSize

LEMMA PushKeepsNear ==
    ASSUME NEW low \in Nat, NEW size \in Int, NEW d \in Int, NEW room \in Nat,
           size >= minSize, low + size <= room
    PROVE  /\ Push(low, size, d, room) \in Nat /\ Push(low, size, d, room) >= minSize
           /\ low + Push(low, size, d, room) <= room
BY DEF Push, Smaller, Larger, minSize

LEMMA ClampLeaves ==
    ASSUME turned = 0, NEW b, b.x \in Nat, b.y \in Nat, b.w \in Nat, b.h \in Nat,
           b.w >= minSize, b.x + b.w <= PageW, b.h >= minSize, b.y + b.h <= PageH
    PROVE  LET c == clampCrop(b) IN c.x = b.x /\ c.y = b.y /\ c.w = b.w /\ c.h = b.h
BY GeometryAssumption DEF clampCrop, Larger, Smaller, minSize, widthPt, heightPt

LEMMA MarginsOfBox ==
    ASSUME NEW b, b.x \in Nat, b.y \in Nat, b.w \in Nat, b.h \in Nat,
           b.x + b.w <= PageW, b.y + b.h <= PageH
    PROVE  LET m == cropBoxToMargins(b) IN
           /\ m \in Margins
           /\ m["left"] = b.x /\ m["bottom"] = b.y
           /\ m["right"] = PageW - b.x - b.w /\ m["top"] = PageH - b.y - b.h
BY GeometryAssumption DEF cropBoxToMargins, Larger, Margins, Edges

LEMMA AnyBoxHasMargins ==
    ASSUME NEW b, b.x \in Int, b.y \in Int, b.w \in Int, b.h \in Int
    PROVE  cropBoxToMargins(b) \in Margins
BY GeometryAssumption DEF cropBoxToMargins, Larger, Margins, Edges

LEMMA DragsToMargins ==
    ASSUME margins \in Margins, NEW e \in Edges, NEW d \in Int
    PROVE  cropBoxToMargins(clampCrop(updateFromClientDelta(marginsToCropBox(margins), e, d)))
               \in Margins
<1> DEFINE b == marginsToCropBox(margins)
           u == updateFromClientDelta(b, e, d)
           c == clampCrop(u)
<1>1. b \in [x : Int, y : Int, w : Int, h : Int]
  BY GeometryAssumption DEF Margins, Edges, marginsToCropBox, Larger
<1> HIDE DEF b
<1>2. u \in [x : Int, y : Int, w : Int, h : Int]
  <2>1. CASE e = "left"
    <3>1. PICK at \in Int, size \in Int : Pull(b.x, b.w, d) = [at |-> at, size |-> size]
      BY <1>1 DEF Pull, Smaller, minSize
    <3> DEFINE y == [b EXCEPT !.x = at]
    <3>2. y \in [x : Int, y : Int, w : Int, h : Int]
      BY <1>1
    <3> HIDE DEF y
    <3>3. [y EXCEPT !.w = size] \in [x : Int, y : Int, w : Int, h : Int]
      BY <3>2
    <3>4. u = [y EXCEPT !.w = size]
      BY <2>1, <3>1 DEF updateFromClientDelta, y
    <3> QED
      BY <3>3, <3>4
  <2>2. CASE e = "bottom"
    <3>1. PICK at \in Int, size \in Int : Pull(b.y, b.h, d) = [at |-> at, size |-> size]
      BY <1>1 DEF Pull, Smaller, minSize
    <3> DEFINE y == [b EXCEPT !.y = at]
    <3>2. y \in [x : Int, y : Int, w : Int, h : Int]
      BY <1>1
    <3> HIDE DEF y
    <3>3. [y EXCEPT !.h = size] \in [x : Int, y : Int, w : Int, h : Int]
      BY <3>2
    <3>4. u = [y EXCEPT !.h = size]
      BY <2>2, <3>1 DEF updateFromClientDelta, y
    <3> QED
      BY <3>3, <3>4
  <2>3. CASE e = "right"
    <3>1. PICK n \in Int : Push(b.x, b.w, d, widthPt) = n
      BY <1>1, GeometryAssumption DEF Push, Smaller, Larger, minSize, widthPt
    <3>2. u = [b EXCEPT !.w = n]
      BY <2>3, <3>1 DEF updateFromClientDelta
    <3> QED
      BY <1>1, <3>2
  <2>4. CASE e = "top"
    <3>1. PICK n \in Int : Push(b.y, b.h, d, heightPt) = n
      BY <1>1, GeometryAssumption DEF Push, Smaller, Larger, minSize, heightPt
    <3>2. u = [b EXCEPT !.h = n]
      BY <2>4, <3>1 DEF updateFromClientDelta
    <3> QED
      BY <1>1, <3>2
  <2> QED
    BY <2>1, <2>2, <2>3, <2>4 DEF Edges
<1> HIDE DEF u
<1>3. c.x \in Int /\ c.y \in Int /\ c.w \in Int /\ c.h \in Int
  BY <1>2, GeometryAssumption DEF clampCrop, Larger, Smaller, minSize, widthPt, heightPt
<1> HIDE DEF c
<1>4. cropBoxToMargins(c) \in Margins
  BY <1>3, AnyBoxHasMargins
<1> QED
  BY <1>4 DEF b, u, c

LEMMA GeomInvariant == GeomSpec => []MarginsOK
<1>1. GeomInit => MarginsOK
  BY DEF GeomInit, MarginsOK, uniformMargins, Margins
<1>2. MarginsOK /\ [GeomNext]_geomVars => MarginsOK'
  <2> SUFFICES ASSUME MarginsOK, [GeomNext]_geomVars PROVE MarginsOK'
    OBVIOUS
  <2>1. ASSUME NEW e \in Edges, NEW d \in -MaxDrag .. MaxDrag, DragEdge(e, d) PROVE MarginsOK'
    <3>1. d \in Int
      BY GeometryAssumption
    <3> QED
      BY <2>1, <3>1, DragsToMargins DEF MarginsOK, DragEdge
  <2>2. ASSUME NEW e \in Edges, NEW v \in Typable, setMarginField(e, v) PROVE MarginsOK'
    <3>1. Larger(0, v) \in Nat
      BY GeometryAssumption DEF Larger
    <3> QED
      BY <2>2, <3>1 DEF MarginsOK, setMarginField, Margins
  <2>3. ASSUME NEW pt \in {v \in Typable : v >= 0}, applyPreset(pt) PROVE MarginsOK'
    <3>1. pt \in Nat
      BY GeometryAssumption
    <3> QED
      BY <2>3, <3>1 DEF MarginsOK, applyPreset, uniformMargins, Margins
  <2>4. CASE cropPdf
    BY <2>4 DEF MarginsOK, cropPdf
  <2>5. CASE UNCHANGED geomVars
    BY <2>5 DEF MarginsOK, geomVars
  <2> QED
    BY <2>1, <2>2, <2>3, <2>4, <2>5 DEF GeomNext
<1> QED
  BY <1>1, <1>2, PTL DEF GeomSpec

\* One drag on a page that is not turned.
LEMMA DragMovesOne ==
    ASSUME MarginsOK, turned = 0, Draggable, NEW e \in Edges, NEW d \in Int, DragEdge(e, d)
    PROVE  /\ \A o \in Edges \ {e} : margins'[o] = margins[o]
           /\ Draggable'
<1> DEFINE b == marginsToCropBox(margins)
           u == updateFromClientDelta(b, e, d)
           c == clampCrop(u)
           m == cropBoxToMargins(c)
<1>1. margins' = m /\ margins \in Margins
  BY DEF DragEdge, MarginsOK
<1>2. /\ b.x = margins["left"] /\ b.y = margins["bottom"]
      /\ b.w = PageW - margins["left"] - margins["right"]
      /\ b.h = PageH - margins["top"] - margins["bottom"]
      /\ b.w >= minSize /\ b.h >= minSize
      /\ b.x \in Nat /\ b.y \in Nat /\ b.w \in Nat /\ b.h \in Nat
  BY <1>1, BoxOfMargins, GeometryAssumption DEF Draggable, Larger, minSize, Margins, Edges
<1>3. b \in [x : Nat, y : Nat, w : Nat, h : Nat]
  BY <1>2 DEF marginsToCropBox
<1> HIDE DEF b
<1>4. b.x + b.w <= PageW /\ b.y + b.h <= PageH
  BY <1>1, <1>2, GeometryAssumption DEF Margins, Edges
<1>5. /\ u.x \in Nat /\ u.y \in Nat /\ u.w \in Nat /\ u.h \in Nat
      /\ u.w >= minSize /\ u.x + u.w <= PageW /\ u.h >= minSize /\ u.y + u.h <= PageH
      /\ e # "left" => u.x = b.x
      /\ e # "bottom" => u.y = b.y
      /\ e # "right" => u.x + u.w = b.x + b.w
      /\ e # "top" => u.y + u.h = b.y + b.h
  <2>1. CASE e = "left"
    <3> DEFINE low == b.x
               old == b.w
    <3>1. PICK at \in Nat, size \in Nat : /\ Pull(b.x, b.w, d).at = at
                                          /\ Pull(b.x, b.w, d).size = size
                                          /\ size >= minSize /\ at + size = b.x + b.w
      <4>1. low \in Nat /\ old \in Int /\ old >= minSize
        BY <1>2
      <4> HIDE DEF low, old
      <4> DEFINE p == Pull(low, old, d)
      <4>2. p.at \in Nat /\ p.size \in Nat /\ p.size >= minSize /\ p.at + p.size = low + old
        BY <4>1, PullKeepsFar
      <4> HIDE DEF p
      <4>3. \E at \in Nat, size \in Nat : /\ p.at = at /\ p.size = size
                                         /\ size >= minSize /\ at + size = low + old
        BY <4>2
      <4> QED
        BY <4>3 DEF p, low, old
    <3> DEFINE y == [b EXCEPT !.x = at]
    <3>2. y \in [x : Nat, y : Nat, w : Nat, h : Nat] /\ y.x = at /\ y.y = b.y /\ y.h = b.h
      BY <1>3
    <3> HIDE DEF y
    <3> DEFINE z == [y EXCEPT !.w = size]
    <3>3. z.x = at /\ z.y = b.y /\ z.h = b.h /\ z.w = size
      BY <3>2
    <3>4. u = z
      BY <2>1, <3>1 DEF updateFromClientDelta, y
    <3> HIDE DEF z, u
    <3> QED
      BY <1>2, <1>4, <2>1, <3>1, <3>3, <3>4
  <2>2. CASE e = "bottom"
    <3> DEFINE low == b.y
               old == b.h
    <3>1. PICK at \in Nat, size \in Nat : /\ Pull(b.y, b.h, d).at = at
                                          /\ Pull(b.y, b.h, d).size = size
                                          /\ size >= minSize /\ at + size = b.y + b.h
      <4>1. low \in Nat /\ old \in Int /\ old >= minSize
        BY <1>2
      <4> HIDE DEF low, old
      <4> DEFINE p == Pull(low, old, d)
      <4>2. p.at \in Nat /\ p.size \in Nat /\ p.size >= minSize /\ p.at + p.size = low + old
        BY <4>1, PullKeepsFar
      <4> HIDE DEF p
      <4>3. \E at \in Nat, size \in Nat : /\ p.at = at /\ p.size = size
                                         /\ size >= minSize /\ at + size = low + old
        BY <4>2
      <4> QED
        BY <4>3 DEF p, low, old
    <3> DEFINE y == [b EXCEPT !.y = at]
    <3>2. y \in [x : Nat, y : Nat, w : Nat, h : Nat] /\ y.y = at /\ y.x = b.x /\ y.w = b.w
      BY <1>3
    <3> HIDE DEF y
    <3> DEFINE z == [y EXCEPT !.h = size]
    <3>3. z.y = at /\ z.x = b.x /\ z.w = b.w /\ z.h = size
      BY <3>2
    <3>4. u = z
      BY <2>2, <3>1 DEF updateFromClientDelta, y
    <3> HIDE DEF z, u
    <3> QED
      BY <1>2, <1>4, <2>2, <3>1, <3>3, <3>4
  <2>3. CASE e = "right"
    <3> DEFINE low == b.x
               old == b.w
    <3>1. PICK n \in Nat : Push(b.x, b.w, d, PageW) = n /\ n >= minSize /\ b.x + n <= PageW
      <4>1. low \in Nat /\ old \in Int /\ old >= minSize /\ low + old <= PageW /\ PageW \in Nat
        BY <1>2, <1>4, GeometryAssumption
      <4> HIDE DEF low, old
      <4>2. /\ Push(low, old, d, PageW) \in Nat /\ Push(low, old, d, PageW) >= minSize
            /\ low + Push(low, old, d, PageW) <= PageW
        BY <4>1, PushKeepsNear
      <4> QED
        BY <4>2 DEF low, old
    <3>2. u = [b EXCEPT !.w = n]
      BY <2>3, <3>1 DEF updateFromClientDelta, widthPt
    <3> QED
      BY <1>2, <1>3, <1>4, <2>3, <3>1, <3>2
  <2>4. CASE e = "top"
    <3> DEFINE low == b.y
               old == b.h
    <3>1. PICK n \in Nat : Push(b.y, b.h, d, PageH) = n /\ n >= minSize /\ b.y + n <= PageH
      <4>1. low \in Nat /\ old \in Int /\ old >= minSize /\ low + old <= PageH /\ PageH \in Nat
        BY <1>2, <1>4, GeometryAssumption
      <4> HIDE DEF low, old
      <4>2. /\ Push(low, old, d, PageH) \in Nat /\ Push(low, old, d, PageH) >= minSize
            /\ low + Push(low, old, d, PageH) <= PageH
        BY <4>1, PushKeepsNear
      <4> QED
        BY <4>2 DEF low, old
    <3>2. u = [b EXCEPT !.h = n]
      BY <2>4, <3>1 DEF updateFromClientDelta, heightPt
    <3> QED
      BY <1>2, <1>3, <1>4, <2>4, <3>1, <3>2
  <2> QED
    BY <2>1, <2>2, <2>3, <2>4 DEF Edges
<1> HIDE DEF u
<1>6. c.x = u.x /\ c.y = u.y /\ c.w = u.w /\ c.h = u.h
  BY <1>5, ClampLeaves
<1> HIDE DEF c
<1>7. /\ m \in Margins
      /\ m["left"] = u.x /\ m["bottom"] = u.y
      /\ m["right"] = PageW - u.x - u.w /\ m["top"] = PageH - u.y - u.h
  BY <1>5, <1>6, MarginsOfBox
<1> HIDE DEF m
<1>8. \A o \in Edges \ {e} : m[o] = margins[o]
  <2>1. /\ margins["left"] \in Int /\ margins["right"] \in Int
        /\ margins["top"] \in Int /\ margins["bottom"] \in Int
    BY <1>1 DEF Edges, Margins
  <2>2. e # "left" => m["left"] = margins["left"]
    BY <1>2, <1>5, <1>7
  <2>3. e # "bottom" => m["bottom"] = margins["bottom"]
    BY <1>2, <1>5, <1>7
  <2>4. e # "right" => m["right"] = margins["right"]
    <3> SUFFICES ASSUME e # "right" PROVE m["right"] = margins["right"]
      OBVIOUS
    <3> DEFINE at == u.x
               size == u.w
               near == margins["left"]
               far == margins["right"]
    <3>1. at \in Int /\ size \in Int /\ near \in Int /\ far \in Int
      BY <1>5, <2>1
    <3>2. m["right"] = PageW - at - size
      BY <1>7
    <3>3. at + size = near + (PageW - near - far)
      <4>1. at + size = b.x + b.w
        BY <1>5
      <4>2. b.x = near
        BY <1>2
      <4>3. b.w = PageW - near - far
        BY <1>2
      <4> HIDE DEF at, size, near, far
      <4> QED
        BY <4>1, <4>2, <4>3
    <3> HIDE DEF at, size, near, far
    <3>4. m["right"] = far
      BY <3>1, <3>2, <3>3, GeometryAssumption
    <3> QED
      BY <3>4 DEF far
  <2>5. e # "top" => m["top"] = margins["top"]
    <3> SUFFICES ASSUME e # "top" PROVE m["top"] = margins["top"]
      OBVIOUS
    <3> DEFINE at == u.y
               size == u.h
               near == margins["bottom"]
               far == margins["top"]
    <3>1. at \in Int /\ size \in Int /\ near \in Int /\ far \in Int
      BY <1>5, <2>1
    <3>2. m["top"] = PageH - at - size
      BY <1>7
    <3>3. at + size = near + (PageH - far - near)
      <4>1. at + size = b.y + b.h
        BY <1>5
      <4>2. b.y = near
        BY <1>2
      <4>3. b.h = PageH - far - near
        BY <1>2
      <4> HIDE DEF at, size, near, far
      <4> QED
        BY <4>1, <4>2, <4>3
    <3> HIDE DEF at, size, near, far
    <3>4. m["top"] = far
      BY <3>1, <3>2, <3>3, GeometryAssumption
    <3> QED
      BY <3>4 DEF far
  <2> QED
    BY <2>2, <2>3, <2>4, <2>5 DEF Edges
<1>9. Draggable'
  <2> DEFINE n == marginsToCropBox(m)
  <2>1. /\ n.x = m["left"] /\ n.y = m["bottom"]
        /\ n.w = Larger(1, PageW - m["left"] - m["right"])
        /\ n.h = Larger(1, PageH - m["top"] - m["bottom"])
    BY <1>7, BoxOfMargins
  <2> HIDE DEF n
  <2>2. n.x = u.x /\ n.y = u.y /\ n.w = u.w /\ n.h = u.h
    BY <1>5, <1>7, <2>1, GeometryAssumption DEF Larger, minSize
  <2>3. marginsToCropBox(margins)' = n
    BY <1>1 DEF n, marginsToCropBox
  <2> QED
    BY <1>5, <2>2, <2>3 DEF Draggable
<1> QED
  BY <1>1, <1>8, <1>9

\* CropTool.tsx over pageGeometry.ts: on a page of any size that is not turned, dragging one
\* edge of a box that fits the page moves no other edge, whatever clamps the pointer runs
\* into, and leaves a box that fits.
THEOREM DragsMoveOneEdge == GeomSpec => DragMovesOneEdge
<1> DEFINE OneEdge == edge' # "none" /\ turned = 0 /\ Draggable =>
                          /\ \A e \in Edges \ {edge'} : margins'[e] = margins[e]
                          /\ Draggable'
<1>1. ASSUME MarginsOK, [GeomNext]_geomVars PROVE [OneEdge]_geomVars
  <2>1. ASSUME NEW e \in Edges, NEW d \in -MaxDrag .. MaxDrag, DragEdge(e, d) PROVE OneEdge
    <3>1. d \in Int /\ edge' = e
      BY <2>1, GeometryAssumption DEF DragEdge
    <3>2. turned = 0 /\ Draggable => /\ \A o \in Edges \ {e} : margins'[o] = margins[o]
                                     /\ Draggable'
      BY <1>1, <2>1, <3>1, DragMovesOne
    <3> QED
      BY <3>1, <3>2
  <2>2. CASE \/ \E e \in Edges, v \in Typable : setMarginField(e, v)
             \/ \E pt \in {v \in Typable : v >= 0} : applyPreset(pt)
             \/ cropPdf
    BY <2>2 DEF setMarginField, applyPreset, cropPdf
  <2> QED
    BY <1>1, <2>1, <2>2 DEF GeomNext
<1> QED
  BY <1>1, GeomInvariant, PTL DEF GeomSpec, DragMovesOneEdge

-----------------------------------------------------------------------------
(* The table tool *)

DetectSet == [gen : Nat \ {0}, kind : {"detect", "ocr"}, file : Nat \ {NoSource}]

TableTypeOK ==
    /\ sources \in Nat /\ gen \in Nat
    /\ inBench \in 0 .. sources
    /\ handed \in {Awaited} \union 0 .. sources
    /\ ocrConsent \in 0 .. sources
    /\ underWay \subseteq DetectSet
    /\ signalled \subseteq Nat

\* Generations are given once, in order.
GensApart ==
    /\ \A r \in underWay : r.gen <= gen /\ r.file <= sources
    /\ \A n \in signalled : n <= gen
    /\ \A r, q \in underWay : r.gen = q.gen => r = q

\* The run of the current generation is the one the tool is busy with, on the file in
\* the workbench; the runs before it were told to stop.
BusyWithCurrent ==
    /\ busyFlag <=> \E run \in underWay : IsCurrent(run)
    /\ \A r \in underWay :
          /\ r.gen \notin signalled => IsCurrent(r)
          /\ IsCurrent(r) => r.file = inBench
          /\ IsCurrent(r) /\ r.kind = "detect" => r.gen \notin signalled
          /\ IsCurrent(r) /\ r.kind = "ocr" => ocrConsent # NoSource

\* The box is ticked for the file in the workbench, unless a handoff brought it.
ConsentFits == ocrConsent = NoSource \/ inBench = handed \/ ocrConsent = inBench

\* An error is shown only of a run that is over, or of an export.
ErrorIsLast == errorShown => ~busyFlag /\ inBench # NoSource

\* The tables listed are those of the file in the workbench, unless its detection failed
\* or is still under way.
TableListFits ==
    \/ inBench = NoSource
    \/ inBench \in unread
    \/ tables = inBench
    \/ \E r \in underWay : IsCurrent(r) /\ r.kind = "detect"

BookFits == book # NothingYet /\ book.file \notin unread => book.tables = book.file

SentFits ==
    sent # NothingYet =>
        /\ sent.file \in 1 .. sources
        /\ ~sent.stopped /\ sent.seen = sent.file
        /\ sent.tick # NoSource
        /\ sent.file # handed => sent.tick = sent.file

\* The inductive invariant of TablesOfFile.
TableIInv ==
    /\ TableTypeOK
    /\ GensApart /\ BusyWithCurrent /\ ConsentFits /\ ErrorIsLast /\ TableListFits
    /\ BookFits /\ SentFits

LEMMA TableInitially == TableInit => TableIInv
BY DEF TableInit, TableIInv, TableTypeOK, GensApart, BusyWithCurrent, ConsentFits, ErrorIsLast,
       TableListFits, BookFits, SentFits, NoSource, Awaited, NothingYet, DetectSet

\* A detection of the file in the workbench starts: the runs before it are told to stop.
LEMMA DetectsKeepsTables ==
    ASSUME TableIInv, inBench' \in Nat \ {NoSource}, inBench' <= sources',
           sources' \in Nat, sources <= sources', Detects(inBench'),
           \/ ocrConsent' = NoSource
           \/ ocrConsent' = ocrConsent /\ inBench' = handed' 
           \/ ocrConsent' = ocrConsent /\ UNCHANGED <<inBench, handed>>,
           \/ UNCHANGED handed
           \/ handed = Awaited /\ handed' = sources' /\ sources < sources',
           UNCHANGED <<listing, tableHistory>>
    PROVE  TableIInv'
<1> USE DEF TableIInv
<1> DEFINE new == [gen |-> gen + 1, kind |-> "detect", file |-> inBench']
<1>1. new \in DetectSet /\ new.gen = gen + 1 /\ new.file = inBench' /\ new.kind = "detect"
  BY DEF DetectSet, TableTypeOK
<1>2. underWay' = underWay \union {new} /\ gen' = gen + 1
  BY DEF Detects
<1>3. signalled' = signalled \union {r.gen : r \in underWay}
  BY DEF Detects
<1> HIDE DEF new
<1>4. TableTypeOK'
  <2>1. gen' \in Nat /\ underWay' \subseteq DetectSet
    BY <1>1, <1>2 DEF TableTypeOK
  <2>2. signalled' \subseteq Nat
    BY <1>3 DEF TableTypeOK, DetectSet
  <2>3. inBench' \in 0 .. sources' /\ handed' \in {Awaited} \union 0 .. sources'
    BY DEF TableTypeOK, Awaited, NoSource
  <2>4. ocrConsent' \in 0 .. sources'
    BY DEF TableTypeOK, NoSource
  <2> QED
    BY <2>1, <2>2, <2>3, <2>4 DEF TableTypeOK
<1>5. GensApart'
  BY <1>1, <1>2, <1>3 DEF GensApart, TableTypeOK, DetectSet
<1>6. \A r \in underWay : r.gen # gen' /\ r.gen \in signalled'
  BY <1>2, <1>3 DEF GensApart, TableTypeOK, DetectSet
<1>7. new.gen \notin signalled'
  BY <1>1, <1>3 DEF GensApart, TableTypeOK, DetectSet
<1>8. BusyWithCurrent'
  <2>1. busyFlag'
    BY DEF Detects
  <2>2. new \in underWay' /\ new.gen = gen'
    BY <1>1, <1>2 DEF IsCurrent
  <2> QED
    BY <1>1, <1>2, <1>6, <1>7, <2>1, <2>2 DEF BusyWithCurrent, IsCurrent
<1>9. ConsentFits'
  BY DEF ConsentFits
<1>10. ErrorIsLast'
  BY DEF ErrorIsLast, Detects
<1>11. TableListFits'
  BY <1>1, <1>2 DEF TableListFits, IsCurrent
<1>12. BookFits' /\ SentFits'
  BY DEF BookFits, SentFits, TableTypeOK, tableHistory, Awaited
<1> QED
  BY <1>4, <1>5, <1>8, <1>9, <1>10, <1>11, <1>12

LEMMA FilesKeepTables ==
    ASSUME TableIInv, PickSource \/ HandedOver \/ RemoveSource
    PROVE  TableIInv'
<1> USE DEF TableIInv
<1>1. CASE PickSource
  <2>1. /\ inBench' \in Nat \ {NoSource} /\ inBench' <= sources' /\ sources' \in Nat
        /\ sources <= sources' /\ Detects(inBench') /\ ocrConsent' = NoSource
        /\ UNCHANGED handed /\ UNCHANGED <<listing, tableHistory>>
    BY <1>1 DEF PickSource, TableTypeOK, NoSource
  <2> QED
    BY <2>1, DetectsKeepsTables
<1>2. ASSUME HandedOver, UNCHANGED sources PROVE TableIInv'
  <2>1. /\ handed = Awaited /\ handed' = NoSource
        /\ UNCHANGED <<inBench, sources, gen, underWay, signalled, busyFlag, ocrFlag,
                       lastAction, errorShown, ocrConsent, listing, tableHistory>>
    BY <1>2 DEF HandedOver, TableTypeOK
  <2>2. TableTypeOK' /\ GensApart' /\ BusyWithCurrent' /\ ErrorIsLast' /\ TableListFits'
    BY <2>1 DEF TableTypeOK, GensApart, BusyWithCurrent, ErrorIsLast, TableListFits, IsCurrent, NoSource,
                listing, tableHistory
  <2>3. ConsentFits'
    BY <2>1 DEF ConsentFits, TableTypeOK, Awaited, NoSource
  <2>4. BookFits' /\ SentFits'
    BY <2>1 DEF BookFits, SentFits, tableHistory, Awaited
  <2> QED
    BY <2>2, <2>3, <2>4
<1>3. ASSUME HandedOver, sources' # sources PROVE TableIInv'
  <2>1. /\ inBench' \in Nat \ {NoSource} /\ inBench' <= sources' /\ sources' \in Nat
        /\ sources <= sources' /\ Detects(inBench') /\ ocrConsent' = ocrConsent
        /\ inBench' = handed' /\ handed = Awaited /\ handed' = sources' /\ sources < sources'
        /\ UNCHANGED <<listing, tableHistory>>
    BY <1>3 DEF HandedOver, TableTypeOK, NoSource
  <2> QED
    BY <2>1, DetectsKeepsTables
<1>4. CASE RemoveSource
  <2> USE <1>4 DEF RemoveSource
  <2>1. TableTypeOK' /\ GensApart'
    BY DEF TableTypeOK, GensApart, NoSource, DetectSet
  <2>2. \A r \in underWay : r.gen # gen' /\ r.gen \in signalled
    BY DEF TableTypeOK, GensApart, BusyWithCurrent, DetectSet, IsCurrent
  <2>3. BusyWithCurrent'
    BY <2>2 DEF BusyWithCurrent, IsCurrent
  <2>4. ConsentFits' /\ ErrorIsLast' /\ TableListFits'
    BY DEF ConsentFits, ErrorIsLast, TableListFits
  <2>5. BookFits' /\ SentFits'
    BY DEF BookFits, SentFits, tableHistory
  <2> QED
    BY <2>1, <2>3, <2>4, <2>5
<1> QED
  BY <1>1, <1>2, <1>3, <1>4

\* One run ends, and no other is the current one.
LEMMA EndKeepsTables ==
    ASSUME TableIInv, NEW run \in underWay, underWay' = underWay \ {run},
           UNCHANGED <<inBench, sources, handed, gen, signalled, ocrConsent>>
    PROVE  /\ TableTypeOK' /\ GensApart' /\ ConsentFits'
           /\ IsCurrent(run) => \A r \in underWay' : r.gen # gen'
           /\ \A r \in underWay : ~IsCurrent(run) /\ IsCurrent(r) => r \in underWay'
<1> USE DEF TableIInv
<1>1. TableTypeOK' /\ GensApart' /\ ConsentFits'
  BY DEF TableTypeOK, GensApart, ConsentFits
<1>2. IsCurrent(run) => \A r \in underWay' : r.gen # gen'
  BY DEF GensApart, IsCurrent
<1>3. \A r \in underWay : ~IsCurrent(run) /\ IsCurrent(r) => r \in underWay'
  BY DEF IsCurrent
<1> QED
  BY <1>1, <1>2, <1>3

LEMMA DetectEndsKeepsTables ==
    ASSUME TableIInv, NEW run \in underWay, NEW outcome, DetectEnds(run, outcome)
    PROVE  TableIInv'
<1> USE DEF TableIInv
<1>1. /\ underWay' = underWay \ {run} /\ run.kind = "detect"
      /\ UNCHANGED <<inBench, sources, handed, gen, signalled, ocrFlag, ocrConsent,
                     lastAction, sent, book>>
  BY DEF DetectEnds
<1>2. /\ TableTypeOK' /\ GensApart' /\ ConsentFits'
      /\ IsCurrent(run) => \A r \in underWay' : r.gen # gen'
      /\ \A r \in underWay : ~IsCurrent(run) /\ IsCurrent(r) => r \in underWay'
  BY <1>1, EndKeepsTables
<1>3. BookFits' /\ SentFits'
  BY <1>1 DEF BookFits, SentFits, DetectEnds
<1>4. CASE IsCurrent(run)
  <2>1. run.gen \notin signalled /\ run.file = inBench /\ run.file # NoSource
    BY <1>1, <1>4 DEF BusyWithCurrent, TableTypeOK, DetectSet
  <2>2. ~busyFlag'
    BY <1>4, <2>1 DEF DetectEnds
  <2>3. BusyWithCurrent'
    BY <1>1, <1>2, <1>4, <2>2 DEF BusyWithCurrent, IsCurrent
  <2>4. ErrorIsLast'
    BY <1>1, <2>1, <2>2 DEF ErrorIsLast
  <2>5. TableListFits'
    BY <1>1, <1>4, <2>1 DEF TableListFits, DetectEnds
  <2> QED
    BY <1>2, <1>3, <2>3, <2>4, <2>5
<1>5. CASE ~IsCurrent(run)
  <2>1. UNCHANGED <<busyFlag, tables, chosen, errorShown>>
    BY <1>5 DEF DetectEnds, listing
  <2>2. BusyWithCurrent'
    BY <1>1, <1>2, <1>5, <2>1 DEF BusyWithCurrent, IsCurrent
  <2>3. ErrorIsLast'
    BY <1>1, <2>1 DEF ErrorIsLast
  <2>4. TableListFits'
    BY <1>1, <1>2, <1>5, <2>1 DEF TableListFits, DetectEnds, IsCurrent
  <2> QED
    BY <1>2, <1>3, <2>2, <2>3, <2>4
<1> QED
  BY <1>4, <1>5

LEMMA OcrEndsKeepsTables ==
    ASSUME TableIInv, NEW run \in underWay, NEW outcome, OcrEnds(run, outcome)
    PROVE  TableIInv'
<1> USE DEF TableIInv
<1>1. /\ underWay' = underWay \ {run} /\ run.kind = "ocr"
      /\ UNCHANGED <<inBench, sources, handed, gen, signalled, ocrConsent, lastAction,
                     unread, sent, book>>
  BY DEF OcrEnds, tableHistory
<1>2. /\ TableTypeOK' /\ GensApart' /\ ConsentFits'
      /\ IsCurrent(run) => \A r \in underWay' : r.gen # gen'
      /\ \A r \in underWay : ~IsCurrent(run) /\ IsCurrent(r) => r \in underWay'
  BY <1>1, EndKeepsTables
<1>3. BookFits' /\ SentFits'
  BY <1>1 DEF BookFits, SentFits
<1>4. CASE IsCurrent(run)
  <2>1. run.file = inBench /\ run.file # NoSource /\ ~busyFlag'
    BY <1>1, <1>4 DEF BusyWithCurrent, TableTypeOK, DetectSet, OcrEnds
  <2>2. BusyWithCurrent'
    BY <1>1, <1>2, <1>4, <2>1 DEF BusyWithCurrent, IsCurrent
  <2>3. ErrorIsLast'
    BY <1>1, <2>1 DEF ErrorIsLast
  <2>4. \A r \in underWay : IsCurrent(r) => r.kind = "ocr"
    BY <1>1, <1>4 DEF GensApart, IsCurrent
  <2>5. \/ tables' = tables
        \/ tables' = run.file
    BY <1>4 DEF OcrEnds, listing
  <2>6. TableListFits'
    BY <1>1, <2>1, <2>4, <2>5 DEF TableListFits
  <2> QED
    BY <1>2, <1>3, <2>2, <2>3, <2>6
<1>5. CASE ~IsCurrent(run)
  <2>1. UNCHANGED <<busyFlag, tables, chosen, errorShown>>
    BY <1>5 DEF OcrEnds, listing
  <2>2. BusyWithCurrent'
    BY <1>1, <1>2, <1>5, <2>1 DEF BusyWithCurrent, IsCurrent
  <2>3. ErrorIsLast'
    BY <1>1, <2>1 DEF ErrorIsLast
  <2>4. TableListFits'
    BY <1>1, <1>2, <1>5, <2>1 DEF TableListFits, IsCurrent
  <2> QED
    BY <1>2, <1>3, <2>2, <2>3, <2>4
<1> QED
  BY <1>4, <1>5

LEMMA OcrKeepsTables ==
    ASSUME TableIInv, TickConsent \/ RunOcrDetect \/ CancelOcr \/ \E run \in underWay : SendPage(run)
    PROVE  TableIInv'
<1> USE DEF TableIInv
<1>1. CASE TickConsent
  <2> USE <1>1 DEF TickConsent
  <2>1. TableTypeOK' /\ GensApart' /\ ConsentFits' /\ ErrorIsLast'
    BY DEF TableTypeOK, GensApart, ConsentFits, ErrorIsLast, NoSource
  <2>2. BusyWithCurrent' /\ TableListFits'
    BY DEF BusyWithCurrent, TableListFits, IsCurrent, listing, tableHistory
  <2>3. BookFits' /\ SentFits'
    BY DEF BookFits, SentFits, tableHistory
  <2> QED
    BY <2>1, <2>2, <2>3
<1>2. CASE RunOcrDetect
  <2> USE <1>2 DEF RunOcrDetect
  <2> DEFINE new == [gen |-> gen + 1, kind |-> "ocr", file |-> inBench]
  <2>1. new \in DetectSet /\ new.gen = gen + 1 /\ new.file = inBench /\ new.kind = "ocr"
    BY DEF DetectSet, TableTypeOK, NoSource
  <2>2. underWay' = underWay \union {new} /\ gen' = gen + 1
    OBVIOUS
  <2> HIDE DEF new
  <2>3. TableTypeOK' /\ GensApart'
    BY <2>1, <2>2 DEF TableTypeOK, GensApart, DetectSet
  <2>4. \A r \in underWay : r.gen # gen' /\ r.gen \in signalled
    BY <2>2 DEF TableTypeOK, GensApart, BusyWithCurrent, DetectSet, IsCurrent
  <2>5. new \in underWay' /\ new.gen = gen'
    BY <2>1, <2>2 DEF IsCurrent
  <2>6. BusyWithCurrent'
    BY <2>1, <2>2, <2>4, <2>5 DEF BusyWithCurrent, IsCurrent
  <2>7. ConsentFits' /\ ErrorIsLast'
    BY DEF ConsentFits, ErrorIsLast
  <2>8. TableListFits'
    BY DEF TableListFits, BusyWithCurrent, listing, tableHistory
  <2>9. BookFits' /\ SentFits'
    BY DEF BookFits, SentFits, tableHistory
  <2> QED
    BY <2>3, <2>6, <2>7, <2>8, <2>9
<1>3. CASE CancelOcr
  <2> USE <1>3 DEF CancelOcr
  <2>1. \A r \in underWay : r.gen \in signalled' =>
            \/ r.gen \in signalled
            \/ r.kind = "ocr" 
    BY DEF GensApart
  <2>2. \A n \in signalled' : n \in Nat /\ n <= gen
    BY DEF GensApart, TableTypeOK, DetectSet
  <2>3. TableTypeOK' /\ GensApart' /\ ConsentFits' /\ ErrorIsLast'
    BY <2>2 DEF TableTypeOK, GensApart, ConsentFits, ErrorIsLast
  <2>4. BusyWithCurrent'
    BY <2>1 DEF BusyWithCurrent, IsCurrent
  <2>5. TableListFits' /\ BookFits' /\ SentFits'
    BY DEF TableListFits, BookFits, SentFits, tableHistory, listing, IsCurrent
  <2> QED
    BY <2>3, <2>4, <2>5
<1>4. ASSUME NEW run \in underWay, SendPage(run) PROVE TableIInv'
  <2> USE <1>4 DEF SendPage
  <2>1. TableTypeOK' /\ GensApart' /\ ConsentFits' /\ ErrorIsLast'
    BY DEF TableTypeOK, GensApart, ConsentFits, ErrorIsLast
  <2>2. BusyWithCurrent'
    BY DEF BusyWithCurrent, IsCurrent
  <2>6. TableListFits' /\ BookFits'
    BY DEF TableListFits, BookFits, IsCurrent, listing
  <2>3. IsCurrent(run) /\ run.gen \notin signalled
    BY DEF MaySend, BusyWithCurrent
  <2>4. run.file = inBench /\ ocrConsent # NoSource /\ run.file \in 1 .. sources
    BY <2>3 DEF BusyWithCurrent, TableTypeOK, DetectSet, NoSource
  <2>5. SentFits'
    BY <2>3, <2>4 DEF SentFits, ConsentFits
  <2> QED
    BY <2>1, <2>2, <2>5, <2>6
<1> QED
  BY <1>1, <1>2, <1>3, <1>4

LEMMA ExportKeepsTables ==
    ASSUME TableIInv, Toggle \/ ExportXlsx \/ RetryLast
    PROVE  TableIInv'
<1> USE DEF TableIInv
<1>1. CASE Toggle
  BY <1>1 DEF Toggle, TableTypeOK, GensApart, BusyWithCurrent, ConsentFits, ErrorIsLast, TableListFits,
              BookFits, SentFits, IsCurrent, tableHistory
<1>2. CASE ExportXlsx
  <2> USE <1>2 DEF ExportXlsx
  <2>1. TableTypeOK' /\ GensApart' /\ ConsentFits' /\ ErrorIsLast'
    BY DEF TableTypeOK, GensApart, ConsentFits, ErrorIsLast
  <2>2. BusyWithCurrent' /\ TableListFits' /\ SentFits'
    BY DEF BusyWithCurrent, TableListFits, SentFits, IsCurrent, listing
  <2>3. BookFits'
    BY DEF BookFits, TableListFits, BusyWithCurrent
  <2> QED
    BY <2>1, <2>2, <2>3
<1>3. ASSUME RetryLast, lastAction = "detect" PROVE TableIInv'
  <2>1. /\ inBench' \in Nat \ {NoSource} /\ inBench' <= sources' /\ sources' \in Nat
        /\ sources <= sources' /\ Detects(inBench') /\ ocrConsent' = ocrConsent
        /\ UNCHANGED <<inBench, handed>> /\ UNCHANGED handed /\ UNCHANGED <<listing, tableHistory>>
    BY <1>3 DEF RetryLast, TableTypeOK, NoSource, ErrorIsLast
  <2> QED
    BY <2>1, DetectsKeepsTables
<1>4. ASSUME RetryLast, lastAction # "detect" PROVE TableIInv'
  <2> USE <1>4 DEF RetryLast
  <2>1. TableTypeOK' /\ GensApart' /\ ConsentFits' /\ ErrorIsLast'
    BY DEF TableTypeOK, GensApart, ConsentFits, ErrorIsLast
  <2>2. BusyWithCurrent' /\ TableListFits' /\ SentFits' /\ BookFits'
    BY DEF BusyWithCurrent, TableListFits, SentFits, BookFits, IsCurrent, listing, tableHistory
  <2> QED
    BY <2>1, <2>2
<1> QED
  BY <1>1, <1>2, <1>3, <1>4

LEMMA TableStep == TableIInv /\ [TableNext]_tableVars => TableIInv'
<1> SUFFICES ASSUME TableIInv, [TableNext]_tableVars PROVE TableIInv'
  OBVIOUS
<1>1. CASE UNCHANGED tableVars
  BY <1>1 DEF tableVars, listing, tableHistory, TableIInv, TableTypeOK, GensApart, BusyWithCurrent,
              ConsentFits, ErrorIsLast, TableListFits, BookFits, SentFits, IsCurrent
<1>2. CASE TableNext
  BY <1>2, FilesKeepTables, DetectEndsKeepsTables, OcrEndsKeepsTables, OcrKeepsTables,
     ExportKeepsTables DEF TableNext
<1> QED
  BY <1>1, <1>2

\* PdfToExcelTool.tsx with ocrGenerationGuard.ts: whatever order detections, OCR runs,
\* cancels and new files come in, the tool is busy exactly while the run of the current
\* generation is under way, a workbook holds the tables of the file it is named after, and
\* a page image is sent only of the file in the workbench, before Cancel, with the box
\* ticked (with what TablesOfFile excepts).
THEOREM TablesStayOfFile == TableSpec => []TablesOfFile
<1>1. TableIInv => TablesOfFile
  BY DEF TableIInv, BusyWithCurrent, BookFits, SentFits, TablesOfFile
<1> QED
  BY <1>1, TableInitially, TableStep, PTL DEF TableSpec

-----------------------------------------------------------------------------
(* The redact, annotate and form tools *)

ExportSet == [id : 1 .. MaxExports, file : 1 .. picks, marks : SUBSET Nat, tick : Nat,
              known : BOOLEAN, heard : BOOLEAN, beside : BOOLEAN]

MarkTypeOK ==
    /\ mtool \in MarkTool
    /\ picks \in Nat
    /\ pickedFile \in 0 .. picks
    /\ handoff \in {Sought} \union 0 .. picks
    /\ reading \union extracting \union ready \subseteq 1 .. picks
    /\ marks \subseteq Nat
    /\ confirmed \in Nat
    /\ exports \subseteq ExportSet

\* A handoff comes to two of the tools.
HandoffFits == mtool \notin {"redact", "forms"} => handoff = NoFile

\* A file that was read is on display, and its extraction was begun by its reading.
DisplayFits ==
    /\ pickedFile \in ready \union extracting => onDisplay = pickedFile
    /\ mtool # "links" => extracting = {}

\* The marks on the list, and the warning ticked, are of the file that was read.
MarkListFits ==
    pickedFile \in ready =>
        /\ mtool # "overlay" => marks \subseteq {pickedFile}
        /\ mtool = "redact" => confirmed \in {NoFile, pickedFile}

\* An export beside no other is alone, and the tool is busy with it.
ExportsAlone ==
    \A e \in exports :
        ~e.beside =>
            /\ exports = {e} /\ markBusy
            /\ e.heard => stop
            /\ mtool = "redact" => e.file = pickedFile \/ pickedFile = handoff

\* What an export took with it is of its file.
TakenFits(e) ==
    /\ e.known /\ mtool # "overlay" => e.marks \subseteq {e.file}
    /\ e.known /\ mtool = "redact" => e.tick = e.file

\* The annotate tool works on one highlight or one export, with no Retry beside it.
AnnotateAlone ==
    /\ mtool # "annotate" => highlighting = NoFile /\ complaint # "highlight"
    /\ mtool = "annotate" =>
          /\ markBusy => complaint \notin {"export", "highlight"}
          /\ highlighting # NoFile =>
                markBusy /\ highlighting = pickedFile /\ exports = {}
          /\ \A e \in exports : ~e.beside

\* The verification shown is of the file in the workbench.
VerdictFits ==
    \/ verdict \in {NoFile, pickedFile}
    \/ pickedFile = handoff
    \/ exported.beside

ExportedFits ==
    exported # Undelivered /\ ~exported.beside => ~exported.heard /\ TakenFits(exported)

\* The inductive invariant of MarksFitFile.
MarkIInv ==
    /\ MarkTypeOK
    /\ HandoffFits /\ DisplayFits /\ MarkListFits
    /\ ExportsAlone /\ (\A e \in exports : TakenFits(e)) /\ AnnotateAlone
    /\ VerdictFits /\ ExportedFits

LEMMA MarkInitially == MarkInit => MarkIInv
BY DEF MarkInit, MarkIInv, MarkTypeOK, HandoffFits, DisplayFits, MarkListFits, ExportsAlone, AnnotateAlone,
       VerdictFits, ExportedFits, MarkTool, NoFile, Sought

\* Another file comes, and no export is under way or it comes by the handoff.
LEMMA FilesKeepMarks ==
    ASSUME MarkIInv, PickFile \/ RemovePicked \/ HandoffArrives
    PROVE  MarkIInv'
<1> USE DEF MarkIInv, NoFile, Sought, pickVars, loadVars, listVars, workVars
<1>1. CASE PickFile
  <2> USE <1>1 DEF PickFile, Brings, PicksAnew
  <2>1. picks' \in Nat /\ picks' = picks + 1 /\ 1 .. picks \subseteq 1 .. picks'
    BY DEF MarkTypeOK
  <2>2. exports' \subseteq ExportSet'
    BY <2>1 DEF MarkTypeOK, ExportSet
  <2>3. MarkTypeOK'
    BY <2>1, <2>2 DEF MarkTypeOK
  <2>4. HandoffFits' /\ DisplayFits' /\ MarkListFits'
    BY <2>1 DEF HandoffFits, DisplayFits, MarkListFits, MarkTypeOK
  <2>5. ExportsAlone' /\ (\A e \in exports : TakenFits(e))'
    BY DEF ExportsAlone, TakenFits
  <2>6. AnnotateAlone' /\ VerdictFits' /\ ExportedFits'
    BY DEF AnnotateAlone, VerdictFits, ExportedFits, TakenFits
  <2> QED
    BY <2>3, <2>4, <2>5, <2>6
<1>2. CASE RemovePicked
  <2> USE <1>2 DEF RemovePicked, PicksAnew
  <2>1. MarkTypeOK'
    BY DEF MarkTypeOK, ExportSet
  <2>2. HandoffFits' /\ DisplayFits' /\ MarkListFits'
    BY DEF HandoffFits, DisplayFits, MarkListFits, MarkTypeOK
  <2>3. ExportsAlone' /\ (\A e \in exports : TakenFits(e))'
    BY DEF ExportsAlone, TakenFits
  <2>4. AnnotateAlone' /\ VerdictFits' /\ ExportedFits'
    BY DEF AnnotateAlone, VerdictFits, ExportedFits, TakenFits
  <2> QED
    BY <2>1, <2>2, <2>3, <2>4
<1>3. ASSUME HandoffArrives, Brings, handoff' = pickedFile' PROVE MarkIInv'
  <2> USE <1>3 DEF HandoffArrives, Brings
  <2>1. picks' \in Nat /\ picks' = picks + 1 /\ 1 .. picks \subseteq 1 .. picks'
    BY DEF MarkTypeOK
  <2>2. exports' \subseteq ExportSet'
    BY <2>1 DEF MarkTypeOK, ExportSet
  <2>3. MarkTypeOK'
    BY <2>1, <2>2 DEF MarkTypeOK
  <2>4. HandoffFits' /\ DisplayFits' /\ MarkListFits'
    BY <2>1 DEF HandoffFits, DisplayFits, MarkListFits, MarkTypeOK
  <2>5. ExportsAlone' /\ (\A e \in exports : TakenFits(e))'
    BY DEF ExportsAlone, TakenFits
  <2>6. AnnotateAlone' /\ VerdictFits' /\ ExportedFits'
    BY DEF AnnotateAlone, VerdictFits, ExportedFits, TakenFits, HandoffFits
  <2> QED
    BY <2>3, <2>4, <2>5, <2>6
<1>4. ASSUME HandoffArrives, handoff' = NoFile, UNCHANGED <<picks, pickedFile, reading>>
      PROVE  MarkIInv'
  <2> USE <1>4 DEF HandoffArrives
  <2>1. MarkTypeOK' /\ HandoffFits' /\ DisplayFits' /\ MarkListFits'
    BY DEF HandoffFits, DisplayFits, MarkListFits, MarkTypeOK, ExportSet
  <2>2. pickedFile # handoff
    BY DEF MarkTypeOK
  <2>3. ExportsAlone' /\ (\A e \in exports : TakenFits(e))'
    BY <2>2 DEF ExportsAlone, TakenFits
  <2>4. AnnotateAlone' /\ VerdictFits' /\ ExportedFits'
    BY <2>2 DEF AnnotateAlone, VerdictFits, ExportedFits, TakenFits
  <2> QED
    BY <2>1, <2>3, <2>4
<1> QED
  BY <1>1, <1>2, <1>3, <1>4 DEF HandoffArrives

\* What an effect leaves alone.
LEMMA EffectsKeepWork ==
    ASSUME MarkIInv, UNCHANGED <<mtool, pickedFile, picks, handoff, workVars>>,
           complaint' = complaint \/ complaint' = "none" \/ complaint' \in OffersOf,
           verdict' \in {verdict, NoFile}
    PROVE  HandoffFits' /\ ExportsAlone' /\ (\A e \in exports : TakenFits(e))' /\ AnnotateAlone'
           /\ VerdictFits' /\ ExportedFits' /\ (exports \subseteq ExportSet)'
<1> USE DEF MarkIInv, workVars
<1>1. HandoffFits' /\ ExportsAlone' /\ (\A e \in exports : TakenFits(e))'
  BY DEF HandoffFits, ExportsAlone, TakenFits
<1>2. AnnotateAlone'
  BY DEF AnnotateAlone, OffersOf
<1>3. VerdictFits' /\ ExportedFits'
  BY DEF VerdictFits, ExportedFits, TakenFits
<1>4. (exports \subseteq ExportSet)'
  BY DEF MarkTypeOK, ExportSet
<1> QED
  BY <1>1, <1>2, <1>3, <1>4

LEMMA LoadsKeepMarks ==
    ASSUME MarkIInv, NEW f, LoadLands(f) \/ LinksExtracted(f) \/ LoadFails(f)
    PROVE  MarkIInv'
<1> USE DEF MarkIInv, pickVars, listVars, StillPicked
<1>1. CASE LoadLands(f)
  <2> USE <1>1 DEF LoadLands
  <2>1. f \in 1 .. picks
    BY DEF MarkTypeOK
  <2>2. UNCHANGED <<mtool, pickedFile, picks, handoff, workVars>>
    BY DEF pickVars
  <2>3. complaint' = complaint \/ complaint' = "none"
    OBVIOUS
  <2>4. verdict' \in {verdict, NoFile}
    OBVIOUS
  <2>5. HandoffFits' /\ ExportsAlone' /\ (\A e \in exports : TakenFits(e))' /\ AnnotateAlone'
           /\ VerdictFits' /\ ExportedFits' /\ (exports \subseteq ExportSet)'
    BY <2>2, <2>3, <2>4, EffectsKeepWork
  <2>6. reading' \subseteq reading /\ extracting' \subseteq extracting \union {f}
        /\ ready' \subseteq ready \union {f} /\ marks' \subseteq marks /\ confirmed' \in Nat
    BY DEF MarkTypeOK, Emptied, NoFile
  <2>7. MarkTypeOK'
    BY <2>1, <2>2, <2>5, <2>6 DEF MarkTypeOK
  <2>8. DisplayFits'
    BY DEF DisplayFits
  <2>9. MarkListFits'
    BY DEF MarkListFits, Emptied, MarkTypeOK, MarkTool
  <2> QED
    BY <2>5, <2>7, <2>8, <2>9
<1>2. CASE LinksExtracted(f)
  <2> USE <1>2 DEF LinksExtracted
  <2>1. f \in 1 .. picks
    BY DEF MarkTypeOK
  <2>2. UNCHANGED <<mtool, pickedFile, picks, handoff, workVars>>
    BY DEF pickVars
  <2>3. complaint' = complaint \/ complaint' = "none"
    OBVIOUS
  <2>4. verdict' \in {verdict, NoFile}
    OBVIOUS
  <2>5. HandoffFits' /\ ExportsAlone' /\ (\A e \in exports : TakenFits(e))' /\ AnnotateAlone'
           /\ VerdictFits' /\ ExportedFits' /\ (exports \subseteq ExportSet)'
    BY <2>2, <2>3, <2>4, EffectsKeepWork
  <2>6. extracting' \subseteq extracting /\ ready' \subseteq ready \union {f}
        /\ marks' \subseteq marks \union {f}
    OBVIOUS
  <2>7. MarkTypeOK'
    BY <2>1, <2>2, <2>5, <2>6 DEF MarkTypeOK
  <2>8. DisplayFits'
    BY DEF DisplayFits
  <2>9. MarkListFits'
    BY DEF MarkListFits, DisplayFits, Emptied, MarkTypeOK, MarkTool
  <2> QED
    BY <2>5, <2>7, <2>8, <2>9
<1>3. CASE LoadFails(f)
  <2> USE <1>3 DEF LoadFails
  <2>2. UNCHANGED <<mtool, pickedFile, picks, handoff, workVars>>
    BY DEF pickVars
  <2>3. complaint' = complaint \/ complaint' = "none" \/ complaint' \in OffersOf
    OBVIOUS
  <2>5. HandoffFits' /\ ExportsAlone' /\ (\A e \in exports : TakenFits(e))' /\ AnnotateAlone'
           /\ VerdictFits' /\ ExportedFits' /\ (exports \subseteq ExportSet)'
    BY <2>2, <2>3, EffectsKeepWork
  <2>6. extracting' \subseteq extracting /\ reading' \subseteq reading
    OBVIOUS
  <2>7. MarkTypeOK'
    BY <2>2, <2>5, <2>6 DEF MarkTypeOK
  <2>8. DisplayFits' /\ MarkListFits'
    BY DEF DisplayFits, MarkListFits
  <2> QED
    BY <2>5, <2>7, <2>8
<1> QED
  BY <1>1, <1>2, <1>3

\* A mark of the file in the workbench comes, others go, the question is asked again.
LEMMA ListKeepsMarks ==
    ASSUME MarkIInv, UNCHANGED <<pickVars, loadVars, verdict, workVars>>,
           marks' \subseteq marks \union {pickedFile},
           confirmed' \in {confirmed, NoFile, pickedFile},
           \/ UNCHANGED complaint
           \/ complaint' = "none"
           \/ mtool # "annotate" /\ complaint' # "highlight"
    PROVE  MarkIInv'
<1> USE DEF MarkIInv
<1>1. UNCHANGED <<mtool, pickedFile, picks, handoff, reading, extracting, onDisplay, ready>>
  BY DEF pickVars, loadVars
<1>2. UNCHANGED <<exports, highlighting, markBusy, stop, exported>>
  BY DEF workVars
<1>3. MarkTypeOK'
  <2>1. marks' \subseteq Nat /\ confirmed' \in Nat
    BY DEF MarkTypeOK, NoFile
  <2>2. (exports \subseteq ExportSet)'
    BY <1>1, <1>2 DEF MarkTypeOK, ExportSet
  <2> QED
    BY <1>1, <2>1, <2>2 DEF MarkTypeOK
<1>4. HandoffFits' /\ DisplayFits'
  BY <1>1 DEF HandoffFits, DisplayFits
<1>5. MarkListFits'
  BY <1>1 DEF MarkListFits
<1>6. ExportsAlone' /\ (\A e \in exports : TakenFits(e))'
  BY <1>1, <1>2 DEF ExportsAlone, TakenFits
<1>7. AnnotateAlone'
  BY <1>1, <1>2 DEF AnnotateAlone
<1>8. VerdictFits' /\ ExportedFits'
  BY <1>1, <1>2 DEF VerdictFits, ExportedFits, TakenFits
<1> QED
  BY <1>3, <1>4, <1>5, <1>6, <1>7, <1>8

\* Everything the tools offer but a text highlight.
LEMMA OffersKeepMarks ==
    ASSUME MarkIInv,
           \/ RedactOffers \/ FormsOffers \/ OverlayOffers \/ LinksOffers
           \/ mtool = "annotate" /\ (AddHighlight \/ AddNote \/ \E f \in marks : Removes(f))
    PROVE  MarkIInv'
<1>1. ASSUME Places, \/ UNCHANGED complaint
                     \/ complaint' = "none"
                     \/ mtool # "annotate" /\ complaint' # "highlight"
      PROVE  MarkIInv'
  <2>1. /\ UNCHANGED <<pickVars, loadVars, verdict, workVars>>
        /\ marks' \subseteq marks \union {pickedFile}
        /\ confirmed' \in {confirmed, NoFile, pickedFile}
    BY <1>1 DEF Places
  <2> QED
    BY <1>1, <2>1, ListKeepsMarks
<1>2. ASSUME Refuses, mtool # "annotate" PROVE MarkIInv'
  <2>1. /\ UNCHANGED <<pickVars, loadVars, verdict, workVars>>
        /\ marks' \subseteq marks \union {pickedFile}
        /\ confirmed' \in {confirmed, NoFile, pickedFile}
    BY <1>2 DEF Refuses, listVars
  <2>2. complaint' # "highlight"
    BY <1>2 DEF Refuses
  <2> QED
    BY <1>2, <2>1, <2>2, ListKeepsMarks
<1>3. ASSUME NEW f, Removes(f) PROVE MarkIInv'
  <2>1. /\ UNCHANGED <<pickVars, loadVars, verdict, workVars>> /\ UNCHANGED complaint
        /\ marks' \subseteq marks \union {pickedFile}
        /\ confirmed' \in {confirmed, NoFile, pickedFile}
    BY <1>3 DEF Removes
  <2> QED
    BY <2>1, ListKeepsMarks
<1>4. ASSUME ConfirmWarning PROVE MarkIInv'
  <2>1. /\ UNCHANGED <<pickVars, loadVars, verdict, workVars>> /\ UNCHANGED complaint
        /\ marks' \subseteq marks \union {pickedFile}
        /\ confirmed' \in {confirmed, NoFile, pickedFile}
    BY <1>4 DEF ConfirmWarning
  <2> QED
    BY <2>1, ListKeepsMarks
<1>5. ASSUME ReplaceMark PROVE MarkIInv'
  <2>1. /\ UNCHANGED <<pickVars, loadVars, verdict, workVars>> /\ UNCHANGED complaint
        /\ marks' \subseteq marks \union {pickedFile}
        /\ confirmed' \in {confirmed, NoFile, pickedFile}
    BY <1>5 DEF ReplaceMark
  <2> QED
    BY <2>1, ListKeepsMarks
<1>6. ASSUME EditLink, mtool # "annotate" PROVE MarkIInv'
  <2>1. /\ UNCHANGED <<pickVars, loadVars, verdict, workVars>>
        /\ marks' \subseteq marks \union {pickedFile}
        /\ confirmed' \in {confirmed, NoFile, pickedFile}
    BY <1>6 DEF EditLink, listVars
  <2>2. complaint' # "highlight"
    BY <1>6 DEF EditLink
  <2> QED
    BY <1>6, <2>1, <2>2, ListKeepsMarks
<1>7. RedactOffers => MarkIInv'
  BY <1>1, <1>2, <1>3, <1>4 DEF RedactOffers, AddRegion
<1>8. FormsOffers => MarkIInv'
  BY <1>1, <1>2, <1>3 DEF FormsOffers, AddField
<1>9. OverlayOffers => MarkIInv'
  BY <1>1, <1>2, <1>3, <1>5 DEF OverlayOffers, AddSignature, AddDrawn, PlaceFreehand, AddWatermark,
                                AddPageNumbers
<1>10. LinksOffers => MarkIInv'
  BY <1>1, <1>2, <1>3, <1>6 DEF LinksOffers, AddLink
<1> QED
  BY <1>1, <1>3, <1>7, <1>8, <1>9, <1>10 DEF AddHighlight, AddNote

\* A text highlight is read and placed.
LEMMA HighlightsKeepMarks ==
    ASSUME MarkIInv,
           \/ mtool = "annotate" /\ ~markBusy /\ StartHighlight
           \/ RetryHighlight
           \/ EndHighlight
    PROVE  MarkIInv'
<1> USE DEF MarkIInv
<1>1. CASE mtool = "annotate" /\ ~markBusy /\ StartHighlight
  <2> USE <1>1 DEF StartHighlight
  <2>1. exports = {}
    BY DEF ExportsAlone, AnnotateAlone
  <2>2. /\ UNCHANGED <<mtool, pickedFile, picks, handoff, reading, extracting, onDisplay, ready>>
        /\ UNCHANGED <<marks, confirmed, verdict, exports, stop, exported>>
    BY DEF pickVars, loadVars, listVars
  <2>3. MarkTypeOK' /\ HandoffFits' /\ DisplayFits' /\ MarkListFits'
    BY <2>1, <2>2 DEF MarkTypeOK, HandoffFits, DisplayFits, MarkListFits
  <2>4. ExportsAlone' /\ (\A e \in exports : TakenFits(e))'
    BY <2>1, <2>2 DEF ExportsAlone
  <2>5. AnnotateAlone'
    BY <2>1, <2>2 DEF AnnotateAlone
  <2>6. VerdictFits' /\ ExportedFits'
    BY <2>2 DEF VerdictFits, ExportedFits, TakenFits
  <2> QED
    BY <2>3, <2>4, <2>5, <2>6
<1>2. CASE RetryHighlight
  <2>1. mtool = "annotate" /\ ~markBusy /\ StartHighlight
    BY <1>2 DEF RetryHighlight, AnnotateAlone
  <2> QED
    BY <1>1, <2>1
<1>3. CASE EndHighlight
  <2> USE <1>3 DEF EndHighlight
  <2>1. mtool = "annotate" /\ highlighting = pickedFile /\ exports = {}
    BY DEF AnnotateAlone
  <2>2. /\ UNCHANGED <<mtool, pickedFile, picks, handoff, reading, extracting, onDisplay, ready>>
        /\ UNCHANGED <<confirmed, verdict, exports, stop, exported>>
    BY DEF pickVars, loadVars
  <2>3. marks' \subseteq marks \union {pickedFile}
    BY <2>1
  <2>4. MarkTypeOK'
    BY <2>1, <2>2, <2>3 DEF MarkTypeOK
  <2>5. HandoffFits' /\ DisplayFits' /\ MarkListFits'
    BY <2>1, <2>2, <2>3 DEF HandoffFits, DisplayFits, MarkListFits
  <2>6. ExportsAlone' /\ (\A e \in exports : TakenFits(e))' /\ AnnotateAlone'
    BY <2>1, <2>2 DEF ExportsAlone, AnnotateAlone
  <2>7. VerdictFits' /\ ExportedFits'
    BY <2>2 DEF VerdictFits, ExportedFits, TakenFits
  <2> QED
    BY <2>4, <2>5, <2>6, <2>7
<1> QED
  BY <1>1, <1>2, <1>3

\* The export takes the file and its marks with it; those before it have one beside them.
LEMMA StartsKeepMarks ==
    ASSUME MarkIInv, Exportable, Starts, mtool = "annotate" => ~markBusy
    PROVE  MarkIInv'
<1> USE DEF MarkIInv
<1> DEFINE before == {[e EXCEPT !.beside = TRUE] : e \in exports}
           new == [id |-> CHOOSE i \in Free : TRUE, file |-> pickedFile, marks |-> marks,
                   tick |-> confirmed, known |-> pickedFile \in ready, heard |-> FALSE,
                   beside |-> exports # {}]
<1>1. /\ UNCHANGED <<mtool, pickedFile, picks, handoff, reading, extracting, onDisplay, ready>>
      /\ UNCHANGED <<marks, confirmed, highlighting, exported>>
      /\ stop' = FALSE /\ markBusy' = TRUE /\ complaint' = "none" /\ verdict' = NoFile
  BY DEF Starts, pickVars, loadVars, listVars
<1>2. exports' = before \union {new}
  BY DEF Starts
<1>3. \A e \in before : e \in ExportSet /\ e.beside /\ TakenFits(e)
  BY DEF MarkTypeOK, ExportSet, TakenFits
<1>4. exports = {} => before = {}
  OBVIOUS
<1>5. new \in ExportSet
  <2>1. (CHOOSE i \in Free : TRUE) \in 1 .. MaxExports
    BY DEF Free, Starts
  <2>2. pickedFile \in 1 .. picks
    BY DEF Exportable, MarkTypeOK, NoFile
  <2>3. (pickedFile \in ready) \in BOOLEAN /\ (exports # {}) \in BOOLEAN
    OBVIOUS
  <2> QED
    BY <2>1, <2>2, <2>3 DEF MarkTypeOK, ExportSet
<1>6. /\ new.file = pickedFile /\ new.marks = marks /\ new.tick = confirmed
      /\ new.known <=> pickedFile \in ready
      /\ ~new.heard
      /\ new.beside <=> exports # {}
  OBVIOUS
<1> HIDE DEF before, new
<1>7. TakenFits(new)
  BY <1>6 DEF TakenFits, MarkListFits, Exportable
<1>8. MarkTypeOK'
  BY <1>1, <1>2, <1>3, <1>5 DEF MarkTypeOK, NoFile, ExportSet
<1>9. HandoffFits' /\ DisplayFits' /\ MarkListFits'
  BY <1>1 DEF HandoffFits, DisplayFits, MarkListFits
<1>10. ExportsAlone'
  BY <1>1, <1>2, <1>3, <1>4, <1>6 DEF ExportsAlone
<1>11. (\A e \in exports : TakenFits(e))'
  BY <1>1, <1>2, <1>3, <1>7 DEF TakenFits
<1>12. AnnotateAlone'
  <2>1. mtool = "annotate" => exports = {} /\ highlighting = NoFile
    BY DEF ExportsAlone, AnnotateAlone
  <2>2. mtool = "annotate" => exports' = {new} /\ ~new.beside
    BY <1>2, <1>4, <1>6, <2>1
  <2> QED
    BY <1>1, <2>1, <2>2 DEF AnnotateAlone
<1>13. VerdictFits' /\ ExportedFits'
  BY <1>1 DEF VerdictFits, ExportedFits, TakenFits
<1> QED
  BY <1>8, <1>9, <1>10, <1>11, <1>12, <1>13

\* One export ends: no other was alone.
LEMMA OverKeepsMarks ==
    ASSUME MarkIInv, NEW e \in exports, ExportOver(e),
           \/ /\ ~stop
              /\ exported' = e
              /\ verdict' = IF mtool = "redact" THEN e.file ELSE NoFile
           \/ UNCHANGED <<exported, verdict>>,
           mtool # "annotate" => complaint' \in {complaint, "none", "export"}
    PROVE  MarkIInv'
<1> USE DEF MarkIInv
<1>1. /\ UNCHANGED <<mtool, pickedFile, picks, handoff, reading, extracting, onDisplay, ready>>
      /\ UNCHANGED <<marks, confirmed, highlighting, stop>>
      /\ exports' = exports \ {e} /\ markBusy' = FALSE
  BY DEF ExportOver, pickVars, loadVars, listVars
<1>2. MarkTypeOK' /\ HandoffFits' /\ DisplayFits' /\ MarkListFits'
  BY <1>1 DEF MarkTypeOK, ExportSet, HandoffFits, DisplayFits, MarkListFits
<1>3. ExportsAlone' /\ (\A x \in exports : TakenFits(x))'
  BY <1>1 DEF ExportsAlone, TakenFits
<1>4. AnnotateAlone'
  <2>1. mtool = "annotate" => highlighting = NoFile
    BY DEF AnnotateAlone
  <2>2. mtool = "annotate" => \A x \in exports' : ~x.beside
    BY <1>1 DEF AnnotateAlone
  <2>3. mtool # "annotate" => highlighting = NoFile /\ complaint' # "highlight"
    BY DEF AnnotateAlone
  <2> QED
    BY <1>1, <2>1, <2>2, <2>3 DEF AnnotateAlone
<1>5. VerdictFits'
  <2>1. CASE ~stop /\ exported' = e /\ verdict' = IF mtool = "redact" THEN e.file ELSE NoFile
    BY <1>1, <2>1 DEF VerdictFits, ExportsAlone
  <2>2. CASE UNCHANGED <<exported, verdict>>
    BY <1>1, <2>2 DEF VerdictFits
  <2> QED
    BY <2>1, <2>2
<1>6. ExportedFits'
  <2>1. CASE ~stop /\ exported' = e
    <3>1. ~e.beside => ~e.heard
      BY <2>1 DEF ExportsAlone
    <3>2. (e.beside \/ ~e.heard) /\ TakenFits(e)
      BY <3>1
    <3> QED
      BY <1>1, <2>1, <3>2 DEF ExportedFits, TakenFits
  <2>2. CASE UNCHANGED <<exported, verdict>>
    BY <1>1, <2>2 DEF ExportedFits, TakenFits
  <2> QED
    BY <2>1, <2>2
<1> QED
  BY <1>2, <1>3, <1>4, <1>5, <1>6

LEMMA ExportsKeepMarks ==
    ASSUME MarkIInv,
           \/ StartExport \/ RetryExport \/ CancelExport
           \/ \E e \in exports : ExportDone(e) \/ ExportStops(e) \/ ExportFails(e)
    PROVE  MarkIInv'
<1>1. CASE StartExport
  BY <1>1, StartsKeepMarks DEF StartExport, MayExport
<1>2. CASE RetryExport
  <2>1. CASE Exportable
    <3>1. mtool = "annotate" => ~markBusy
      BY <1>2 DEF RetryExport, MarkIInv, AnnotateAlone
    <3> QED
      BY <1>2, <2>1, <3>1, StartsKeepMarks DEF RetryExport
  <2>2. CASE ~Exportable
    <3>1. /\ UNCHANGED <<pickVars, loadVars, verdict, workVars>> /\ complaint' = "none"
          /\ marks' \subseteq marks \union {pickedFile}
          /\ confirmed' \in {confirmed, NoFile, pickedFile}
      BY <1>2, <2>2 DEF RetryExport, listVars
    <3> QED
      BY <3>1, ListKeepsMarks
  <2> QED
    BY <2>1, <2>2
<1>3. CASE CancelExport
  <2> USE <1>3 DEF CancelExport, MarkIInv
  <2>1. /\ UNCHANGED <<mtool, pickedFile, picks, handoff, reading, extracting, onDisplay, ready>>
        /\ UNCHANGED <<marks, confirmed, verdict, complaint, highlighting, markBusy, exported>>
    BY DEF pickVars, loadVars, listVars
  <2> DEFINE Heard(e) == [e EXCEPT !.heard = TRUE]
  <2>2. \A e \in exports :
            /\ Heard(e) \in ExportSet
            /\ Heard(e).beside = e.beside /\ Heard(e).file = e.file /\ Heard(e).known = e.known
            /\ Heard(e).marks = e.marks /\ Heard(e).tick = e.tick
    BY DEF MarkTypeOK, ExportSet
  <2>10. exports' = {Heard(e) : e \in exports}
    OBVIOUS
  <2> HIDE DEF Heard
  <2>3. \A h \in exports' : \E e \in exports :
            /\ h = Heard(e) /\ h \in ExportSet
            /\ h.beside = e.beside /\ h.file = e.file /\ TakenFits(h)
    BY <2>2, <2>10 DEF TakenFits
  <2>4. MarkTypeOK'
    BY <2>1, <2>3 DEF MarkTypeOK, ExportSet
  <2>5. HandoffFits' /\ DisplayFits' /\ MarkListFits'
    BY <2>1 DEF HandoffFits, DisplayFits, MarkListFits
  <2>6. ExportsAlone'
    <3> SUFFICES ASSUME NEW h \in exports', ~h.beside
                 PROVE  /\ exports' = {h} /\ markBusy'
                        /\ h.heard => stop'
                        /\ mtool' = "redact" => h.file = pickedFile' \/ pickedFile' = handoff'
      BY DEF ExportsAlone
    <3>1. PICK e \in exports : h = Heard(e) /\ h.beside = e.beside /\ h.file = e.file
      BY <2>3
    <3>2. exports = {e}
      BY <3>1 DEF ExportsAlone
    <3>3. exports' = {h}
      BY <2>10, <3>1, <3>2
    <3>4. stop' /\ markBusy'
      BY <2>1
    <3>5. mtool' = "redact" => h.file = pickedFile' \/ pickedFile' = handoff'
      BY <2>1, <3>1 DEF ExportsAlone
    <3> QED
      BY <3>3, <3>4, <3>5
  <2>7. (\A e \in exports : TakenFits(e))'
    BY <2>1, <2>3 DEF TakenFits
  <2>8. AnnotateAlone'
    <3>1. mtool = "annotate" => \A h \in exports' : ~h.beside
      BY <2>3 DEF AnnotateAlone
    <3> QED
      BY <2>1, <3>1 DEF AnnotateAlone
  <2>9. VerdictFits' /\ ExportedFits'
    BY <2>1 DEF VerdictFits, ExportedFits, TakenFits
  <2> QED
    BY <2>4, <2>5, <2>6, <2>7, <2>8, <2>9
<1>4. ASSUME NEW e \in exports, ExportDone(e) PROVE MarkIInv'
  <2>1. /\ ExportOver(e) /\ ~stop /\ exported' = e /\ complaint' = complaint
        /\ verdict' = IF mtool = "redact" THEN e.file ELSE NoFile
    BY <1>4 DEF ExportDone
  <2> QED
    BY <2>1, OverKeepsMarks
<1>5. ASSUME NEW e \in exports, ExportStops(e) \/ ExportFails(e) PROVE MarkIInv'
  <2>1. ExportOver(e) /\ exported' = exported /\ verdict' = verdict
        /\ complaint' \in {complaint, "none", "export"}
    BY <1>5 DEF ExportStops, ExportFails
  <2> QED
    BY <2>1, OverKeepsMarks
<1> QED
  BY <1>1, <1>2, <1>3, <1>4, <1>5

LEMMA MarkStep == MarkIInv /\ [MarkNext]_markVars => MarkIInv'
<1> SUFFICES ASSUME MarkIInv, [MarkNext]_markVars PROVE MarkIInv'
  OBVIOUS
<1>1. CASE UNCHANGED markVars
  <2>1. /\ UNCHANGED <<pickVars, loadVars, verdict, workVars>> /\ UNCHANGED complaint
        /\ marks' \subseteq marks \union {pickedFile}
        /\ confirmed' \in {confirmed, NoFile, pickedFile}
    BY <1>1 DEF markVars, listVars
  <2> QED
    BY <2>1, ListKeepsMarks
<1>2. CASE MarkNext
  <2>1. CASE PickFile \/ RemovePicked \/ HandoffArrives
    BY <2>1, FilesKeepMarks
  <2>2. CASE \E f \in 1 .. MaxPicks : LoadLands(f) \/ LinksExtracted(f) \/ LoadFails(f)
    BY <2>2, LoadsKeepMarks
  <2>3. CASE RedactOffers \/ FormsOffers \/ OverlayOffers \/ LinksOffers
    BY <2>3, OffersKeepMarks
  <2>4. CASE AnnotateOffers
    BY <2>4, OffersKeepMarks, HighlightsKeepMarks DEF AnnotateOffers
  <2>5. CASE EndHighlight \/ RetryHighlight
    BY <2>5, HighlightsKeepMarks
  <2>6. CASE \/ StartExport \/ RetryExport \/ CancelExport
             \/ \E e \in exports : ExportDone(e) \/ ExportStops(e) \/ ExportFails(e)
    BY <2>6, ExportsKeepMarks
  <2> QED
    BY <1>2, <2>1, <2>2, <2>3, <2>4, <2>5, <2>6 DEF MarkNext
<1> QED
  BY <1>1, <1>2

\* The tools that mark up one file (redact, forms, annotate, overlay, links): whatever
\* files are picked, handed over, read late and exported, the pages on display and the
\* verification are those of the file in the workbench, and a download was not cancelled
\* and carries no mark drawn on another file (with what MarksFitFile excepts).
THEOREM MarksStayWithFile == MarkSpec => []MarksFitFile
<1>1. MarkIInv => MarksFitFile
  <2> SUFFICES ASSUME MarkIInv PROVE MarksFitFile
    OBVIOUS
  <2> USE DEF MarkIInv
  <2>1. pickedFile \in ready => onDisplay = pickedFile
    BY DEF DisplayFits
  <2>2. pickedFile \in ready \ {handoff} /\ ~exported.beside => verdict \in {NoFile, pickedFile}
    BY DEF VerdictFits
  <2>3. exported # Undelivered /\ ~exported.beside => ~exported.heard /\ TakenFits(exported)
    BY DEF ExportedFits
  <2> QED
    BY <2>1, <2>2, <2>3 DEF MarksFitFile, TakenFits
<1> QED
  BY <1>1, MarkInitially, MarkStep, PTL DEF MarkSpec
=============================================================================

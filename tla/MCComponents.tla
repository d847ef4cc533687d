---------------------------- MODULE MCComponents ----------------------------
(***************************************************************************)
(* The components of a browser page that share no state with the upload    *)
(* system, in one run: a behaviour is one of the component `part`, the     *)
(* others stand still.                                                     *)
(***************************************************************************)
EXTENDS BatchQueue, PageList, Thumbnails, WorkerTask, TransferDialog,
        MarkTools, TableTool, ToolRuns, PagePlans

CONSTANTS f1, a, b, dup, pic

VARIABLE part

Parts == {"batch", "pages", "thumbs",
          "worker", "dialog", "marks", "tables", "tools", "plan"}

MCFilePages == [f \in {f1} |-> 2]
MCTokens == [from : Typed, to : Typed]
\* One group of up to two tokens or of none, or two groups of one.
MCTexts == {<<<<t>>>> : t \in MCTokens} \union {<<<<t, u>>>> : t, u \in MCTokens}
               \union {<<<<t>>, <<u>>>> : t, u \in MCTokens} \union {<<<<>>>>}
\* Two pages, an image, and a copy of the first page.
MCSheet == [p \in {a, b, dup, pic} |->
               CASE p \in {a, dup} -> "first" [] p = b -> "second" [] p = pic -> "image"]

ComponentsInit ==
    /\ part \in Parts
    /\ BatchInit /\ PageInit /\ ThumbInit /\ WorkerInit /\ DialogInit
    /\ MarkInit /\ (part # "marks" => mtool = "links")
    /\ TableInit
    /\ RunsInit /\ (part # "tools" => profile = Rotate /\ broken = {})
    /\ part # "worker" => toolKind = "split"
    /\ part # "dialog" => host = "workspace"
    /\ IF part = "thumbs" THEN listed \in {{a, b}, {a, pic}} ELSE listed = {a}
    /\ part # "plan" => request = [mode |-> "individual", total |-> 1]
    /\ PlanInit

BatchRests  == UNCHANGED batchVars
PagesRest   == UNCHANGED pageVars
ThumbsRest  == UNCHANGED thumbVars
WorkerRests == UNCHANGED workerVars
DialogRests == UNCHANGED dialogVars
RunsRest    == UNCHANGED runVars
MarksRest   == UNCHANGED markVars
TablesRest  == UNCHANGED tableVars
PlanRests   == UNCHANGED planVars

ListsRest   == BatchRests /\ PagesRest /\ ThumbsRest
RunnersRest == WorkerRests /\ DialogRests /\ RunsRest
MarkersRest == MarksRest /\ TablesRest /\ PlanRests

\* What rests comes first: TLC then works it out once for a state and not for each step.
ListsNext ==
    \/ part = "batch" /\ PagesRest /\ ThumbsRest /\ BatchNext
    \/ part = "pages" /\ BatchRests /\ ThumbsRest /\ PageNext
    \/ part = "thumbs" /\ BatchRests /\ PagesRest /\ ThumbNext

RunnersNext ==
    \/ part = "worker" /\ DialogRests /\ RunsRest /\ WorkerNext
    \/ part = "dialog" /\ WorkerRests /\ RunsRest /\ DialogNext
    \/ part = "tools" /\ WorkerRests /\ DialogRests /\ RunsNext

MarkersNext ==
    \/ part = "marks" /\ TablesRest /\ PlanRests /\ MarkNext
    \/ part = "tables" /\ MarksRest /\ PlanRests /\ TableNext
    \/ part = "plan" /\ MarksRest /\ TablesRest /\ PlanNext

ComponentsNext ==
    /\ UNCHANGED part
    /\ \/ RunnersRest /\ MarkersRest /\ ListsNext
       \/ ListsRest /\ MarkersRest /\ RunnersNext
       \/ ListsRest /\ RunnersRest /\ MarkersNext

ComponentsSpec ==
    ComponentsInit
        /\ [][ComponentsNext]_<<part, batchVars, pageVars, thumbVars, workerVars,
                                dialogVars, runVars, markVars, tableVars, planVars>>

\* States in which what a property excepts has happened are not followed further.
NothingExcepted ==
    /\ ~overlapped /\ ~setBack /\ ~staleCopy /\ ~swept
    /\ ~left /\ ~stranded /\ ~overtaken
    /\ \A e \in exports \union {exported} : ~e.beside

\* Bound: pages are previewed while none is selected; no step of a preview reads or changes
\* the selection.
PreviewsUnselected == viewing # NoPage => selection = {}
=============================================================================

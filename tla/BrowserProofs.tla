---------------------------- MODULE BrowserProofs ----------------------------
(***************************************************************************)
(* Proofs about the workspace page: the numbers of the Bates batch         *)
(* (BatchQueue), what the transfer dialog says (TransferDialog), the       *)
(* downloads the tools offer (ToolRuns), and the thumbnails on display     *)
(* (Thumbnails).                                                           *)
(***************************************************************************)
EXTENDS BatchQueue, TransferDialog, ToolRuns, Thumbnails, SequenceTheorems,
        WellFoundedInduction, TLAPS

-----------------------------------------------------------------------------
(* Lemmas on sets and sequences *)

\* A set of naturals has a first one.
LEMMA FirstExists ==
    ASSUME NEW J, J \subseteq Nat, J # {}
    PROVE  FirstOf(J) \in J /\ \A k \in J : FirstOf(J) <= k
<1> DEFINE less == OpToRel(<, Nat)
<1>1. IsWellFoundedOn(less, Nat)
  BY NatLessThanWellFounded
<1>2. \A k, n \in Nat : k < n => <<k, n>> \in less
  BY DEF OpToRel
<1> HIDE DEF less
<1>3. PICK n \in J : \A k \in J : ~(<<k, n>> \in less)
  BY <1>1, WFMin
<1>4. ASSUME NEW k \in J PROVE n <= k
  <2>1. k \in Nat /\ n \in Nat
    OBVIOUS
  <2>2. ~(k < n)
    BY <1>2, <1>3, <2>1 
  <2> QED
    BY <2>1, <2>2
<1> QED
  BY <1>4 DEF FirstOf

\* A sequence without the element at i.
LEMMA RemovedOne ==
    ASSUME NEW S, NEW s \in Seq(S), NEW i \in 1 .. Len(s)
    PROVE  /\ RemoveAt(s, i) \in Seq(S)
           /\ Len(RemoveAt(s, i)) = Len(s) - 1
           /\ \A j \in 1 .. Len(s) - 1 :
                  RemoveAt(s, i)[j] = IF j < i THEN s[j] ELSE s[j + 1]
<1> DEFINE front == SubSeq(s, 1, i - 1)
           back  == SubSeq(s, i + 1, Len(s))
<1>0. Len(s) \in Nat /\ i - 1 \in Int /\ i + 1 \in Int /\ \A j \in 1 .. Len(s) : s[j] \in S
  BY LenProperties, ElementOfSeq
<1>1. front \in Seq(S) /\ Len(front) = i - 1 /\ \A j \in 1 .. i - 1 : front[j] = s[j]
  <2>1. \A j \in 1 .. i - 1 : s[j] \in S
    BY <1>0
  <2> QED
    BY <1>0, <2>1, SubSeqProperties
<1>2. back \in Seq(S) /\ Len(back) = Len(s) - i
      /\ \A j \in 1 .. Len(s) - i : back[j] = s[i + j]
  <2>1. \A j \in i + 1 .. Len(s) : s[j] \in S
    BY <1>0
  <2>2. /\ back \in Seq(S)
        /\ Len(back) = IF i + 1 <= Len(s) THEN Len(s) - (i + 1) + 1 ELSE 0
        /\ \A j \in 1 .. Len(s) - (i + 1) + 1 : back[j] = s[i + 1 + j - 1]
    BY <1>0, <2>1, SubSeqProperties
  <2> QED
    BY <1>0, <2>2
<1> HIDE DEF front, back
<1>3. /\ front \o back \in Seq(S)
      /\ Len(front \o back) = Len(front) + Len(back)
      /\ \A j \in 1 .. Len(front) + Len(back) :
             (front \o back)[j] = IF j <= Len(front) THEN front[j] ELSE back[j - Len(front)]
  BY <1>1, <1>2, ConcatProperties
<1>4. RemoveAt(s, i) = front \o back
  BY DEF RemoveAt, front, back
<1> DEFINE w == front \o back
<1>5. w \in Seq(S) /\ Len(w) = Len(s) - 1
  BY <1>0, <1>1, <1>2, <1>3
<1>6. ASSUME NEW j \in 1 .. Len(s) - 1
      PROVE  w[j] = IF j < i THEN s[j] ELSE s[j + 1]
  <2>1. w[j] = IF j <= i - 1 THEN front[j] ELSE back[j - (i - 1)]
    BY <1>0, <1>1, <1>2, <1>3
  <2>2. CASE j < i
    BY <1>0, <1>1, <2>1, <2>2
  <2>3. CASE ~(j < i)
    <3>1. j - (i - 1) \in 1 .. Len(s) - i /\ i + (j - (i - 1)) = j + 1
      BY <1>0, <2>3
    <3>2. back[j - (i - 1)] = s[i + (j - (i - 1))]
      BY <1>2, <3>1
    <3> QED
      BY <1>0, <2>1, <2>3, <3>1, <3>2
  <2> QED
    BY <2>2, <2>3
<1> HIDE DEF w
<1> QED
  BY <1>4, <1>5, <1>6 DEF w

-----------------------------------------------------------------------------
(* The Bates batch *)

Statuses == {"absent", "pending", "done", "failed"}
JobSet   == [status : Statuses, tool : BatchTools \union {"none"}, input : BOOLEAN, bates : Nat,
             result : BOOLEAN]
LoopSet  == [at : {"idle", "next", "work", "settings"}, current : [Jobs -> JobSet], bates : Nat]

BatchTypeOK ==
    /\ queue \in [Jobs -> JobSet]
    /\ loop \in [Loops -> LoopSet]
    /\ batesStart \in Nat \ {0}

Going(l) == loop[l] # NoLoop

OneChore == {{}, {"zip"}, {"clear"}}

\* One loop goes at most, on a copy that is the queue shown, and nothing else does.
LoopIsAlone ==
    /\ \A l, m \in Loops : Going(l) /\ Going(m) => l = m
    /\ \A l \in Loops : Going(l) => busy /\ chores = {} /\ loop[l].current = queue
    /\ chores \in OneChore /\ (chores # {} => busy)

\* The number of the job at work is the one in use.
JobAtWork ==
    \A l \in Loops :
        loop[l].at = "work" => With(queue, "pending") # {} /\ loop[l].bates = batesStart

\* What a run has before it was confirmed.
RunConfirmed == Going("run") => AllConfirmed

\* The numbers given out are those below the one in use.
NumbersBelow ==
    \A j \in With(queue, "done") :
        IF queue[j].tool = "bates" THEN queue[j].bates \in 1 .. batesStart - 1
        ELSE queue[j].bates = 0

NumbersApart ==
    \A j, k \in With(queue, "done") :
        queue[j].tool = "bates" /\ queue[j].bates = queue[k].bates => j = k

\* The inductive invariant of BatesUnique.
BatchSound ==
    /\ BatchTypeOK
    /\ LoopIsAlone /\ JobAtWork /\ RunConfirmed
    /\ NumbersBelow /\ NumbersApart
    /\ ~unasked

BatchIInv == overlapped \/ setBack \/ BatchSound

LEMMA JobTypes ==
    /\ NoJob \in JobSet
    /\ \A tool \in BatchTools : NewJob(tool) \in JobSet /\ NewJob(tool).status = "pending"
    /\ \A job \in JobSet, status \in Statuses :
           /\ Become(job, status) \in JobSet
           /\ Become(job, status).status = status /\ Become(job, status).tool = job.tool
    /\ \A job \in JobSet, n \in Nat :
           /\ Done(job, n) \in JobSet
           /\ Done(job, n).status = "done" /\ Done(job, n).tool = job.tool
           /\ Done(job, n).bates = n
<1>1. NoJob \in JobSet
  BY DEF NoJob, JobSet, Statuses
<1>2. ASSUME NEW tool \in BatchTools
      PROVE  NewJob(tool) \in JobSet /\ NewJob(tool).status = "pending"
  BY DEF NewJob, JobSet, Statuses
<1>3. ASSUME NEW job \in JobSet, NEW status \in Statuses
      PROVE  /\ Become(job, status) \in JobSet
             /\ Become(job, status).status = status /\ Become(job, status).tool = job.tool
  BY DEF Become, JobSet
<1>4. ASSUME NEW job \in JobSet, NEW n \in Nat
      PROVE  /\ Done(job, n) \in JobSet
             /\ Done(job, n).status = "done" /\ Done(job, n).tool = job.tool
             /\ Done(job, n).bates = n
  <2> DEFINE x == Become(job, "done")
             y == [x EXCEPT !.result = TRUE]
  <2>1. x \in JobSet /\ x.status = "done" /\ x.tool = job.tool
    BY <1>3 DEF Statuses
  <2> HIDE DEF x
  <2>2. y \in JobSet /\ y.status = "done" /\ y.tool = job.tool
    BY <2>1 DEF JobSet
  <2> HIDE DEF y
  <2>3. /\ [y EXCEPT !.bates = n] \in JobSet
        /\ [y EXCEPT !.bates = n].status = "done" /\ [y EXCEPT !.bates = n].tool = job.tool
        /\ [y EXCEPT !.bates = n].bates = n
    BY <2>2 DEF JobSet
  <2> QED
    BY <2>3 DEF Done, y, x
<1> QED
  BY <1>1, <1>2, <1>3, <1>4

LEMMA LoopTypes ==
    /\ NoLoop \in LoopSet /\ NoLoop.at = "idle"
    /\ \A q \in [Jobs -> JobSet] :
           LoopOn(q) \in LoopSet /\ LoopOn(q).at = "next" /\ LoopOn(q).current = q
<1>1. EmptyQueue \in [Jobs -> JobSet]
  BY JobTypes DEF EmptyQueue
<1> QED
  BY <1>1 DEF NoLoop, LoopOn, LoopSet

LEMMA BatchInitially == BatchInit => BatchIInv
<1> SUFFICES ASSUME BatchInit PROVE BatchSound
  BY DEF BatchIInv
<1>1. queue \in [Jobs -> JobSet] /\ \A j \in Jobs : queue[j].status = "absent"
  BY JobTypes DEF BatchInit, EmptyQueue, NoJob
<1>2. loop \in [Loops -> LoopSet] /\ \A l \in Loops : loop[l] = NoLoop /\ loop[l].at = "idle"
  BY LoopTypes DEF BatchInit
<1>3. BatchTypeOK
  BY <1>1, <1>2 DEF BatchTypeOK, BatchInit
<1>4. LoopIsAlone /\ JobAtWork /\ RunConfirmed
  BY <1>2 DEF LoopIsAlone, JobAtWork, RunConfirmed, Going, BatchInit, Loops, OneChore
<1>5. NumbersBelow /\ NumbersApart /\ ~unasked
  BY <1>1 DEF NumbersBelow, NumbersApart, With, BatchInit
<1> QED
  BY <1>3, <1>4, <1>5 DEF BatchSound

\* While no loop goes: what is done stays as it is, and the number in use does not sink.
LEMMA IdleKeepsSound ==
    ASSUME BatchSound,
           queue' \in [Jobs -> JobSet],
           \A j \in Jobs : queue'[j].status = "done" => queue'[j] = queue[j],
           loop' \in [Loops -> LoopSet], \A l \in Loops : loop'[l] = NoLoop,
           chores' \in OneChore, chores' # {} => busy',
           batesStart' \in Nat, batesStart' >= batesStart,
           unasked' = unasked
    PROVE  BatchSound'
<1>1. BatchTypeOK'
  BY DEF BatchSound, BatchTypeOK
<1>2. LoopIsAlone' /\ JobAtWork' /\ RunConfirmed'
  BY LoopTypes DEF LoopIsAlone, JobAtWork, RunConfirmed, Going, Loops
<1>3. NumbersBelow' /\ NumbersApart'
  BY DEF BatchSound, BatchTypeOK, NumbersBelow, NumbersApart, With
<1> QED
  BY <1>1, <1>2, <1>3 DEF BatchSound

\* A loop begins or goes on.
LEMMA LoopKeepsSound ==
    ASSUME BatchSound,
           NEW l \in Loops, \A m \in Loops \ {l} : ~Going(m),
           NEW x \in LoopSet, loop' = [loop EXCEPT ![l] = x],
           queue' \in [Jobs -> JobSet], x.current = queue',
           busy', chores' = {}, agreed' = agreed,
           x.at = "work" => With(queue', "pending") # {} /\ x.bates = batesStart',
           l = "run" => AllConfirmed',
           batesStart' \in Nat \ {0},
           NumbersBelow', NumbersApart', ~unasked'
    PROVE  BatchSound'
<1>1. BatchTypeOK'
  BY DEF BatchSound, BatchTypeOK
<1>2. loop'[l] = x /\ \A m \in Loops \ {l} : loop'[m] = NoLoop /\ NoLoop.at = "idle"
  BY LoopTypes DEF BatchSound, BatchTypeOK, Going
<1>3. LoopIsAlone' /\ JobAtWork' /\ RunConfirmed'
  BY <1>2 DEF LoopIsAlone, JobAtWork, RunConfirmed, Going, Loops, OneChore
<1> QED
  BY <1>1, <1>3 DEF BatchSound

\* A loop that ends was the only one.
LEMMA EndKeepsSound ==
    ASSUME BatchSound, NEW l \in Loops, Going(l), LoopEnds(l),
           UNCHANGED <<queue, chores, unasked>>,
           batesStart' \in Nat, batesStart' >= batesStart
    PROVE  BatchSound'
<1>1. loop' = [loop EXCEPT ![l] = NoLoop] /\ ~busy'
  BY DEF LoopEnds
<1>2. \A m \in Loops \ {l} : loop[m] = NoLoop
  BY DEF BatchSound, LoopIsAlone, Going
<1>3. loop' \in [Loops -> LoopSet] /\ \A m \in Loops : loop'[m] = NoLoop
  BY <1>1, <1>2, LoopTypes DEF BatchSound, BatchTypeOK
<1>4. chores' = {}
  BY DEF BatchSound, LoopIsAlone
<1> QED
  BY <1>3, <1>4, IdleKeepsSound DEF BatchSound, BatchTypeOK, OneChore

\* A job is over: it failed, or its result has the number in use, or none.
LEMMA JobKeepsNumbers ==
    ASSUME BatchSound, NEW j, NEW job \in JobSet, queue' = [queue EXCEPT ![j] = job],
           job.status \in {"done", "failed"},
           \/ job.status = "failed" /\ batesStart' = batesStart
           \/ job.tool # "bates" /\ job.bates = 0 /\ batesStart' = batesStart
           \/ job.tool = "bates" /\ job.bates = batesStart /\ batesStart' = batesStart + 1
    PROVE  /\ queue' \in [Jobs -> JobSet] /\ batesStart' \in Nat \ {0}
           /\ NumbersBelow' /\ NumbersApart'
           /\ AllConfirmed /\ agreed' = agreed => AllConfirmed'
<1>1. /\ queue' \in [Jobs -> JobSet] /\ batesStart \in Nat \ {0} /\ batesStart' \in Nat \ {0}
      /\ \A k \in Jobs : queue'[k] = IF k = j THEN job ELSE queue[k]
  <2>1. queue \in [Jobs -> JobSet] /\ batesStart \in Nat \ {0}
    BY DEF BatchSound, BatchTypeOK
  <2>2. batesStart' \in Nat \ {0}
    BY <2>1
  <2>3. queue' \in [Jobs -> JobSet]
    BY <2>1
  <2>4. \A k \in Jobs : queue'[k] = IF k = j THEN job ELSE queue[k]
    BY <2>1
  <2> QED
    BY <2>1, <2>2, <2>3, <2>4
<1>2. \A k \in Jobs : queue[k] \in JobSet /\ queue[k].bates \in Nat
  BY DEF BatchSound, BatchTypeOK, JobSet
<1>3. NumbersBelow'
  BY <1>1, <1>2 DEF BatchSound, NumbersBelow, With
<1>4. \A k \in With(queue, "done") : queue[k].bates < batesStart
  BY <1>1, <1>2 DEF BatchSound, NumbersBelow
<1>5. NumbersApart'
  <2> SUFFICES ASSUME NEW a \in Jobs, NEW b \in Jobs,
                      queue'[a].status = "done", queue'[b].status = "done",
                      queue'[a].tool = "bates", queue'[a].bates = queue'[b].bates
               PROVE  a = b
    BY DEF NumbersApart, With
  <2>1. CASE a # j /\ b # j
    BY <1>1, <2>1 DEF BatchSound, NumbersApart, With
  <2>2. CASE a = j /\ b # j
    BY <1>1, <1>4, <2>2 DEF With
  <2>3. CASE a # j /\ b = j
    <3>1. queue[a].bates \in 1 .. batesStart - 1
      BY <1>1, <2>3 DEF BatchSound, NumbersBelow, With
    <3> QED
      BY <1>1, <2>3, <3>1
  <2> QED
    BY <2>1, <2>2, <2>3
<1>6. AllConfirmed /\ agreed' = agreed => AllConfirmed'
  BY <1>1 DEF AllConfirmed, With
<1> QED
  BY <1>1, <1>3, <1>5, <1>6

\* The panel, while nothing is busy, and a chore that ends.
LEMMA PanelKeepsSound ==
    ASSUME BatchSound, ~setBack',
           \/ \E j \in Jobs, tool \in BatchTools : AddFiles(j, tool)
           \/ SettingsForm \/ Footer \/ ChoreEnds \/ Reload
    PROVE  BatchSound'
<1>0. /\ queue \in [Jobs -> JobSet] /\ loop \in [Loops -> LoopSet] /\ batesStart \in Nat \ {0}
      /\ ~busy \/ chores # {} => \A l \in Loops : loop[l] = NoLoop
      /\ chores \in OneChore /\ (chores # {} => busy)
  BY DEF BatchSound, BatchTypeOK, LoopIsAlone, Going
<1>1. ASSUME NEW j \in Jobs, NEW tool \in BatchTools, AddFiles(j, tool) PROVE BatchSound'
  <2>1. queue' \in [Jobs -> JobSet] /\ \A k \in Jobs : queue'[k].status = "done" => queue'[k] = queue[k]
    BY <1>0, <1>1, JobTypes DEF AddFiles
  <2>2. ~busy /\ UNCHANGED <<loop, busy, chores, batesStart, unasked>>
    BY <1>1 DEF AddFiles, MayAdd, panelVars
  <2> QED
    BY <1>0, <2>1, <2>2, IdleKeepsSound
<1>2. ASSUME NEW n \in {batesStart, TypedStart}, EditSettings(n) PROVE BatchSound'
  <2>1. ~busy /\ batesStart' = n /\ UNCHANGED <<queue, loop, busy, chores, unasked>>
    BY <1>2 DEF EditSettings, panelVars
  <2>2. n \in Nat /\ ~(n < batesStart)
    BY <1>0, <1>2, BatchBoundsAssumption DEF EditSettings
  <2> QED
    BY <1>0, <2>1, <2>2, IdleKeepsSound
<1>3. ASSUME NEW tool \in Confirmable, Confirm(tool) \/ TakeBack(tool) PROVE BatchSound'
  <2>1. ~busy /\ UNCHANGED <<queue, loop, busy, chores, batesStart, unasked>>
    BY <1>3 DEF Confirm, TakeBack, batchHistory
  <2> QED
    BY <1>0, <2>1, IdleKeepsSound
<1>4. CASE DownloadAll
  <2>1. /\ ~busy /\ busy' /\ chores' = chores \union {"zip"}
        /\ UNCHANGED <<queue, loop, batesStart, unasked>>
    BY <1>4 DEF DownloadAll, batchHistory
  <2> QED
    BY <1>0, <2>1, IdleKeepsSound DEF OneChore
<1>5. CASE ClearProject
  <2>1. /\ ~busy /\ busy' /\ chores' = chores \union {"clear"}
        /\ UNCHANGED <<queue, loop, batesStart, unasked>>
    BY <1>5 DEF ClearProject, batchHistory
  <2> QED
    BY <1>0, <2>1, IdleKeepsSound DEF OneChore
<1>6. CASE ProjectCleared
  <2>1. /\ "clear" \in chores /\ chores' = chores \ {"clear"}
        /\ queue' = EmptyQueue /\ UNCHANGED <<loop, batesStart, unasked>>
    BY <1>6 DEF ProjectCleared
  <2>2. EmptyQueue \in [Jobs -> JobSet] /\ \A k \in Jobs : EmptyQueue[k].status = "absent"
    BY JobTypes DEF EmptyQueue, NoJob
  <2> QED
    BY <1>0, <2>1, <2>2, IdleKeepsSound DEF OneChore
<1>7. CASE ZipSaved \/ ClearingFails
  <2>1. /\ chores # {} /\ chores' \in {chores \ {"zip"}, chores \ {"clear"}}
        /\ chores' # chores /\ UNCHANGED <<queue, loop, batesStart, unasked>>
    BY <1>7 DEF ZipSaved, ClearingFails, batchHistory
  <2> QED
    BY <1>0, <2>1, IdleKeepsSound DEF OneChore
<1>8. CASE Reload
  <2>1. queue' = queue /\ batesStart' = batesStart
    BY <1>8 DEF Reload
  <2>2. loop' = [l \in Loops |-> NoLoop] /\ chores' = {} /\ unasked' = unasked
    BY <1>8 DEF Reload
  <2> QED
    BY <1>0, <2>1, <2>2, LoopTypes, IdleKeepsSound DEF OneChore
<1> QED
  BY <1>1, <1>2, <1>3, <1>4, <1>5, <1>6, <1>7, <1>8 DEF SettingsForm, Footer, ChoreEnds

\* A loop begins, alone.
LEMMA StartKeepsSound ==
    ASSUME BatchSound, ~overlapped', RunPending \/ JobList
    PROVE  BatchSound'
<1>0. queue \in [Jobs -> JobSet] /\ batesStart \in Nat \ {0}
  BY DEF BatchSound, BatchTypeOK
<1>1. CASE RunPending
  <2>1. /\ loop' = [loop EXCEPT !["run"] = LoopOn(queue)] /\ busy' /\ chores = {}
        /\ \A m \in Loops : ~Going(m)
        /\ AllConfirmed /\ UNCHANGED <<queue, chores, agreed, batesStart, unasked>>
    BY <1>1 DEF RunPending, StartLoop, Going, panelVars
  <2>2. NumbersBelow' /\ NumbersApart' /\ AllConfirmed'
    BY <2>1 DEF BatchSound, NumbersBelow, NumbersApart, AllConfirmed, With
  <2>3. LoopOn(queue) \in LoopSet /\ LoopOn(queue).at = "next" /\ LoopOn(queue).current = queue
    BY <1>0, LoopTypes
  <2> QED
    BY <1>0, <2>1, <2>2, <2>3, LoopKeepsSound DEF BatchSound, Loops
<1>2. ASSUME NEW j \in Jobs, RetryFailed(j) PROVE BatchSound'
  <2>1. /\ loop' = [loop EXCEPT !["retry"] = LoopOn(queue')] /\ busy' /\ chores = {}
        /\ \A m \in Loops : ~Going(m)
        /\ queue' = [queue EXCEPT ![j] = Become(queue[j], "pending")]
        /\ UNCHANGED <<chores, agreed, batesStart, unasked>>
    BY <1>2 DEF RetryFailed, StartLoop, Going, panelVars
  <2>2. queue' \in [Jobs -> JobSet]
        /\ \A k \in Jobs : queue'[k].status = "done" => queue'[k] = queue[k]
    BY <1>0, <2>1, JobTypes DEF Statuses
  <2>3. NumbersBelow' /\ NumbersApart'
    BY <2>1, <2>2 DEF BatchSound, NumbersBelow, NumbersApart, With
  <2>4. LoopOn(queue') \in LoopSet /\ LoopOn(queue').at = "next" /\ LoopOn(queue').current = queue'
    BY <2>2, LoopTypes
  <2> QED
    BY <1>0, <2>1, <2>2, <2>3, <2>4, LoopKeepsSound DEF BatchSound, Loops
<1> QED
  BY <1>1, <1>2 DEF JobList

\* What a loop that is going finds.
LEMMA GoingLoop ==
    ASSUME BatchSound, NEW l \in Loops, loop[l].at # "idle"
    PROVE  /\ Going(l) /\ \A m \in Loops \ {l} : ~Going(m)
           /\ loop[l] \in LoopSet /\ loop[l].current = queue /\ busy /\ chores = {}
           /\ queue \in [Jobs -> JobSet] /\ batesStart \in Nat \ {0}
           /\ l = "run" => AllConfirmed
BY LoopTypes DEF BatchSound, BatchTypeOK, LoopIsAlone, RunConfirmed, Going

LEMMA NextIsPending ==
    ASSUME BatchSound, NEW l \in Loops, loop[l].at # "idle", With(loop[l].current, "pending") # {}
    PROVE  NextJob(l) \in With(queue, "pending")
<1>1. With(queue, "pending") \subseteq Nat
  BY DEF With, Jobs
<1>2. loop[l].current = queue
  BY GoingLoop
<1> QED
  BY <1>1, <1>2, FirstExists DEF NextJob

LEMMA LoopStepKeepsSound ==
    ASSUME BatchSound, NEW l \in Loops, Loop(l)
    PROVE  BatchSound'
<1>0. loop[l].at # "idle"
  BY DEF Loop, StartJob, JobRefused, BatesDone, JobDone, JobFails, StopRun, EndLoop,
         SaveSettings
<1>1. /\ Going(l) /\ \A m \in Loops \ {l} : ~Going(m)
      /\ loop[l] \in LoopSet /\ loop[l].current = queue /\ busy /\ chores = {}
      /\ queue \in [Jobs -> JobSet] /\ batesStart \in Nat \ {0}
      /\ l = "run" => AllConfirmed
  BY <1>0, GoingLoop
<1>2. /\ NumbersBelow /\ NumbersApart /\ ~unasked
      /\ loop[l].at = "work" => With(queue, "pending") # {} /\ loop[l].bates = batesStart
  BY DEF BatchSound, JobAtWork
<1>3. CASE StartJob(l)
  <2> DEFINE x == [loop[l] EXCEPT !.at = "work", !.bates = batesStart]
  <2>1. x \in LoopSet /\ x.at = "work" /\ x.bates = batesStart /\ x.current = queue
    BY <1>1 DEF LoopSet
  <2>2. loop' = [loop EXCEPT ![l] = x]
        /\ UNCHANGED <<queue, busy, chores, agreed, batesStart>>
    BY <1>3 DEF StartJob, BatesStart, panelVars
  <2>3. ~unasked'
    <3>1. NextJob(l) \in With(queue, "pending")
      BY <1>0, <1>3, NextIsPending DEF StartJob
    <3> QED
      BY <1>1, <1>2, <1>3, <3>1 DEF StartJob, AllConfirmed
  <2> HIDE DEF x
  <2>4. NumbersBelow' /\ NumbersApart' /\ (AllConfirmed => AllConfirmed')
    BY <1>2, <2>2 DEF NumbersBelow, NumbersApart, AllConfirmed, With
  <2>5. With(queue', "pending") # {}
    BY <1>1, <1>3, <2>2 DEF StartJob, With
  <2> QED
    BY <1>1, <2>1, <2>2, <2>3, <2>4, <2>5, LoopKeepsSound
<1>4. ASSUME NEW job \in JobSet, Shows(l, job), job.status \in {"done", "failed"},
             \/ job.status = "failed" /\ batesStart' = batesStart
             \/ job.tool # "bates" /\ job.bates = 0 /\ batesStart' = batesStart
             \/ job.tool = "bates" /\ job.bates = batesStart /\ batesStart' = batesStart + 1,
             UNCHANGED <<busy, chores, agreed, unasked>>
      PROVE  BatchSound'
  <2>1. queue' = [queue EXCEPT ![NextJob(l)] = job] /\ loop' = [loop EXCEPT ![l] = LoopOn(queue')]
    BY <1>1, <1>4 DEF Shows
  <2>2. PICK j : j = NextJob(l)
    OBVIOUS
  <2>3. /\ queue' \in [Jobs -> JobSet] /\ batesStart' \in Nat \ {0}
        /\ NumbersBelow' /\ NumbersApart'
        /\ AllConfirmed => AllConfirmed'
    BY <1>4, <2>1, <2>2, JobKeepsNumbers
  <2>4. LoopOn(queue') \in LoopSet /\ LoopOn(queue').at = "next" /\ LoopOn(queue').current = queue'
    BY <2>3, LoopTypes
  <2> QED
    BY <1>1, <1>2, <1>4, <2>1, <2>3, <2>4, LoopKeepsSound
<1>5. ASSUME With(queue, "pending") # {}
      PROVE  /\ Become(queue[NextJob(l)], "failed") \in JobSet
             /\ Become(queue[NextJob(l)], "failed").status = "failed"
             /\ \A n \in Nat : /\ Done(queue[NextJob(l)], n) \in JobSet
                               /\ Done(queue[NextJob(l)], n).status = "done"
                               /\ Done(queue[NextJob(l)], n).tool = queue[NextJob(l)].tool
                               /\ Done(queue[NextJob(l)], n).bates = n
  <2>1. NextJob(l) \in Jobs
    BY <1>0, <1>1, <1>5, NextIsPending DEF With
  <2>2. queue[NextJob(l)] \in JobSet
    BY <1>1, <2>1
  <2> QED
    BY <2>2, JobTypes DEF Statuses
<1>6. CASE JobRefused(l) \/ JobFails(l)
  <2>1. With(queue, "pending") # {} /\ Shows(l, Become(queue[NextJob(l)], "failed"))
    BY <1>1, <1>2, <1>6 DEF JobRefused, JobFails
  <2>2. UNCHANGED <<busy, chores, agreed, batesStart, unasked>>
    BY <1>6 DEF JobRefused, JobFails, panelVars, batchHistory
  <2> QED
    BY <1>4, <1>5, <2>1, <2>2
<1>7. ASSUME NEW n \in Nat, Lands(l, n), batesStart' \in Nat, batesStart' >= batesStart,
             \/ queue[NextJob(l)].tool # "bates" /\ n = 0 /\ batesStart' = batesStart
             \/ queue[NextJob(l)].tool = "bates" /\ n = batesStart /\ batesStart' = batesStart + 1,
             With(queue, "pending") # {}, UNCHANGED <<chores, agreed, unasked>>
      PROVE  BatchSound'
  <2>1. CASE LoopEnds(l) /\ UNCHANGED queue
    BY <1>1, <1>7, <2>1, EndKeepsSound
  <2>2. CASE Shows(l, Done(queue[NextJob(l)], n)) /\ UNCHANGED busy
    <3> DEFINE job == Done(queue[NextJob(l)], n)
    <3>1. job \in JobSet /\ job.status = "done" /\ job.tool = queue[NextJob(l)].tool
          /\ job.bates = n
      BY <1>5, <1>7
    <3>2. Shows(l, job) /\ UNCHANGED busy
      BY <2>2
    <3> HIDE DEF job
    <3> QED
      BY <1>4, <1>7, <3>1, <3>2
  <2> QED
    BY <1>1, <1>7, <2>1, <2>2 DEF Lands
<1>8. CASE BatesDone(l)
  <2>1. /\ With(queue, "pending") # {} /\ loop[l].bates = batesStart
        /\ queue[NextJob(l)].tool = "bates"
        /\ batesStart' = batesStart + 1 /\ Lands(l, batesStart)
        /\ UNCHANGED <<chores, agreed, unasked>>
    BY <1>1, <1>2, <1>8 DEF BatesDone, panelVars, batchHistory
  <2> QED
    BY <1>1, <1>7, <2>1
<1>9. CASE JobDone(l)
  <2>1. /\ With(queue, "pending") # {} /\ queue[NextJob(l)].tool # "bates"
        /\ batesStart' = batesStart /\ Lands(l, 0)
        /\ UNCHANGED <<chores, agreed, unasked>>
    BY <1>1, <1>2, <1>9 DEF JobDone, panelVars, batchHistory
  <2> QED
    BY <1>1, <1>7, <2>1
<1>10. CASE StopRun(l) \/ SaveSettings(l)
  <2>1. LoopEnds(l) /\ UNCHANGED <<queue, chores, batesStart, unasked>>
    BY <1>10 DEF StopRun, SaveSettings, panelVars, batchHistory
  <2> QED
    BY <1>1, <2>1, EndKeepsSound
<1>11. CASE EndLoop(l)
  <2>1. queue' = queue /\ UNCHANGED <<chores, agreed, batesStart, unasked>>
    BY <1>1, <1>11 DEF EndLoop, panelVars, batchHistory
  <2>2. CASE LoopEnds(l)
    BY <1>1, <2>1, <2>2, EndKeepsSound
  <2>3. CASE LoopGoes(l, "settings") /\ UNCHANGED busy
    <3> DEFINE x == [loop[l] EXCEPT !.at = "settings"]
    <3>1. x \in LoopSet /\ x.at = "settings" /\ x.current = queue'
      BY <1>1, <2>1 DEF LoopSet
    <3>2. loop' = [loop EXCEPT ![l] = x]
      BY <2>3 DEF LoopGoes
    <3> HIDE DEF x
    <3>3. NumbersBelow' /\ NumbersApart' /\ (AllConfirmed => AllConfirmed')
      BY <1>2, <2>1 DEF NumbersBelow, NumbersApart, AllConfirmed, With
    <3> QED
      BY <1>1, <1>2, <2>1, <2>3, <3>1, <3>2, <3>3, LoopKeepsSound
  <2> QED
    BY <1>11, <2>2, <2>3 DEF EndLoop
<1> QED
  BY <1>3, <1>6, <1>8, <1>9, <1>10, <1>11 DEF Loop

LEMMA BatchStep == BatchIInv /\ [BatchNext]_batchVars => BatchIInv'
<1> SUFFICES ASSUME BatchIInv, [BatchNext]_batchVars, ~overlapped', ~setBack' PROVE BatchSound'
  BY DEF BatchIInv
<1>1. ~overlapped /\ ~setBack
  <2>1. overlapped => overlapped'
    BY DEF BatchNext, Toolbar, AddFiles, RunPending, StartLoop, SettingsForm, EditSettings,
           Confirm, TakeBack, CancelRun, JobList, RetryFailed, Footer, DownloadAll,
           ClearProject, ChoreEnds, ProjectCleared, ClearingFails, ZipSaved, Loop, StartJob, JobRefused, BatesDone, JobDone, JobFails,
           StopRun, EndLoop, SaveSettings, Reload, batchHistory, batchVars
  <2>2. setBack => setBack'
    BY DEF BatchNext, Toolbar, AddFiles, RunPending, StartLoop, SettingsForm, EditSettings,
           Confirm, TakeBack, CancelRun, JobList, RetryFailed, Footer, DownloadAll,
           ClearProject, ChoreEnds, ProjectCleared, ClearingFails, ZipSaved, Loop, StartJob, JobRefused, BatesDone, JobDone, JobFails,
           StopRun, EndLoop, SaveSettings, Reload, batchHistory, batchVars
  <2> QED
    BY <2>1, <2>2
<1>2. BatchSound
  BY <1>1 DEF BatchIInv
<1>3. CASE CancelRun \/ UNCHANGED batchVars
  <2>1. UNCHANGED <<queue, loop, busy, chores, agreed, batesStart, unasked>>
    BY <1>3 DEF CancelRun, batchVars, panelVars, batchHistory
  <2> QED
    BY <1>2, <2>1
       DEF BatchSound, BatchTypeOK, LoopIsAlone, JobAtWork, RunConfirmed, NumbersBelow,
           NumbersApart, Going, AllConfirmed, With
<1> QED
  BY <1>2, <1>3, PanelKeepsSound, StartKeepsSound, LoopStepKeepsSound DEF BatchNext, Toolbar

\* No two results carry the same Bates number and a run works on no file that was not
\* confirmed, for any number of jobs, tools and reloads; unless a loop ran beside another
\* or beside a ZIP or a clearing, or an older start or queue came back.
THEOREM BatesStayUnique == BatchSpec => []BatesUnique
<1>1. BatchIInv => BatesUnique
  BY DEF BatchIInv, BatchSound, NumbersApart, BatesUnique
<1> QED
  BY BatchInitially, BatchStep, <1>1, PTL DEF BatchSpec

-----------------------------------------------------------------------------
(* The transfer dialog *)

Exports == Compiled \union {"staff"}

DialogTypeOK ==
    /\ host \in {"workspace", "staff"}
    /\ phase \in ActivePhases \union TerminalPhases \union {"idle"}
    /\ exporting \in Exports \union {NoExport}
    /\ retry \in Exports \union {NoExport}
    /\ gate \in {"none", "asking", "pending", "upload"}
    /\ converting \in Nat

\* At most one of the export and the upload is under way, and the dialog's phase tells.
OneTransfer ==
    /\ phase \in ActivePhases <=> exporting # NoExport \/ Uploading \/ Waiting
    /\ exporting # NoExport => gate = "none" /\ ~mailing

\* The upload for an address waits behind the gate, and its dialog is not gone before.
GateInOrder ==
    /\ mailing => gate = "pending"
    /\ gate = "pending" => mailing \/ verifyOpen

\* What is named is what is compiled, and then what is saved, and mailed.
NamesFit ==
    host = "workspace" =>
        /\ exporting # NoExport => named = exporting
        /\ phase = "completed" \/ gate # "none" => local = named /\ local # NoExport

\* The questions and notices of the two dialogs.
NoticesFit ==
    /\ confirming => phase \in ActivePhases
    /\ isConverting => wordOpen /\ converting > 0

DialogSound == DialogTypeOK /\ OneTransfer /\ GateInOrder /\ NamesFit /\ NoticesFit

\* The inductive invariant of DialogTellsTruth.
DialogIInv == left \/ stranded \/ overtaken \/ DialogSound

LEMMA DialogInitially == DialogInit => DialogIInv
BY DEF DialogInit, DialogIInv, DialogSound, DialogTypeOK, OneTransfer, GateInOrder, NamesFit,
       NoticesFit, Exports, Compiled, NoExport, ActivePhases, TerminalPhases, Uploading, Waiting

LEMMA ExportKeepsTruth ==
    ASSUME DialogSound,
           \/ \E export \in Exports : BeginExport(export)
           \/ Retry
           \/ \E step \in {"processing", "uploading"} : ExportProgress(step)
           \/ EndExport
    PROVE  DialogSound'
<1> USE DEF DialogSound, DialogTypeOK, OneTransfer, GateInOrder, NamesFit, NoticesFit, Exports,
            Compiled, NoExport, ActivePhases, TerminalPhases, Uploading, Waiting, fileVars, wordVars,
            uploadVars, pastVars, exportVars, stateVars
<1>1. CASE \E export \in Exports : BeginExport(export)
  BY <1>1 DEF BeginExport, Begin, PageFree
<1>2. CASE Retry
  BY <1>2 DEF Retry, Begin
<1>3. CASE \E step \in {"processing", "uploading"} : ExportProgress(step)
  BY <1>3 DEF ExportProgress, Progress
<1>4. CASE EndExport
  BY <1>4 DEF EndExport, SaveLocal, Settle
<1> QED
  BY <1>1, <1>2, <1>3, <1>4

LEMMA WordKeepsTruth ==
    ASSUME DialogSound, OpenWord \/ WordReset \/ WordOffers \/ ConversionFails \/ ConversionLands
    PROVE  overtaken' \/ DialogSound'
<1> USE DEF DialogSound, DialogTypeOK, OneTransfer, GateInOrder, NamesFit, NoticesFit, Exports,
            Compiled, NoExport, ActivePhases, TerminalPhases, Uploading, Waiting, fileVars, wordVars,
            uploadVars, pastVars, exportVars, stateVars
<1>1. CASE OpenWord \/ WordReset \/ CloseWord
  BY <1>1 DEF OpenWord, WordReset, CloseWord
<1>2. CASE StartConversion \/ ConversionFails
  BY <1>2 DEF StartConversion, ConversionFails
<1>3. CASE ConversionLands
  <2>1. CASE exporting # NoExport \/ gate # "none" \/ mailing
    <3>1. overtaken'
      BY <1>3, <2>1 DEF ConversionLands
    <3> QED
      BY <3>1
  <2>2. CASE ~(exporting # NoExport \/ gate # "none" \/ mailing)
    <3>1. DialogSound'
      BY <1>3, <2>2 DEF ConversionLands, SaveLocal, Settle
    <3> QED
      BY <3>1
  <2> QED
    BY <2>1, <2>2
<1> QED
  BY <1>1, <1>2, <1>3 DEF WordOffers

LEMMA UploadKeepsTruth ==
    ASSUME DialogSound,
           \/ EmailCopy \/ GateAnswers \/ SubmitEmail \/ CloseVerify \/ UploadDone \/ UploadFails
           \/ \E step \in {"preparing", "uploading", "finalizing"} : UploadProgress(step)
    PROVE  left' \/ stranded' \/ DialogSound'
<1> USE DEF DialogSound, DialogTypeOK, OneTransfer, GateInOrder, NamesFit, NoticesFit, Exports,
            Compiled, NoExport, ActivePhases, TerminalPhases, Uploading, Waiting, fileVars, wordVars,
            uploadVars, pastVars, exportVars, stateVars
<1>1. CASE EmailCopy
  BY <1>1 DEF EmailCopy, Progress
<1>2. CASE GateAnswers
  BY <1>2 DEF GateAnswers, Settle
<1>3. CASE SubmitEmail
  BY <1>3 DEF SubmitEmail, Progress
<1>4. CASE CloseVerify
  BY <1>4 DEF CloseVerify, Reset
<1>5. CASE UploadDone
  BY <1>5 DEF UploadDone, Settle
<1>6. CASE UploadFails
  BY <1>6 DEF UploadFails, Settle
<1>7. CASE \E step \in {"preparing", "uploading", "finalizing"} : UploadProgress(step)
  BY <1>7 DEF UploadProgress, Progress
<1> QED
  BY <1>1, <1>2, <1>3, <1>4, <1>5, <1>6, <1>7

LEMMA ButtonsKeepTruth ==
    ASSUME DialogSound, AttemptCancel \/ KeepGoing \/ CloseTransfer
    PROVE  DialogSound'
<1> USE DEF DialogSound, DialogTypeOK, OneTransfer, GateInOrder, NamesFit, NoticesFit, Exports,
            Compiled, NoExport, ActivePhases, TerminalPhases, Uploading, Waiting, fileVars, wordVars,
            uploadVars, pastVars, exportVars, stateVars
<1>1. CASE AttemptCancel
  BY <1>1 DEF AttemptCancel, RequestCancel
<1>2. CASE KeepGoing
  BY <1>2 DEF KeepGoing
<1>3. CASE CloseTransfer
  BY <1>3 DEF CloseTransfer, Reset
<1> QED
  BY <1>1, <1>2, <1>3

LEMMA DialogStep == DialogIInv /\ [DialogNext]_dialogVars => DialogIInv'
<1> SUFFICES ASSUME DialogIInv, [DialogNext]_dialogVars PROVE DialogIInv'
  OBVIOUS
<1>1. CASE left \/ stranded \/ overtaken
  <2>1. CASE ConversionLands
    BY <1>1, <2>1 DEF ConversionLands, DialogIInv
  <2>2. CASE CloseVerify
    BY <1>1, <2>2 DEF CloseVerify, DialogIInv
  <2>3. CASE UploadFails
    BY <1>1, <2>3 DEF UploadFails, DialogIInv
  <2>4. ASSUME ~ConversionLands, ~CloseVerify, ~UploadFails
        PROVE  UNCHANGED <<left, stranded, overtaken>>
    <3>1. CASE \E export \in Exports : BeginExport(export)
      BY <3>1 DEF BeginExport, Begin, pastVars
    <3>2. CASE \E step \in {"processing", "uploading"} : ExportProgress(step)
      BY <3>2 DEF ExportProgress, pastVars
    <3>3. CASE EndExport \/ OpenWord \/ WordReset \/ WordOffers \/ ConversionFails
      BY <3>3 DEF EndExport, OpenWord, WordReset, WordOffers, CloseWord, StartConversion,
                  ConversionFails, pastVars
    <3>4. CASE GateAnswers \/ SubmitEmail \/ UploadDone \/ EmailCopy
      BY <3>4 DEF GateAnswers, SubmitEmail, UploadDone, EmailCopy, pastVars
    <3>5. CASE \E step \in {"preparing", "uploading", "finalizing"} : UploadProgress(step)
      BY <3>5 DEF UploadProgress, pastVars
    <3>6. CASE Retry \/ KeepGoing \/ CloseTransfer
      BY <3>6 DEF Retry, Begin, KeepGoing, CloseTransfer, pastVars
    <3>7. CASE AttemptCancel
      BY <3>7 DEF AttemptCancel
    <3>8. CASE UNCHANGED dialogVars
      BY <3>8 DEF dialogVars, pastVars
    <3> QED
      BY <2>4, <3>1, <3>2, <3>3, <3>4, <3>5, <3>6, <3>7, <3>8 DEF DialogNext, TransferOffers, Exports
  <2> QED
    BY <1>1, <2>1, <2>2, <2>3, <2>4 DEF DialogIInv
<1>2. CASE DialogSound
  <2>1. CASE UNCHANGED dialogVars
    BY <1>2, <2>1 DEF dialogVars, stateVars, exportVars, fileVars, wordVars, uploadVars, pastVars,
              DialogIInv, DialogSound, DialogTypeOK, OneTransfer, GateInOrder, NamesFit,
              NoticesFit, Uploading, Waiting
  <2>2. CASE DialogNext
    BY <1>2, <2>2, ExportKeepsTruth, WordKeepsTruth, UploadKeepsTruth, ButtonsKeepTruth
       DEF DialogNext, TransferOffers, DialogIInv, Exports
  <2> QED
    BY <2>1, <2>2
<1> QED
  BY <1>1, <1>2 DEF DialogIInv

\* TransferProgressModal.tsx over useTransferOperation.ts: whatever runs, ends and is
\* cancelled, the dialog is open exactly while something runs for it, the export it calls
\* ready is the one it saves and mails, and the conversion's dialog says Converting only
\* while it converts (with what DialogTellsTruth excepts).
THEOREM DialogAlwaysTellsTruth == DialogSpec => []DialogTellsTruth
<1>1. DialogIInv => DialogTellsTruth
  BY DEF DialogIInv, DialogSound, DialogTypeOK, OneTransfer, NamesFit, NoticesFit,
         DialogTellsTruth
<1> QED
  BY <1>1, DialogInitially, DialogStep, PTL DEF DialogSpec

-----------------------------------------------------------------------------
(* The tools on a workbench *)

\* What the proofs need of a profile.
ProfileOK(p) ==
    /\ p.least \in Nat \ {0}
    /\ p.reads = "bytes" => ~p.many /\ ~p.keeps
    /\ p.result = "preview" => ~p.many /\ ~p.box /\ p.reads = "reset"
    /\ p.result = "numbers" => ~p.box

LEMMA Profiles == \A p \in Tools : ProfileOK(p)
<1>1. ProfileOK(Crop) /\ ProfileOK(Resize)
  BY DEF Crop, Resize, Plain, ProfileOK
<1>2. ProfileOK(SplitUp) /\ ProfileOK(Extract) /\ ProfileOK(ToImages) /\ ProfileOK(Pptx)
  BY DEF SplitUp, Extract, ToImages, Pptx, Reader, Plain, ProfileOK
<1>3. ProfileOK(Bates)
  BY DEF Bates, Reader, Plain, ProfileOK
<1>4. ProfileOK(Merged) /\ ProfileOK(Pictures) /\ ProfileOK(Rotate) /\ ProfileOK(Compress)
  BY DEF Merged, Pictures, Rotate, Compress, Plain, ProfileOK
<1>5. ProfileOK(Protect) /\ ProfileOK(Unlock)
  BY DEF Protect, Unlock, Plain, ProfileOK
<1>6. ProfileOK(Flatten) /\ ProfileOK(Office) /\ ProfileOK(CertSign)
  BY DEF Flatten, Office, CertSign, Asks, Plain, ProfileOK
<1>7. ProfileOK(Epub) /\ ProfileOK(Html)
  BY DEF Epub, Html, Plain, ProfileOK
<1> QED
  BY <1>1, <1>2, <1>3, <1>4, <1>5, <1>6, <1>7 DEF Tools

RunSet == [files : Seq(Nat), content : Seq(Nat), pages : Nat, tick : Nat, at : Nat,
           heard : BOOLEAN, early : BOOLEAN, swapped : BOOLEAN, beside : BOOLEAN,
           first : Nat, again : BOOLEAN]

\* The files of a list are files so far.
Shelved(files) == \A i \in 1 .. Len(files) : files[i] \in 1 .. shelved

RunsTypeOK ==
    /\ profile \in Tools
    /\ shelved \in Nat
    /\ shelf \in Seq(Nat) /\ Shelved(shelf) /\ (profile.many \/ Len(shelf) <= 1)
    /\ handedIn \in {LookedUp} \union 0 .. shelved
    /\ known \in Nat /\ ticked \in Nat
    /\ runs \subseteq RunSet
    /\ startField \in Nat
    /\ startField = savedNext /\ savedNext = stamped

\* What the tool knows is of the first file, or an effect is reading that one, or could
\* not read it and left what was known.
KnownFits ==
    profile.reads \in {"bytes", "pages"} =>
        \/ known \in {NoPdf, First}
        \/ First \in opening
        \/ First \in broken /\ profile.keeps

\* The box is ticked for the first file, unless a handoff brought it.
TickFits == profile.box => ticked \in {NoPdf, First} \/ First = handedIn

\* A run beside no other is alone, and nothing moved the number since it began.
RunsAlone ==
    \A r \in runs :
        ~r.beside => runs = {r} /\ (r.heard => flag) /\ r.first = stamped

\* What a run took with it, and the files it has behind it.
RunFits(r) ==
    /\ r.files # <<>> /\ Shelved(r.files)
    /\ r.content # <<>>
    /\ ~r.early => r.content = r.files
    /\ ~r.early => r.pages \in {NoPdf, Head(r.files)} \/ Head(r.files) \in broken
    /\ profile.box => r.tick = Head(r.files) \/ Head(r.files) = handedIn
    /\ r.at \in 1 .. Len(r.content)
    /\ \A i \in 1 .. r.at - 1 : r.content[i] \notin broken

\* The tool with a preview reads nothing ahead, runs once at a time, and shows the
\* preview of the file in the workbench, unless a handoff came under the run.
PreviewFits ==
    /\ profile.result # "preview" => preview = NoPreview
    /\ profile.result = "preview" =>
          /\ opening = {}
          /\ failed => ~busyMark
          /\ \A r \in runs : busyMark /\ ~r.beside /\ ~r.early /\ (r.swapped \/ r.files = shelf)
          /\ preview = NoPreview \/ preview.swapped \/ <<preview.file>> = shelf

DownloadFits ==
    /\ DownloadFitsFiles
    /\ download.files \in Seq(Nat) /\ Shelved(download.files)

\* The inductive invariant of DownloadFitsFiles.
RunsIInv ==
    /\ RunsTypeOK
    /\ KnownFits /\ TickFits
    /\ RunsAlone /\ (\A r \in runs : RunFits(r))
    /\ PreviewFits /\ DownloadFits

LEMMA RunsInitially == RunsInit => RunsIInv
<1> SUFFICES ASSUME RunsInit PROVE RunsIInv
  OBVIOUS
<1> USE DEF RunsInit
<1>1. RunsTypeOK
  BY DEF RunsTypeOK, Shelved, NoPdf, LookedUp
<1>2. KnownFits /\ TickFits /\ RunsAlone /\ (\A r \in runs : RunFits(r))
  BY DEF KnownFits, TickFits, RunsAlone
<1>3. PreviewFits /\ DownloadFits
  BY DEF PreviewFits, DownloadFits, DownloadFitsFiles, NoDownload, Shelved
<1> QED
  BY <1>1, <1>2, <1>3 DEF RunsIInv

\* The first file is one of those there have been.
LEMMA FirstIsShelved == RunsTypeOK => First \in {NoPdf} \union 1 .. shelved
<1> SUFFICES ASSUME RunsTypeOK PROVE First \in {NoPdf} \union 1 .. shelved
  OBVIOUS
<1>1. CASE shelf = <<>>
  BY <1>1 DEF First
<1>2. CASE shelf # <<>>
  <2>1. shelf \in Seq(Nat) /\ Shelved(shelf)
    BY DEF RunsTypeOK
  <2>2. 1 \in 1 .. Len(shelf) /\ Head(shelf) = shelf[1]
    BY <1>2, <2>1
  <2>3. shelf[1] \in 1 .. shelved
    BY <2>1, <2>2 DEF Shelved
  <2> QED
    BY <1>2, <2>2, <2>3 DEF First
<1> QED
  BY <1>1, <1>2

LEMMA LessIsShelved ==
    ASSUME NEW s \in Seq(Nat), NEW i \in 1 .. Len(s)
    PROVE  /\ RemoveAt(s, i) \in Seq(Nat) /\ Len(RemoveAt(s, i)) = Len(s) - 1
           /\ Shelved(s) => Shelved(RemoveAt(s, i))
<1>1. /\ RemoveAt(s, i) \in Seq(Nat) /\ Len(RemoveAt(s, i)) = Len(s) - 1
      /\ \A j \in 1 .. Len(s) - 1 : RemoveAt(s, i)[j] = IF j < i THEN s[j] ELSE s[j + 1]
  BY RemovedOne
<1>2. Len(s) \in Nat /\ i \in Int
  BY LenProperties
<1> DEFINE t == RemoveAt(s, i)
<1> HIDE DEF t
<1>3. ASSUME Shelved(s), NEW j \in 1 .. Len(t) PROVE t[j] \in 1 .. shelved
  <2>1. j \in 1 .. Len(s) - 1 /\ j \in 1 .. Len(s) /\ j + 1 \in 1 .. Len(s)
    BY <1>1, <1>2, <1>3 DEF t
  <2>2. t[j] = s[j] \/ t[j] = s[j + 1]
    BY <1>1, <2>1 DEF t
  <2> QED
    BY <1>3, <2>1, <2>2 DEF Shelved
<1> QED
  BY <1>1, <1>3 DEF Shelved, t

\* A new list: what is known is of its first file, or that one is read.
LEMMA ListKeepsKnown ==
    ASSUME RunsIInv, NEW files \in Seq(Nat), ShowsFirst(files), UNCHANGED given
    PROVE  KnownFits' /\ known' \in Nat /\ shelf' = files
<1> DEFINE first == IF files = <<>> THEN NoPdf ELSE Head(files)
<1>1. shelf' = files /\ First' = first
  BY DEF ShowsFirst, First
<1>2. /\ opening' = IF profile.reads \notin {"nothing", "reset"} /\ first \notin {First, NoPdf}
                    THEN opening \union {first} ELSE opening
      /\ known' = IF first = NoPdf THEN NoPdf ELSE known
  BY DEF ShowsFirst
<1> HIDE DEF first
<1>3. known' \in Nat
  BY <1>2 DEF RunsIInv, RunsTypeOK, NoPdf
<1>4. KnownFits'
  BY <1>1, <1>2 DEF RunsIInv, KnownFits, given
<1> QED
  BY <1>1, <1>3, <1>4

\* Lists of files stay lists of files when one more has come.
LEMMA MoreAreShelved ==
    ASSUME shelved \in Nat, shelved' \in Nat, shelved <= shelved', NEW files \in Seq(Nat), Shelved(files)
    PROVE  \A i \in 1 .. Len(files) : files[i] \in 1 .. shelved'
BY DEF Shelved

\* The list changes by hand: no run of the tool with the preview is under way.
LEMMA ListKeepsRuns ==
    ASSUME RunsIInv, ~busyMark, NEW files \in Seq(Nat), ShowsFirst(files),
           shelved' \in Nat, shelved <= shelved',
           \A i \in 1 .. Len(files) : files[i] \in 1 .. shelved',
           profile.many \/ Len(files) <= 1,
           ~profile.many => (IF files = <<>> THEN NoPdf ELSE Head(files)) # First,
           ticked' = NoPdf, failed' => failed,
           UNCHANGED <<given, handedIn, runs, flag, busyMark, numbering>>
    PROVE  RunsIInv'
<1> USE DEF RunsIInv
<1>1. UNCHANGED <<profile, broken, startField, savedNext, download, stamped>>
  BY DEF given, numbering, runHistory
<1>2. KnownFits' /\ known' \in Nat /\ shelf' = files
  BY ListKeepsKnown
<1>3. RunsTypeOK'
  BY <1>1, <1>2 DEF RunsTypeOK, Shelved, NoPdf, RunSet
<1>4. TickFits' /\ RunsAlone'
  BY <1>1 DEF TickFits, RunsAlone
<1>5. (\A r \in runs : RunFits(r))'
  <2> SUFFICES ASSUME NEW r \in runs PROVE RunFits(r)'
    OBVIOUS
  <2>1. r.files \in Seq(Nat) /\ RunFits(r)
    BY DEF RunsTypeOK, RunSet
  <2>2. Shelved(r.files)'
    BY <2>1 DEF RunFits, Shelved, RunsTypeOK
  <2> QED
    BY <1>1, <2>1, <2>2 DEF RunFits
<1>6. PreviewFits'
  <2>1. profile.result = "preview" => ~profile.many /\ profile.reads = "reset"
    BY Profiles DEF ProfileOK, RunsTypeOK
  <2>2. profile.result = "preview" => runs = {}
    BY DEF PreviewFits
  <2>3. profile.result = "preview" => opening' = {} /\ preview' = NoPreview
    BY <2>1 DEF PreviewFits, ShowsFirst
  <2>4. profile.result # "preview" => preview' = NoPreview
    BY DEF PreviewFits, ShowsFirst
  <2> QED
    BY <1>1, <2>2, <2>3, <2>4 DEF PreviewFits
<1>7. DownloadFits'
  BY <1>1 DEF DownloadFits, DownloadFitsFiles, Shelved, RunsTypeOK
<1> QED
  BY <1>2, <1>3, <1>4, <1>5, <1>6, <1>7

LEMMA BenchKeepsRuns ==
    ASSUME RunsIInv, AddFile \/ \E i \in Numbers : TakeAway(i)
    PROVE  RunsIInv'
<1> USE DEF RunsIInv
<1>1. CASE AddFile
  <2> DEFINE files == IF profile.many THEN Append(shelf, shelved + 1) ELSE <<shelved + 1>>
  <2>1. files \in Seq(Nat) /\ files # <<>> /\ (profile.many \/ Len(files) <= 1)
    BY DEF RunsTypeOK
  <2>2. shelved' = shelved + 1 /\ shelved' \in Nat /\ shelved <= shelved'
    BY <1>1 DEF AddFile, RunsTypeOK
  <2>3. \A i \in 1 .. Len(files) : files[i] \in 1 .. shelved'
    BY <2>2 DEF RunsTypeOK, Shelved
  <2>4. ~profile.many => (IF files = <<>> THEN NoPdf ELSE Head(files)) # First
    BY DEF First, RunsTypeOK, Shelved, NoPdf
  <2>5. /\ ~busyMark /\ ShowsFirst(files) /\ ticked' = NoPdf /\ (failed' => failed)
        /\ UNCHANGED <<given, handedIn, runs, flag, busyMark, numbering>>
    BY <1>1 DEF AddFile, ListChanged
  <2> HIDE DEF files
  <2> QED
    BY <2>1, <2>2, <2>3, <2>4, <2>5, ListKeepsRuns
<1>2. ASSUME NEW i \in Numbers, TakeAway(i) PROVE RunsIInv'
  <2> DEFINE files == RemoveAt(shelf, i)
  <2>1. i \in 1 .. Len(shelf)
    BY <1>2 DEF TakeAway, RunsTypeOK
  <2>2. files \in Seq(Nat) /\ Len(files) = Len(shelf) - 1 /\ Shelved(files)
    BY <2>1, LessIsShelved DEF RunsTypeOK
  <2>3. shelved' = shelved /\ shelved' \in Nat /\ shelved <= shelved'
    BY <1>2 DEF TakeAway, RunsTypeOK
  <2>5. /\ ~busyMark /\ ShowsFirst(files) /\ ticked' = NoPdf /\ (failed' => failed)
        /\ UNCHANGED <<given, handedIn, runs, flag, busyMark, numbering>>
    BY <1>2 DEF TakeAway, ListChanged
  <2> HIDE DEF files
  <2>6. \A n \in 1 .. Len(files) : files[n] \in 1 .. shelved'
    BY <2>2, <2>3 DEF Shelved
  <2>7. profile.many \/ Len(files) <= 1
    BY <2>2 DEF RunsTypeOK
  <2>4. ~profile.many => (IF files = <<>> THEN NoPdf ELSE Head(files)) # First
    BY <2>1, <2>2 DEF First, RunsTypeOK, Shelved, NoPdf
  <2> QED
    BY <2>2, <2>3, <2>4, <2>5, <2>6, <2>7, ListKeepsRuns
<1> QED
  BY <1>1, <1>2

\* What the runs took with them fits as long as the handoff has not come.
LEMMA RunsStayFit ==
    ASSUME RunsIInv, UNCHANGED given, shelved' \in Nat, shelved <= shelved',
           \/ UNCHANGED handedIn
           \/ handedIn = LookedUp
    PROVE  /\ \A r \in runs : RunFits(r)'
           /\ UNCHANGED <<download, stamped>> => DownloadFits'
<1> USE DEF RunsIInv, given
<1>1. ASSUME NEW r \in runs PROVE RunFits(r)'
  <2>1. r.files \in Seq(Nat) /\ RunFits(r)
    BY DEF RunsTypeOK, RunSet
  <2>2. Shelved(r.files)'
    BY <2>1 DEF RunFits, Shelved, RunsTypeOK
  <2>3. Head(r.files) \in 1 .. shelved
    BY <2>1 DEF RunFits, Shelved
  <2>4. profile.box => r.tick = Head(r.files) \/ Head(r.files) = handedIn'
    BY <2>1, <2>3 DEF RunFits, LookedUp, RunsTypeOK
  <2> QED
    BY <2>1, <2>2, <2>4 DEF RunFits
<1>2. ASSUME UNCHANGED <<download, stamped>> PROVE DownloadFits'
  <2>1. Shelved(download.files)'
    BY <1>2 DEF DownloadFits, Shelved, RunsTypeOK
  <2>2. download.files # <<>> => Head(download.files) \in 1 .. shelved
    BY DEF DownloadFits, Shelved
  <2>3. DownloadFitsFiles'
    BY <1>2, <2>2 DEF DownloadFits, DownloadFitsFiles, LookedUp, RunsTypeOK
  <2> QED
    BY <1>2, <2>1, <2>3 DEF DownloadFits
<1> QED
  BY <1>1, <1>2

LEMMA HandedKeepsRuns ==
    ASSUME RunsIInv, Handed
    PROVE  RunsIInv'
<1> USE DEF RunsIInv, Handed
<1>1. UNCHANGED <<profile, broken, startField, savedNext, download, stamped>> /\ UNCHANGED given
  BY DEF given, numbering, runHistory
<1>2. CASE UNCHANGED shelved
  <2>1. /\ handedIn' = NoPdf /\ handedIn = LookedUp
        /\ UNCHANGED <<shelf, shelved, opening, known, preview, runs, failed, ticked, flag, busyMark>>
    BY <1>2 DEF RunsTypeOK
  <2>2. RunsTypeOK'
    BY <1>1, <2>1 DEF RunsTypeOK, Shelved, NoPdf
  <2>3. KnownFits' /\ RunsAlone' /\ PreviewFits'
    BY <1>1, <2>1 DEF KnownFits, RunsAlone, PreviewFits, First
  <2>4. First # handedIn
    BY <2>1, FirstIsShelved DEF NoPdf, LookedUp, RunsTypeOK
  <2>5. TickFits'
    BY <1>1, <2>1, <2>4 DEF TickFits, First
  <2>6. (\A r \in runs : RunFits(r))' /\ DownloadFits'
    BY <1>1, <2>1, RunsStayFit DEF RunsTypeOK
  <2> QED
    BY <2>2, <2>3, <2>5, <2>6
<1>3. CASE shelved' # shelved
  <2> DEFINE Swapped(r) == [r EXCEPT !.swapped = TRUE]
             n == shelved + 1
             files == <<n>>
  <2>1. /\ shelved' = n /\ handedIn' = n /\ handedIn = LookedUp
        /\ ShowsFirst(files)
        /\ runs' = {Swapped(r) : r \in runs}
        /\ failed' => failed
        /\ UNCHANGED <<ticked, flag, busyMark>>
    BY <1>3
  <2>2. n \in Nat /\ n >= 1 /\ shelved <= n /\ shelved \in Nat
    BY DEF RunsTypeOK
  <2>3. files \in Seq(Nat) /\ Len(files) = 1 /\ files[1] = n /\ files # <<>> /\ Head(files) = n
    BY <2>2
  <2>4. First # n
    BY <2>2, FirstIsShelved DEF NoPdf
  <2>5. \A r \in runs :
            /\ Swapped(r) \in RunSet
            /\ Swapped(r).swapped
            /\ Swapped(r).files = r.files /\ Swapped(r).content = r.content
            /\ Swapped(r).pages = r.pages /\ Swapped(r).tick = r.tick /\ Swapped(r).at = r.at
            /\ Swapped(r).heard = r.heard /\ Swapped(r).early = r.early
            /\ Swapped(r).beside = r.beside /\ Swapped(r).first = r.first
    BY DEF RunsTypeOK, RunSet
  <2> HIDE DEF Swapped
  <2>6. \A r \in runs : RunFits(r)'
    BY <1>1, <2>1, <2>2, RunsStayFit
  <2>7. (\A r \in runs : RunFits(r))'
    BY <2>1, <2>5, <2>6 DEF RunFits
  <2>8. DownloadFits'
    BY <1>1, <2>1, <2>2, RunsStayFit
  <2>9. KnownFits' /\ known' \in Nat /\ shelf' = files
    BY <1>1, <2>1, <2>3, ListKeepsKnown
  <2>10. First' = n
    BY <2>3, <2>9 DEF First
  <2>11. RunsTypeOK'
    <3>1. runs' \subseteq RunSet
      BY <2>1, <2>5
    <3>2. Shelved(shelf)'
      BY <2>1, <2>2, <2>3, <2>9 DEF Shelved
    <3>3. shelf' \in Seq(Nat) /\ Len(shelf') <= 1
      BY <2>3, <2>9
    <3>4. shelved' \in Nat /\ handedIn' \in {LookedUp} \union 0 .. shelved'
      BY <2>1, <2>2
    <3>5. known' \in Nat /\ ticked' \in Nat
      BY <2>1, <2>9 DEF RunsTypeOK
    <3> QED
      BY <1>1, <3>1, <3>2, <3>3, <3>4, <3>5 DEF RunsTypeOK
  <2>12. TickFits'
    BY <2>1, <2>10 DEF TickFits
  <2>13. RunsAlone'
    <3> SUFFICES ASSUME NEW q \in runs', ~q.beside
                 PROVE  runs' = {q} /\ (q.heard => flag') /\ q.first = stamped'
      BY DEF RunsAlone
    <3>1. PICK r \in runs : q = Swapped(r)
      BY <2>1
    <3>2. ~r.beside /\ q.heard = r.heard /\ q.first = r.first
      BY <2>5, <3>1
    <3>3. runs = {r} /\ (r.heard => flag) /\ r.first = stamped
      BY <3>2 DEF RunsAlone
    <3>4. runs' = {q}
      BY <2>1, <3>1, <3>3
    <3> QED
      BY <1>1, <2>1, <3>2, <3>3, <3>4
  <2>14. PreviewFits'
    <3>1. profile.result = "preview" => ~profile.many /\ profile.reads = "reset"
      BY Profiles DEF ProfileOK, RunsTypeOK
    <3>2. preview' = NoPreview
      BY <2>1, <2>3, <2>4 DEF ShowsFirst
    <3>3. profile.result = "preview" => opening' = {}
      BY <2>1, <3>1 DEF PreviewFits, ShowsFirst
    <3>4. profile.result = "preview" => (failed' => ~busyMark')
      BY <2>1 DEF PreviewFits
    <3>5. profile.result = "preview" => \A q \in runs' : busyMark' /\ ~q.beside /\ ~q.early /\ q.swapped
      BY <2>1, <2>5 DEF PreviewFits
    <3> QED
      BY <1>1, <3>2, <3>3, <3>4, <3>5 DEF PreviewFits
  <2> QED
    BY <2>7, <2>8, <2>9, <2>11, <2>12, <2>13, <2>14
<1> QED
  BY <1>2, <1>3

\* What leaves files and runs alone.
LEMMA BesideKeepsRuns ==
    ASSUME RunsIInv, (\E f \in Numbers : EffectEnds(f)) \/ ReadAgain \/ TickBox
    PROVE  RunsIInv'
<1> USE DEF RunsIInv
<1>1. ASSUME NEW f, EffectEnds(f) PROVE RunsIInv'
  <2> USE <1>1 DEF EffectEnds
  <2>1. UNCHANGED <<profile, broken, shelf, shelved, handedIn, ticked, runs, flag, busyMark,
                    preview, startField, savedNext, download, stamped>> /\ UNCHANGED given
    BY DEF given, numbering, runHistory
  <2>2. opening' = opening \ {f} /\ f \in opening
    OBVIOUS
  <2>3. known' \in {known, NoPdf, f} /\ (known' = f => known = f \/ f = First \/ f = NoPdf)
    BY DEF StillFirst
  <2>4. known' \in Nat
    <3>1. First \in Nat
      BY DEF First, RunsTypeOK, NoPdf
    <3> QED
      BY <2>3, <3>1 DEF RunsTypeOK, NoPdf
  <2>5. RunsTypeOK'
    BY <2>1, <2>4 DEF RunsTypeOK, Shelved
  <2>6. KnownFits'
    BY <2>1, <2>2 DEF KnownFits, StillFirst, First
  <2>7. TickFits' /\ RunsAlone'
    BY <2>1 DEF TickFits, RunsAlone, First
  <2>8. (\A r \in runs : RunFits(r))' /\ DownloadFits'
    BY <2>1, RunsStayFit DEF RunsTypeOK
  <2>9. PreviewFits'
    BY <2>1, <2>2 DEF PreviewFits
  <2> QED
    BY <2>5, <2>6, <2>7, <2>8, <2>9
<1>2. CASE ReadAgain
  <2> USE <1>2 DEF ReadAgain
  <2>1. UNCHANGED <<profile, broken, shelf, shelved, handedIn, known, ticked, runs, flag, busyMark,
                    preview, startField, savedNext, download, stamped>> /\ UNCHANGED given
    BY DEF given, numbering, runHistory
  <2>2. opening \subseteq opening'
    OBVIOUS
  <2>3. RunsTypeOK' /\ KnownFits' /\ TickFits' /\ RunsAlone'
    BY <2>1, <2>2 DEF RunsTypeOK, Shelved, KnownFits, TickFits, RunsAlone, First
  <2>4. (\A r \in runs : RunFits(r))' /\ DownloadFits'
    BY <2>1, RunsStayFit DEF RunsTypeOK
  <2>5. PreviewFits'
    BY <2>1 DEF PreviewFits
  <2> QED
    BY <2>3, <2>4, <2>5
<1>3. CASE TickBox
  <2> USE <1>3 DEF TickBox
  <2>1. UNCHANGED <<profile, broken, shelf, shelved, handedIn, opening, known, runs, flag, busyMark,
                    failed, preview, startField, savedNext, download, stamped>> /\ UNCHANGED given
    BY DEF given, numbering, runHistory, bench
  <2>2. ticked' \in {NoPdf, First} /\ First \in Nat
    BY DEF First, RunsTypeOK, NoPdf
  <2>3. RunsTypeOK' /\ KnownFits' /\ TickFits' /\ RunsAlone'
    BY <2>1, <2>2 DEF RunsTypeOK, Shelved, KnownFits, TickFits, RunsAlone, First, NoPdf
  <2>4. (\A r \in runs : RunFits(r))' /\ DownloadFits'
    BY <2>1, RunsStayFit DEF RunsTypeOK
  <2>5. PreviewFits'
    BY <2>1 DEF PreviewFits
  <2> QED
    BY <2>3, <2>4, <2>5
<1> QED
  BY <1>1, <1>2, <1>3

\* The run takes the files, and what is known of the first one, with it.
LEMMA StartKeepsRuns ==
    ASSUME RunsIInv, StartRun
    PROVE  RunsIInv'
<1> USE DEF RunsIInv
<1> DEFINE Beside(r) == [r EXCEPT !.beside = TRUE]
           new == [files |-> shelf, content |-> IF profile.reads = "bytes" THEN <<known>> ELSE shelf,
                   pages |-> IF profile.reads = "pages" THEN known ELSE NoPdf,
                   tick |-> ticked, at |-> 1, heard |-> FALSE, early |-> First \in opening,
                   swapped |-> FALSE, beside |-> runs # {}, first |-> startField,
                   again |-> FALSE]
<1>1. /\ UNCHANGED <<profile, broken, shelf, shelved, handedIn, opening, known, ticked, preview,
                     startField, savedNext, download, stamped>>
      /\ UNCHANGED given
  BY DEF StartRun, given, bench, numbering, runHistory
<1>2. /\ flag' = FALSE /\ busyMark' = TRUE /\ failed' = FALSE
      /\ runs' = {Beside(r) : r \in runs} \union {new}
  BY DEF StartRun
<1>3. /\ ~busyMark \/ failed
      /\ Len(shelf) >= profile.least
      /\ profile.reads \in {"bytes", "pages"} => known # NoPdf
      /\ profile.box => ticked # NoPdf
  BY DEF StartRun
<1>4. ProfileOK(profile)
  BY Profiles DEF RunsTypeOK
<1>5. shelf # <<>> /\ First = Head(shelf) /\ First \in 1 .. shelved /\ Len(shelf) \in Nat
      /\ First = shelf[1] /\ Len(shelf) >= 1
  BY <1>3, <1>4 DEF RunsTypeOK, First, Shelved, ProfileOK
<1>6. /\ new.files = shelf /\ new.at = 1 /\ new.tick = ticked /\ new.first = startField
      /\ new.heard = FALSE /\ new.swapped = FALSE
      /\ new.early <=> First \in opening
      /\ new.beside <=> runs # {}
      /\ profile.reads = "bytes" => new.content = <<known>>
      /\ profile.reads # "bytes" => new.content = shelf
      /\ profile.reads = "pages" => new.pages = known
      /\ profile.reads # "pages" => new.pages = NoPdf
  OBVIOUS
<1>7. new \in RunSet
  <2>1. (IF profile.reads = "bytes" THEN <<known>> ELSE shelf) \in Seq(Nat)
    BY DEF RunsTypeOK
  <2>2. (IF profile.reads = "pages" THEN known ELSE NoPdf) \in Nat
    BY DEF RunsTypeOK, NoPdf
  <2>3. (First \in opening) \in BOOLEAN /\ (runs # {}) \in BOOLEAN
    OBVIOUS
  <2> QED
    BY <2>1, <2>2, <2>3 DEF RunsTypeOK, RunSet
<1>8. \A r \in runs :
          /\ Beside(r) \in RunSet /\ Beside(r).beside
          /\ Beside(r).files = r.files /\ Beside(r).content = r.content
          /\ Beside(r).pages = r.pages /\ Beside(r).tick = r.tick /\ Beside(r).at = r.at
          /\ Beside(r).early = r.early /\ Beside(r).swapped = r.swapped
  BY DEF RunsTypeOK, RunSet
<1> HIDE DEF Beside, new
<1>9. RunFits(new)
  <2>1. new.content # <<>> /\ 1 \in 1 .. Len(new.content)
    <3>1. CASE profile.reads = "bytes"
      <4>1. <<known>> # <<>> /\ Len(<<known>>) = 1
        OBVIOUS
      <4>2. new.content = <<known>>
        BY <1>6, <3>1
      <4>3. new.content # <<>> /\ Len(new.content) = 1
        BY <4>1, <4>2
      <4> QED
        BY <4>3
    <3>2. CASE profile.reads # "bytes"
      BY <1>5, <1>6, <3>2
    <3> QED
      BY <3>1, <3>2
  <2>2. ASSUME ~new.early, profile.reads = "bytes" PROVE new.content = new.files
    <3>1. known = First
      BY <1>3, <1>4, <1>6, <2>2 DEF KnownFits, ProfileOK
    <3>2. Len(shelf) = 1
      <4>1. ~profile.many
        BY <1>4, <2>2 DEF ProfileOK
      <4>2. Len(shelf) <= 1
        BY <4>1 DEF RunsTypeOK
      <4> QED
        BY <1>5, <4>2
    <3>3. shelf = <<First>>
      BY <1>5, <3>2 DEF RunsTypeOK
    <3> QED
      BY <1>6, <2>2, <3>1, <3>3
  <2>3. ~new.early => new.content = new.files
    BY <1>6, <2>2
  <2>4. ~new.early => new.pages \in {NoPdf, Head(new.files)} \/ Head(new.files) \in broken
    BY <1>3, <1>5, <1>6 DEF KnownFits
  <2>5. profile.box => new.tick = Head(new.files) \/ Head(new.files) = handedIn
    BY <1>3, <1>5, <1>6 DEF TickFits
  <2>6. new.files # <<>> /\ Shelved(new.files)
    BY <1>5, <1>6 DEF RunsTypeOK
  <2> QED
    BY <1>6, <2>1, <2>3, <2>4, <2>5, <2>6 DEF RunFits
<1>10. RunsTypeOK'
  <2>1. runs' \subseteq RunSet
    BY <1>2, <1>7, <1>8
  <2> QED
    BY <1>1, <2>1 DEF RunsTypeOK, Shelved
<1>11. KnownFits' /\ TickFits'
  BY <1>1 DEF KnownFits, TickFits, First
<1>12. RunsAlone'
  <2> SUFFICES ASSUME NEW q \in runs', ~q.beside
               PROVE  runs' = {q} /\ (q.heard => flag') /\ q.first = stamped'
    BY DEF RunsAlone
  <2>1. q = new
    BY <1>2, <1>8
  <2>2. runs = {}
    BY <1>6, <2>1
  <2> QED
    BY <1>1, <1>2, <1>6, <2>1, <2>2 DEF RunsTypeOK
<1>13. (\A r \in runs : RunFits(r))' /\ DownloadFits'
  <2>1. DownloadFits'
    BY <1>1, RunsStayFit DEF RunsTypeOK
  <2>2. \A q \in runs' : RunFits(q)
    BY <1>2, <1>8, <1>9 DEF RunFits
  <2> QED
    BY <1>1, <2>1, <2>2 DEF RunFits, Shelved
<1>14. PreviewFits'
  <2>1. profile.result = "preview" => runs' = {new} /\ ~new.beside /\ ~new.early /\ new.files = shelf
    BY <1>2, <1>3, <1>6 DEF PreviewFits
  <2> QED
    BY <1>1, <1>2, <2>1 DEF PreviewFits
<1> QED
  BY <1>10, <1>11, <1>12, <1>13, <1>14

LEMMA CancelKeepsRuns ==
    ASSUME RunsIInv, PressCancel
    PROVE  RunsIInv'
<1> USE DEF RunsIInv
<1> DEFINE Heard(r) == [r EXCEPT !.heard = TRUE]
<1>1. /\ UNCHANGED <<profile, broken, shelf, shelved, handedIn, opening, known, ticked, busyMark,
                     failed, preview, startField, savedNext, download, stamped>>
      /\ UNCHANGED given
      /\ flag' = TRUE /\ runs' = {Heard(r) : r \in runs}
  BY DEF PressCancel, given, bench, numbering, runHistory
<1>2. \A r \in runs :
          /\ Heard(r) \in RunSet /\ Heard(r).beside = r.beside /\ Heard(r).first = r.first
          /\ Heard(r).files = r.files /\ Heard(r).content = r.content
          /\ Heard(r).pages = r.pages /\ Heard(r).tick = r.tick /\ Heard(r).at = r.at
          /\ Heard(r).early = r.early /\ Heard(r).swapped = r.swapped
  BY DEF RunsTypeOK, RunSet
<1> HIDE DEF Heard
<1>3. RunsTypeOK'
  <2>1. runs' \subseteq RunSet
    BY <1>1, <1>2
  <2> QED
    BY <1>1, <2>1 DEF RunsTypeOK, Shelved
<1>4. KnownFits' /\ TickFits'
  BY <1>1 DEF KnownFits, TickFits, First
<1>5. RunsAlone'
  <2> SUFFICES ASSUME NEW q \in runs', ~q.beside PROVE runs' = {q} /\ q.first = stamped'
    BY <1>1 DEF RunsAlone
  <2>1. PICK r \in runs : q = Heard(r)
    BY <1>1
  <2>2. runs = {r} /\ r.first = stamped
    BY <1>2, <2>1 DEF RunsAlone
  <2> QED
    BY <1>1, <1>2, <2>1, <2>2
<1>6. (\A r \in runs : RunFits(r))' /\ DownloadFits'
  <2>1. DownloadFits'
    BY <1>1, RunsStayFit DEF RunsTypeOK
  <2>2. \A q \in runs' : RunFits(q)
    BY <1>1, <1>2 DEF RunFits
  <2> QED
    BY <1>1, <2>1, <2>2 DEF RunFits, Shelved
<1>7. PreviewFits'
  BY <1>1, <1>2 DEF PreviewFits
<1> QED
  BY <1>3, <1>4, <1>5, <1>6, <1>7

LEMMA LoopKeepsRuns ==
    ASSUME RunsIInv, NEW r \in runs, NextFile(r)
    PROVE  RunsIInv'
<1> USE DEF RunsIInv
<1> DEFINE next == [r EXCEPT !.at = @ + 1]
<1>1. /\ UNCHANGED <<profile, broken, shelf, shelved, handedIn, opening, known, ticked, busyMark,
                     flag, failed, preview, startField, savedNext, download, stamped>>
      /\ UNCHANGED given
      /\ runs' = (runs \ {r}) \union {next}
      /\ r.at < Len(r.content) /\ r.content[r.at] \notin broken
  BY DEF NextFile, given, bench, numbering, runHistory
<1>2. r \in RunSet /\ RunFits(r)
  BY DEF RunsTypeOK
<1>3. /\ next \in RunSet /\ next.beside = r.beside /\ next.first = r.first
      /\ next.files = r.files /\ next.content = r.content /\ next.heard = r.heard
      /\ next.pages = r.pages /\ next.tick = r.tick /\ next.at = r.at + 1
      /\ next.early = r.early /\ next.swapped = r.swapped
  <2>1. r.at + 1 \in Nat /\ r = [r EXCEPT !.at = r.at]
    BY <1>2 DEF RunSet
  <2> DEFINE n == r.at + 1
             x == [r EXCEPT !.at = n]
  <2>2. next = x /\ n \in Nat
    BY <2>1
  <2> HIDE DEF n, next
  <2>3. /\ x \in RunSet /\ x.beside = r.beside /\ x.first = r.first
        /\ x.files = r.files /\ x.content = r.content /\ x.heard = r.heard
        /\ x.pages = r.pages /\ x.tick = r.tick /\ x.at = n
        /\ x.early = r.early /\ x.swapped = r.swapped
    BY <1>2, <2>2 DEF RunSet
  <2> QED
    BY <2>2, <2>3 DEF n
<1> HIDE DEF next
<1>4. RunsTypeOK'
  <2>1. runs' \subseteq RunSet
    BY <1>1, <1>3 DEF RunsTypeOK
  <2> QED
    BY <1>1, <2>1 DEF RunsTypeOK, Shelved
<1>5. KnownFits' /\ TickFits'
  BY <1>1 DEF KnownFits, TickFits, First
<1>6. RunsAlone'
  BY <1>1, <1>3 DEF RunsAlone
<1>7. RunFits(next)
  <2>1. r.at \in Nat /\ Len(r.content) \in Nat
    BY <1>2 DEF RunSet
  <2>2. next.at \in 1 .. Len(next.content)
    BY <1>1, <1>2, <1>3, <2>1 DEF RunFits
  <2>3. \A i \in 1 .. next.at - 1 : next.content[i] \notin broken
    BY <1>1, <1>2, <1>3, <2>1 DEF RunFits
  <2> QED
    BY <1>2, <1>3, <2>2, <2>3 DEF RunFits
<1>8. (\A q \in runs : RunFits(q))' /\ DownloadFits'
  <2>1. DownloadFits'
    BY <1>1, RunsStayFit DEF RunsTypeOK
  <2>2. \A q \in runs' : RunFits(q)
    BY <1>1, <1>7
  <2> QED
    BY <1>1, <2>1, <2>2 DEF RunFits, Shelved
<1>9. PreviewFits'
  BY <1>1, <1>3 DEF PreviewFits
<1> QED
  BY <1>4, <1>5, <1>6, <1>8, <1>9

\* One run is over: no other was alone.
LEMMA OverKeepsRuns ==
    ASSUME RunsIInv, NEW r \in runs, RunOver(r),
           UNCHANGED <<given, bench, known, ticked, flag>>,
           failed' = TRUE \/ UNCHANGED failed,
           preview' = NoPreview \/ UNCHANGED preview, UNCHANGED numbering
    PROVE  RunsIInv'
<1> USE DEF RunsIInv
<1>1. /\ UNCHANGED <<profile, broken, shelf, shelved, handedIn, opening, known, ticked,
                     flag, startField, savedNext, download, stamped>>
      /\ runs' = runs \ {r} /\ busyMark' = FALSE
  BY DEF RunOver, given, bench, numbering, runHistory
<1>2. RunsTypeOK' /\ KnownFits' /\ TickFits'
  BY <1>1 DEF RunsTypeOK, Shelved, KnownFits, TickFits, First
<1>3. RunsAlone'
  BY <1>1 DEF RunsAlone
<1>4. (\A q \in runs : RunFits(q))' /\ DownloadFits'
  BY <1>1, RunsStayFit DEF RunsTypeOK
<1>5. PreviewFits'
  <2>1. profile.result = "preview" => runs' = {}
    BY <1>1 DEF PreviewFits, RunsAlone
  <2> QED
    BY <1>1, <2>1 DEF PreviewFits
<1> QED
  BY <1>2, <1>3, <1>4, <1>5

\* The run is downloaded as it is.
LEMMA DownloadKeepsRuns ==
    ASSUME RunsIInv, NEW r \in runs, MayDeliver(r), RunOver(r), Download(r),
           UNCHANGED <<given, bench, known, ticked, flag, failed, preview>>
    PROVE  RunsIInv'
<1> USE DEF RunsIInv
<1>1. /\ UNCHANGED <<profile, broken, shelf, shelved, handedIn, opening, known, ticked, flag, failed,
                     preview>>
      /\ UNCHANGED given
      /\ runs' = runs \ {r} /\ busyMark' = FALSE
  BY DEF RunOver, given, bench
<1>2. /\ download' = [r EXCEPT !.again = r.first < stamped]
      /\ r.at = Len(r.content) /\ r.content[r.at] \notin broken /\ ~flag
  BY DEF Download, MayDeliver
<1>3. r \in RunSet /\ RunFits(r)
  BY DEF RunsTypeOK
<1>5. /\ startField' \in Nat /\ startField' = savedNext' /\ savedNext' = stamped'
  BY <1>3 DEF Download, NumberAfter, RunsTypeOK, RunSet
<1>6. RunsTypeOK'
  BY <1>1, <1>5 DEF RunsTypeOK, Shelved
<1>7. KnownFits' /\ TickFits'
  BY <1>1 DEF KnownFits, TickFits, First
<1>8. RunsAlone'
  BY <1>1 DEF RunsAlone
<1>9. (\A q \in runs : RunFits(q))'
  BY <1>1, RunsStayFit DEF RunsTypeOK
<1>10. PreviewFits'
  <2>1. profile.result = "preview" => runs' = {}
    BY <1>1 DEF PreviewFits, RunsAlone
  <2> QED
    BY <1>1, <2>1 DEF PreviewFits
<1>11. DownloadFits'
  <2> DEFINE d == [r EXCEPT !.again = r.first < stamped]
  <2>1. /\ d.files = r.files /\ d.content = r.content /\ d.pages = r.pages /\ d.tick = r.tick
        /\ d.heard = r.heard /\ d.early = r.early /\ d.swapped = r.swapped
        /\ d.beside = r.beside /\ (d.again <=> r.first < stamped)
    BY <1>3 DEF RunSet
  <2>2. download' = d
    BY <1>2
  <2> HIDE DEF d
  <2>3. d.files \in Seq(Nat) /\ Shelved(d.files)
    BY <1>3, <2>1 DEF RunSet, RunFits
  <2> SUFFICES ASSUME ~d.early, ~d.swapped, ~d.beside
               PROVE  /\ ~d.heard
                      /\ d.content = d.files
                      /\ d.pages \in {NoPdf, Head(d.files)}
                      /\ profile.box /\ Head(d.files) # handedIn => d.tick = Head(d.files)
                      /\ profile.result = "numbers" => ~d.again
    BY <1>1, <2>2, <2>3 DEF DownloadFits, DownloadFitsFiles, Shelved
  <2>4. ~d.heard
    BY <1>2, <2>1 DEF RunsAlone
  <2>5. d.content = d.files
    BY <1>3, <2>1 DEF RunFits
  <2>6. Head(r.files) \notin broken
    <3>1. Len(r.content) \in Nat /\ r.content = r.files /\ r.content # <<>>
      BY <1>3, <2>1 DEF RunFits, RunSet
    <3>2. Head(r.files) = r.content[1] /\ Len(r.content) >= 1
      BY <1>3, <3>1 DEF RunSet
    <3>3. r.content[1] \notin broken
      <4>1. CASE r.at = 1
        BY <1>2, <4>1
      <4>2. CASE r.at # 1
        <5>1. 1 \in 1 .. r.at - 1
          BY <1>3, <3>1, <4>2 DEF RunFits
        <5> QED
          BY <1>3, <5>1 DEF RunFits
      <4> QED
        BY <4>1, <4>2
    <3> QED
      BY <3>2, <3>3
  <2>7. d.pages \in {NoPdf, Head(d.files)}
    BY <1>3, <2>1, <2>6 DEF RunFits
  <2>8. profile.box /\ Head(d.files) # handedIn => d.tick = Head(d.files)
    BY <1>3, <2>1 DEF RunFits
  <2>9. ~d.again
    <3>1. r.first = stamped /\ stamped \in Nat
      BY <2>1 DEF RunsAlone, RunsTypeOK
    <3> QED
      BY <2>1, <3>1
  <2> QED
    BY <2>4, <2>5, <2>7, <2>8, <2>9
<1> QED
  BY <1>6, <1>7, <1>8, <1>9, <1>10, <1>11

\* The run is shown as a preview, of the file in the workbench.
LEMMA PreviewKeepsRuns ==
    ASSUME RunsIInv, NEW r \in runs, profile.result = "preview", RunOver(r),
           preview' = [file |-> Head(r.content), swapped |-> r.swapped],
           UNCHANGED <<given, bench, known, ticked, flag, failed, numbering>>
    PROVE  RunsIInv'
<1> USE DEF RunsIInv
<1>1. /\ UNCHANGED <<profile, broken, shelf, shelved, handedIn, opening, known, ticked, flag, failed,
                     startField, savedNext, download, stamped>>
      /\ UNCHANGED given
      /\ runs' = runs \ {r} /\ busyMark' = FALSE
  BY DEF RunOver, given, bench, numbering, runHistory
<1>2. RunsTypeOK' /\ KnownFits' /\ TickFits'
  BY <1>1 DEF RunsTypeOK, Shelved, KnownFits, TickFits, First
<1>3. RunsAlone'
  BY <1>1 DEF RunsAlone
<1>4. (\A q \in runs : RunFits(q))' /\ DownloadFits'
  BY <1>1, RunsStayFit DEF RunsTypeOK
<1>5. PreviewFits'
  <2>1. runs = {r} /\ (r.swapped \/ r.files = shelf)
    BY DEF PreviewFits, RunsAlone
  <2>2. ASSUME ~r.swapped, ~r.early PROVE <<Head(r.content)>> = shelf
    <3>1. r.content = shelf /\ shelf # <<>>
      BY <2>1, <2>2 DEF RunFits
    <3>2. Len(shelf) <= 1 /\ shelf \in Seq(Nat)
      BY Profiles DEF ProfileOK, RunsTypeOK
    <3>3. shelf = <<Head(shelf)>>
      <4>1. Len(shelf) \in Nat /\ Len(shelf) # 0
        BY <3>1, <3>2, EmptySeq, LenProperties
      <4> DEFINE n == Len(shelf)
      <4>4. n \in Nat /\ n # 0 /\ n <= 1
        BY <3>2, <4>1
      <4> HIDE DEF n
      <4>5. n = 1
        BY <4>4
      <4>2. Len(shelf) = 1
        BY <4>5 DEF n
      <4>3. Head(shelf) = shelf[1]
        BY <3>1, <3>2
      <4> QED
        BY <3>2, <4>2, <4>3
    <3> QED
      BY <3>1, <3>3
  <2>3. ~r.early
    BY DEF PreviewFits
  <2> QED
    BY <1>1, <2>1, <2>2, <2>3 DEF PreviewFits
<1> QED
  BY <1>2, <1>3, <1>4, <1>5

LEMMA EndKeepsRuns ==
    ASSUME RunsIInv, NEW r \in runs, Deliver(r) \/ RunFails(r) \/ RunStops(r)
    PROVE  RunsIInv'
<1>1. ASSUME Deliver(r), profile.result = "preview" PROVE RunsIInv'
  BY <1>1, PreviewKeepsRuns DEF Deliver
<1>2. ASSUME Deliver(r), profile.result # "preview" PROVE RunsIInv'
  BY <1>2, DownloadKeepsRuns DEF Deliver
<1>3. CASE RunFails(r)
  BY <1>3, OverKeepsRuns DEF RunFails
<1>4. CASE RunStops(r)
  BY <1>4, OverKeepsRuns DEF RunStops
<1> QED
  BY <1>1, <1>2, <1>3, <1>4

LEMMA PageKeepsRuns ==
    ASSUME RunsIInv, DownloadPreview \/ Reopen
    PROVE  RunsIInv'
<1> USE DEF RunsIInv
<1>1. CASE DownloadPreview
  <2> USE <1>1 DEF DownloadPreview
  <2>1. /\ UNCHANGED <<profile, broken, shelf, shelved, handedIn, opening, known, ticked, runs, flag,
                       busyMark, failed, preview, startField, savedNext, stamped>>
    BY DEF given, bench
  <2>2. profile.result = "preview" /\ (preview.swapped \/ <<preview.file>> = shelf)
    BY DEF PreviewFits
  <2>3. /\ download'.files = shelf /\ download'.content = <<preview.file>>
        /\ download'.pages = NoPdf /\ download'.tick = NoPdf /\ download'.heard = FALSE
        /\ download'.swapped = preview.swapped
    BY DEF NoDownload
  <2>4. ~profile.box
    BY <2>2, Profiles DEF ProfileOK, RunsTypeOK
  <2>5. DownloadFits'
    BY <2>1, <2>2, <2>3, <2>4 DEF DownloadFits, DownloadFitsFiles, Shelved, RunsTypeOK
  <2>6. RunsTypeOK' /\ KnownFits' /\ TickFits' /\ RunsAlone' /\ PreviewFits'
    BY <2>1 DEF RunsTypeOK, Shelved, KnownFits, TickFits, First, RunsAlone, PreviewFits
  <2>7. (\A q \in runs : RunFits(q))'
    BY <2>1 DEF RunFits, Shelved
  <2> QED
    BY <2>5, <2>6, <2>7
<1>2. CASE Reopen
  <2> USE <1>2 DEF Reopen
  <2>1. /\ UNCHANGED <<profile, broken, shelved, handedIn, ticked, runs, flag, busyMark, preview,
                       savedNext, download, stamped>>
        /\ UNCHANGED given
    BY DEF given, runHistory
  <2>2. /\ runs = {} /\ profile.result = "numbers" /\ startField' = savedNext
        /\ shelf' = <<>> /\ opening' = {} /\ known' = NoPdf /\ failed' = FALSE
    OBVIOUS
  <2>3. RunsTypeOK'
    BY <2>1, <2>2 DEF RunsTypeOK, Shelved, NoPdf
  <2>4. KnownFits' /\ RunsAlone' /\ (\A r \in runs : RunFits(r))' /\ PreviewFits'
    BY <2>1, <2>2 DEF KnownFits, RunsAlone, PreviewFits
  <2>5. TickFits'
    BY <2>1, <2>2, Profiles DEF TickFits, ProfileOK, RunsTypeOK
  <2>6. DownloadFits'
    BY <2>1, RunsStayFit DEF RunsTypeOK
  <2> QED
    BY <2>3, <2>4, <2>5, <2>6
<1> QED
  BY <1>1, <1>2

LEMMA RunsStep == RunsIInv /\ [RunsNext]_runVars => RunsIInv'
<1> SUFFICES ASSUME RunsIInv, [RunsNext]_runVars PROVE RunsIInv'
  OBVIOUS
<1>1. CASE UNCHANGED runVars
  <2>1. /\ UNCHANGED <<profile, broken, shelf, shelved, handedIn, opening, known, ticked, runs, flag,
                       busyMark, failed, preview, startField, savedNext, download, stamped>>
        /\ UNCHANGED given
    BY <1>1 DEF runVars, given, bench, numbering, runHistory
  <2>2. RunsTypeOK' /\ KnownFits' /\ TickFits' /\ RunsAlone' /\ PreviewFits'
    BY <2>1 DEF RunsIInv, RunsTypeOK, Shelved, KnownFits, TickFits, First, RunsAlone, PreviewFits
  <2>3. (\A r \in runs : RunFits(r))' /\ DownloadFits'
    BY <2>1, RunsStayFit DEF RunsIInv, RunsTypeOK
  <2> QED
    BY <2>2, <2>3 DEF RunsIInv
<1>2. CASE RunsNext
  <2>1. CASE AddFile \/ \E i \in Numbers : TakeAway(i)
    BY <2>1, BenchKeepsRuns
  <2>2. CASE Handed
    BY <2>2, HandedKeepsRuns
  <2>3. CASE (\E f \in Numbers : EffectEnds(f)) \/ ReadAgain \/ TickBox
    BY <2>3, BesideKeepsRuns
  <2>4. CASE StartRun \/ PressCancel
    BY <2>4, StartKeepsRuns, CancelKeepsRuns
  <2>5. CASE \E r \in runs : NextFile(r) \/ Deliver(r) \/ RunFails(r) \/ RunStops(r)
    BY <2>5, LoopKeepsRuns, EndKeepsRuns
  <2>6. CASE DownloadPreview \/ Reopen
    BY <2>6, PageKeepsRuns
  <2> QED
    BY <1>2, <2>1, <2>2, <2>3, <2>4, <2>5, <2>6 DEF RunsNext
<1> QED
  BY <1>1, <1>2

\* The eighteen tools with a run button: whatever files are added, taken away, handed over
\* and read late, and whatever is cancelled and tried again, a download was not cancelled,
\* holds the files it is named after with the pages and the tick that belong to them, and
\* no Bates number is given out twice (with what DownloadFitsFiles excepts).
THEOREM DownloadsAlwaysFit == RunsSpec => []DownloadFitsFiles
<1>1. RunsIInv => DownloadFitsFiles
  BY DEF RunsIInv, DownloadFits
<1> QED
  BY <1>1, RunsInitially, RunsStep, PTL DEF RunsSpec

-----------------------------------------------------------------------------
(* Thumbnails *)

Entries == [key : {Sheet[p] : p \in Cards}, url : Nat]

ThumbTypeOK ==
    /\ listed \subseteq Cards
    /\ cache \in Seq(Entries)
    /\ urls \in 0 .. MaxUrls
    /\ thumb \in [Cards -> Int] /\ seenThumb \in [Cards -> Int]

\* What a page can show: an image its own URL, another page one of those made.
ShowsOwn(p, url) ==
    \/ url \in {NoThumb, NoImage}
    \/ IF p \in Images THEN url = ImageUrl ELSE url \in 1 .. urls

ShownFits == \A p \in Cards : ShowsOwn(p, thumb[p]) /\ ShowsOwn(p, seenThumb[p])

\* No image is rendered.
LoadSet == [of : SUBSET Rendered, at : {"idle", "waiting", "woken", "working"}]

LoadsFit == load \in [LoadSlots -> LoadSet]

\* A URL that was made is in the cache or revoked, never both.
UrlsFit ==
    /\ Urls(cache) \subseteq 1 .. urls /\ revoked \subseteq 1 .. urls \union {ImageUrl}
    /\ Urls(cache) \intersect revoked = {}
    /\ 1 .. urls \subseteq Urls(cache) \union revoked

\* The URL of image pages is revoked by a sweep.
ImagesFit == ImageUrl \in revoked => swept \/ listed \intersect Images = {}

ThumbIInv ==
    /\ ThumbTypeOK /\ ShownFits /\ LoadsFit /\ UrlsFit /\ ImagesFit
    /\ ThumbsAlive

LEMMA ThumbInitially == ThumbInit => ThumbIInv
<1> SUFFICES ASSUME ThumbInit PROVE ThumbIInv
  OBVIOUS
<1> USE DEF ThumbInit
<1>1. ThumbTypeOK
  <2>1. cache \in Seq(Entries)
    OBVIOUS
  <2>2. listed \subseteq Cards /\ urls \in 0 .. MaxUrls
    BY ThumbAssumption
  <2>3. thumb \in [Cards -> Int] /\ seenThumb \in [Cards -> Int]
    BY DEF NoThumb
  <2> QED
    BY <2>1, <2>2, <2>3 DEF ThumbTypeOK
<1>2. ShownFits /\ LoadsFit
  BY DEF ShownFits, LoadsFit, LoadSet, NoLoad, ShowsOwn
<1>3. UrlsFit /\ ImagesFit /\ ThumbsAlive
  BY DEF UrlsFit, ImagesFit, ThumbsAlive, Urls
<1> QED
  BY <1>1, <1>2, <1>3 DEF ThumbIInv

\* What a look into the cache moves about.
LEMMA TouchedKeepsUrls ==
    ASSUME cache \in Seq(Entries), NEW key \in Keys(cache)
    PROVE  /\ Touched(key) \in Seq(Entries)
           /\ Urls(Touched(key)) = Urls(cache)
           /\ Cached(key) \in Urls(cache)
<1> DEFINE i == Place(key)
           rest == RemoveAt(cache, i)
           e == cache[i]
           all == Append(rest, e)
<1>1. i \in 1 .. Len(cache)
  BY DEF Place, Keys
<1>2. Len(cache) \in Nat /\ e \in Entries
  BY <1>1, LenProperties, ElementOfSeq
<1> HIDE DEF i
<1>3. /\ rest \in Seq(Entries) /\ Len(rest) = Len(cache) - 1
      /\ \A j \in 1 .. Len(cache) - 1 : rest[j] = IF j < i THEN cache[j] ELSE cache[j + 1]
  BY <1>1, RemovedOne
<1> HIDE DEF rest, e
<1>4. /\ all \in Seq(Entries) /\ Len(all) = Len(cache)
      /\ all[Len(cache)] = e
      /\ \A j \in 1 .. Len(cache) - 1 : all[j] = rest[j]
  BY <1>2, <1>3, AppendProperties
<1> HIDE DEF all
<1>5. Urls(all) \subseteq Urls(cache)
  <2> SUFFICES ASSUME NEW j \in 1 .. Len(cache) PROVE all[j].url \in Urls(cache)
    BY <1>4 DEF Urls
  <2>1. \E k \in 1 .. Len(cache) : all[j] = cache[k]
    <3>1. CASE j = Len(cache)
      BY <1>1, <1>4, <3>1 DEF e
    <3>2. CASE j < Len(cache)
      <4>1. j \in 1 .. Len(cache) - 1 /\ j + 1 \in 1 .. Len(cache)
        BY <1>2, <3>2
      <4> QED
        BY <1>3, <1>4, <4>1
    <3> QED
      BY <1>2, <3>1, <3>2
  <2> QED
    BY <2>1 DEF Urls
<1>6. Urls(cache) \subseteq Urls(all)
  <2> SUFFICES ASSUME NEW j \in 1 .. Len(cache) PROVE cache[j].url \in Urls(all)
    BY DEF Urls
  <2>1. \E k \in 1 .. Len(all) : all[k] = cache[j]
    <3>1. CASE j = i
      <4>1. Len(cache) \in 1 .. Len(all)
        BY <1>2, <1>4
      <4> QED
        BY <1>4, <3>1, <4>1 DEF e
    <3>2. CASE j < i
      <4>1. j \in 1 .. Len(cache) - 1 /\ j \in 1 .. Len(all)
        BY <1>1, <1>2, <1>4, <3>2
      <4> QED
        BY <1>3, <1>4, <3>2, <4>1
    <3>3. CASE j > i
      <4>1. /\ j - 1 \in 1 .. Len(cache) - 1 /\ j - 1 \in 1 .. Len(all)
            /\ ~(j - 1 < i) /\ (j - 1) + 1 = j
        BY <1>1, <1>2, <1>4, <3>3
      <4>2. rest[j - 1] = cache[j]
        BY <1>3, <4>1
      <4> QED
        BY <1>4, <4>1, <4>2
    <3> QED
      BY <1>1, <1>2, <3>1, <3>2, <3>3
  <2> QED
    BY <2>1 DEF Urls
<1>7. Cached(key) \in Urls(cache)
  BY <1>1 DEF Cached, Urls, i
<1>8. Touched(key) = all
  BY DEF Touched, all, rest, e, i
<1> QED
  BY <1>4, <1>5, <1>6, <1>7, <1>8

LEMMA DroppedKeepsOthers ==
    ASSUME cache \in Seq(Entries), NEW key
    PROVE  Dropped(key) \in Seq(Entries) /\ Urls(Dropped(key)) \subseteq Urls(cache)
<1>1. CASE key \notin Keys(cache)
  BY <1>1 DEF Dropped
<1>2. CASE key \in Keys(cache)
  <2> DEFINE i == Place(key)
             rest == RemoveAt(cache, i)
  <2>1. i \in 1 .. Len(cache)
    BY <1>2 DEF Place, Keys
  <2>2. Len(cache) \in Nat
    BY LenProperties
  <2> HIDE DEF i
  <2>3. /\ rest \in Seq(Entries) /\ Len(rest) = Len(cache) - 1
        /\ \A j \in 1 .. Len(cache) - 1 : rest[j] = IF j < i THEN cache[j] ELSE cache[j + 1]
    BY <2>1, RemovedOne
  <2> HIDE DEF rest
  <2>4. ASSUME NEW j \in 1 .. Len(rest) PROVE rest[j].url \in Urls(cache)
    <3>1. j \in 1 .. Len(cache) - 1 /\ j \in 1 .. Len(cache) /\ j + 1 \in 1 .. Len(cache)
      BY <2>2, <2>3
    <3>2. \E k \in 1 .. Len(cache) : rest[j] = cache[k]
      BY <2>3, <3>1
    <3> QED
      BY <3>2 DEF Urls
  <2>5. Dropped(key) = rest
    BY <1>2 DEF Dropped, rest, i
  <2> QED
    BY <2>3, <2>4, <2>5 DEF Urls
<1> QED
  BY <1>1, <1>2

\* What the cache holds when a thumbnail has been put into it.
LEMMA SetKeepsNewest ==
    ASSUME cache \in Seq(Entries), urls \in Nat, NEW p \in Cards,
           NEW all, all = Append(Dropped(Sheet[p]), [key |-> Sheet[p], url |-> urls + 1]),
           NEW fits, fits = IF Len(all) > THUMB_LRU_MAX THEN Tail(all) ELSE all
    PROVE  /\ fits \in Seq(Entries)
           /\ Urls(fits) \subseteq Urls(cache) \union {urls + 1}
           /\ urls + 1 \in Urls(fits)
<1> DEFINE rest == Dropped(Sheet[p])
           e == [key |-> Sheet[p], url |-> urls + 1]
<1>1. rest \in Seq(Entries) /\ Urls(rest) \subseteq Urls(cache)
  BY DroppedKeepsOthers
<1>2. e \in Entries /\ e.url = urls + 1
  BY DEF Entries
<1>3. all = Append(rest, e)
  OBVIOUS
<1> HIDE DEF rest, e
<1>4. /\ Len(rest) \in Nat
      /\ all \in Seq(Entries) /\ Len(all) = Len(rest) + 1
      /\ all[Len(rest) + 1] = e
      /\ \A j \in 1 .. Len(rest) : all[j] = rest[j]
  <2>1. Len(rest) \in Nat
    BY <1>1, LenProperties
  <2> DEFINE w == Append(rest, e)
  <2>2. /\ w \in Seq(Entries) /\ Len(w) = Len(rest) + 1 /\ w[Len(rest) + 1] = e
        /\ \A j \in 1 .. Len(rest) : w[j] = rest[j]
    BY <1>1, <1>2, AppendProperties
  <2> QED
    BY <1>3, <2>1, <2>2
<1>5. \A j \in 1 .. Len(all) : all[j].url \in Urls(cache) \union {urls + 1}
  <2> SUFFICES ASSUME NEW j \in 1 .. Len(all)
               PROVE  all[j].url \in Urls(cache) \union {urls + 1}
    OBVIOUS
  <2>1. CASE j = Len(rest) + 1
    BY <1>2, <1>4, <2>1
  <2>2. CASE j \in 1 .. Len(rest)
    BY <1>1, <1>4, <2>2 DEF Urls
  <2> QED
    BY <1>4, <2>1, <2>2
<1>6. CASE Len(all) > THUMB_LRU_MAX
  <2>1. fits = Tail(all) /\ Len(all) > 1
    BY <1>4, <1>6, ThumbAssumption
  <2>2. /\ fits \in Seq(Entries) /\ Len(fits) = Len(all) - 1
        /\ \A j \in 1 .. Len(all) - 1 : fits[j] = all[j + 1]
    <3>1. all # <<>>
      BY <1>4, <2>1
    <3>2. /\ Tail(all) \in Seq(Entries) /\ Len(Tail(all)) = Len(all) - 1
          /\ \A j \in 1 .. Len(Tail(all)) : Tail(all)[j] = all[j + 1]
      BY <1>4, <3>1, HeadTailProperties
    <3> QED
      BY <2>1, <3>2
  <2>3. ASSUME NEW j \in 1 .. Len(fits) PROVE fits[j].url \in Urls(cache) \union {urls + 1}
    <3>1. j \in 1 .. Len(all) - 1 /\ j + 1 \in 1 .. Len(all)
      BY <1>4, <2>2
    <3> QED
      BY <1>5, <2>2, <3>1
  <2>4. urls + 1 \in Urls(fits)
    <3>1. /\ Len(rest) \in 1 .. Len(fits) /\ Len(rest) \in 1 .. Len(all) - 1
          /\ fits[Len(rest)] = e
      BY <1>4, <2>1, <2>2
    <3> QED
      BY <1>2, <3>1 DEF Urls
  <2> QED
    BY <2>2, <2>3, <2>4 DEF Urls
<1>7. CASE ~(Len(all) > THUMB_LRU_MAX)
  <2>1. fits = all
    BY <1>7
  <2>2. Len(rest) + 1 \in 1 .. Len(all)
    BY <1>4
  <2>3. urls + 1 \in Urls(all)
    BY <1>2, <1>4, <2>2 DEF Urls
  <2> QED
    BY <1>4, <1>5, <2>1, <2>3 DEF Urls
<1> QED
  BY <1>6, <1>7

\* A load that steps in or out is not one of an image.
LEMMA StepsFit ==
    ASSUME LoadsFit, NEW p \in Cards, NEW l \in LoadSlots
    PROVE  /\ p \notin Images => StepIn(p, l) \in [LoadSlots -> LoadSet]
           /\ \A next \in StepOut(l) : next \in [LoadSlots -> LoadSet]
           /\ \A step : load[l] = LoadOf(p, step) => p \notin Images
<1> DEFINE Steps == {"idle", "waiting", "woken", "working"}
           out == [load EXCEPT ![l] = NoLoad]
<1>1. load \in [LoadSlots -> LoadSet]
  BY DEF LoadsFit
<1>2. p \notin Images => \A step \in Steps : LoadOf(p, step) \in LoadSet
  BY DEF LoadOf, LoadSet, Rendered
<1>3. p \notin Images => StepIn(p, l) \in [LoadSlots -> LoadSet]
  <2> DEFINE step == IF Cardinality(Loads("working")) < THUMB_CONCURRENCY
                     THEN "working" ELSE "waiting"
  <2>1. step \in Steps /\ StepIn(p, l) = [load EXCEPT ![l] = LoadOf(p, step)]
    BY DEF StepIn
  <2> HIDE DEF step
  <2> QED
    BY <1>1, <1>2, <2>1
<1>4. out \in [LoadSlots -> LoadSet]
  <2>1. NoLoad \in LoadSet
    BY DEF NoLoad, LoadSet
  <2> QED
    BY <1>1, <2>1
<1>5. ASSUME NEW m \in Loads("waiting")
      PROVE  [out EXCEPT ![m] = Advanced(m, "woken")] \in [LoadSlots -> LoadSet]
  <2>1. Advanced(m, "woken") \in LoadSet
    BY <1>1 DEF Advanced, LoadSet, Loads
  <2> HIDE DEF out
  <2> QED
    BY <1>4, <2>1
<1>6. ASSUME NEW next \in StepOut(l) PROVE next \in [LoadSlots -> LoadSet]
  <2>1. CASE Loads("waiting") = {}
    BY <1>4, <1>6, <2>1 DEF StepOut
  <2>2. CASE Loads("waiting") # {}
    <3>1. PICK m \in Loads("waiting") : next = [out EXCEPT ![m] = Advanced(m, "woken")]
      BY <1>6, <2>2 DEF StepOut
    <3> HIDE DEF out
    <3> QED
      BY <1>5, <3>1
  <2> QED
    BY <2>1, <2>2
<1>7. ASSUME NEW step, load[l] = LoadOf(p, step) PROVE p \notin Images
  <2>1. load[l].of = {p} /\ load[l] \in LoadSet
    BY <1>1, <1>7 DEF LoadOf
  <2> QED
    BY <2>1 DEF LoadSet, Rendered
<1> QED
  BY <1>3, <1>6, <1>7

\* Steps that leave the cache, and what is made and revoked, alone.
LEMMA ViewKeepsThumbs ==
    ASSUME ThumbIInv,
           \/ ShowThumbs
           \/ \E p \in Cards : \/ \E l \in LoadSlots : Wake(p, l) \/ RenderFails(p, l)
                               \/ DeleteCard(p)
                               \/ \E q \in Cards : CopyThumb(p, q)
    PROVE  ThumbIInv'
<1> USE DEF ThumbIInv, thumbHistory
<1>1. CASE ShowThumbs
  <2> USE <1>1 DEF ShowThumbs
  <2>1. ThumbTypeOK' /\ LoadsFit' /\ UrlsFit' /\ ImagesFit'
    BY DEF ThumbTypeOK, LoadsFit, UrlsFit, ImagesFit, Urls
  <2>2. ShownFits' /\ ThumbsAlive'
    BY DEF ShownFits, ShowsOwn, ThumbsAlive
  <2> QED
    BY <2>1, <2>2
<1>2. ASSUME NEW p \in Cards, NEW l \in LoadSlots, Wake(p, l) PROVE ThumbIInv'
  <2> USE <1>2 DEF Wake
  <2>1. ThumbTypeOK'
    BY DEF ThumbTypeOK
  <2>2. LoadsFit'
    <3>1. LoadOf(p, "working") \in LoadSet
      BY StepsFit DEF LoadOf, LoadSet, Rendered
    <3> QED
      BY <3>1 DEF LoadsFit
  <2>3. UrlsFit' /\ ImagesFit' /\ ShownFits' /\ ThumbsAlive'
    BY DEF UrlsFit, ImagesFit, Urls, ShownFits, ShowsOwn, ThumbsAlive
  <2> QED
    BY <2>1, <2>2, <2>3
<1>3. ASSUME NEW p \in Cards, NEW l \in LoadSlots, RenderFails(p, l) PROVE ThumbIInv'
  <2> USE <1>3 DEF RenderFails, LoadOver
  <2>1. ThumbTypeOK' /\ LoadsFit'
    BY StepsFit DEF ThumbTypeOK, LoadsFit, NoImage
  <2>2. UrlsFit' /\ ImagesFit'
    BY DEF UrlsFit, ImagesFit, Urls
  <2>3. NoImage \notin revoked
    BY ThumbAssumption DEF UrlsFit, ThumbTypeOK, NoImage, ImageUrl
  <2>4. ShownFits' /\ ThumbsAlive'
    BY <2>3 DEF ThumbTypeOK, ShownFits, ShowsOwn, ThumbsAlive
  <2> QED
    BY <2>1, <2>2, <2>4
<1>4. ASSUME NEW p \in Cards, DeleteCard(p) PROVE ThumbIInv'
  <2> USE <1>4 DEF DeleteCard
  <2>1. ThumbTypeOK' /\ LoadsFit'
    BY DEF ThumbTypeOK, LoadsFit, NoThumb
  <2>2. UrlsFit' /\ ImagesFit'
    BY DEF UrlsFit, ImagesFit, Urls
  <2>3. ShownFits' /\ ThumbsAlive'
    BY DEF ThumbTypeOK, ShownFits, ShowsOwn, ThumbsAlive
  <2> QED
    BY <2>1, <2>2, <2>3
<1>5. ASSUME NEW p \in Cards, NEW q \in Cards, CopyThumb(p, q) PROVE ThumbIInv'
  <2> DEFINE url == IF seenThumb[p] # NoThumb THEN seenThumb[p] ELSE OwnUrl(p)
  <2>1. /\ p \in listed /\ Sheet[p] = Sheet[q]
        /\ listed' = listed \union {q}
        /\ thumb' = [thumb EXCEPT ![q] = url]
        /\ staleCopy' = (staleCopy \/ url \in revoked)
        /\ UNCHANGED <<cache, seenThumb, revoked, urls, load, swept>>
    BY <1>5 DEF CopyThumb
  <2>2. p \in Images <=> q \in Images
    BY <2>1 DEF Images
  <2>3. url \in Int /\ ShowsOwn(p, url)
    BY ThumbAssumption DEF ThumbTypeOK, ShownFits, ShowsOwn, OwnUrl, NoThumb, ImageUrl
  <2> HIDE DEF url
  <2>4. ShowsOwn(q, url)
    BY <2>2, <2>3 DEF ShowsOwn
  <2>5. ThumbTypeOK' /\ LoadsFit'
    BY <2>1, <2>3 DEF ThumbTypeOK, LoadsFit
  <2>6. UrlsFit' /\ ImagesFit'
    BY <2>1, <2>2 DEF UrlsFit, ImagesFit, Urls
  <2>7. ShownFits'
    BY <2>1, <2>4 DEF ThumbTypeOK, ShownFits, ShowsOwn
  <2>8. ThumbsAlive'
    BY <2>1 DEF ThumbTypeOK, ThumbsAlive
  <2> QED
    BY <2>5, <2>6, <2>7, <2>8
<1> QED
  BY <1>1, <1>2, <1>3, <1>4, <1>5

\* A cached URL is put on display.
LEMMA HitKeepsThumbs ==
    ASSUME ThumbIInv, NEW p \in Cards, RequestThumbnail(p) \/ \E l \in LoadSlots : CacheHit(p, l)
    PROVE  ThumbIInv'
<1> USE DEF ThumbIInv, thumbHistory
<1>1. ASSUME Sheet[p] \in Keys(cache), p \notin Images,
             thumb' = [thumb EXCEPT ![p] = Cached(Sheet[p])],
             cache' = Touched(Sheet[p]),
             UNCHANGED <<listed, seenThumb, revoked, urls, swept, staleCopy>>,
             LoadsFit'
      PROVE  ThumbIInv'
  <2> DEFINE url == Cached(Sheet[p])
  <2>1. /\ Touched(Sheet[p]) \in Seq(Entries)
        /\ Urls(Touched(Sheet[p])) = Urls(cache)
        /\ url \in Urls(cache)
    BY <1>1, TouchedKeepsUrls DEF ThumbTypeOK
  <2> HIDE DEF url
  <2>2. url \in 1 .. urls /\ url \notin revoked /\ url \in Int
    BY <2>1 DEF UrlsFit, ThumbTypeOK
  <2>3. thumb' = [thumb EXCEPT ![p] = url]
    BY <1>1 DEF url
  <2>4. Urls(cache') = Urls(cache)
    BY <1>1, <2>1
  <2>5. ThumbTypeOK' /\ LoadsFit'
    BY <1>1, <2>1, <2>2, <2>3 DEF ThumbTypeOK, LoadsFit, Entries
  <2>6. UrlsFit' /\ ImagesFit'
    BY <1>1, <2>4 DEF UrlsFit, ImagesFit, Urls
  <2>7. ShownFits' /\ ThumbsAlive'
    BY <1>1, <2>2, <2>3 DEF ThumbTypeOK, ShownFits, ShowsOwn, ThumbsAlive
  <2> QED
    BY <2>5, <2>6, <2>7
<1>2. ASSUME NEW l \in LoadSlots, CacheHit(p, l) PROVE ThumbIInv'
  <2>1. p \notin Images /\ LoadsFit'
    BY <1>2, StepsFit DEF CacheHit, LoadOver, LoadsFit
  <2> QED
    BY <1>1, <1>2, <2>1 DEF CacheHit
<1>3. CASE RequestThumbnail(p)
  <2> USE <1>3 DEF RequestThumbnail
  <2>1. CASE p \in Images
    <3> DEFINE url == IF p \in Copies THEN NoImage ELSE OwnUrl(p)
    <3>1. /\ thumb' = [thumb EXCEPT ![p] = url]
          /\ UNCHANGED <<listed, cache, load, seenThumb, revoked, urls, swept, staleCopy>>
      <4>1. p \notin Rendered
        BY <2>1 DEF Rendered
      <4> QED
        BY <2>1, <4>1
    <3>2. url \in {NoImage, ImageUrl} /\ url \in Int
      BY <2>1, ThumbAssumption DEF OwnUrl, NoImage, ImageUrl
    <3> HIDE DEF url
    <3>3. ThumbTypeOK' /\ LoadsFit'
      BY <3>1, <3>2 DEF ThumbTypeOK, LoadsFit
    <3>4. UrlsFit' /\ ImagesFit'
      BY <3>1 DEF UrlsFit, ImagesFit, Urls
    <3>5. ShownFits'
      BY <2>1, <3>1, <3>2 DEF ThumbTypeOK, ShownFits, ShowsOwn
    <3>6. NoImage \notin revoked
      BY ThumbAssumption DEF UrlsFit, ThumbTypeOK, NoImage, ImageUrl
    <3>7. ThumbsAlive'
      BY <2>1, <3>1, <3>2, <3>6 DEF ThumbTypeOK, ThumbsAlive, ImagesFit
    <3> QED
      BY <3>3, <3>4, <3>5, <3>7
  <2>2. CASE p \notin Images /\ Sheet[p] \in Keys(cache)
    <3>1. p \in Rendered /\ UNCHANGED load
      BY <2>2 DEF Rendered
    <3> QED
      BY <1>1, <2>2, <3>1 DEF ThumbTypeOK, LoadsFit, Rendered
  <2>3. CASE p \notin Images /\ Sheet[p] \notin Keys(cache)
    <3>1. /\ \E l \in LoadSlots : load' = StepIn(p, l)
          /\ UNCHANGED <<listed, cache, thumb, seenThumb, revoked, urls, swept, staleCopy>>
      BY <2>3 DEF FreeLoad
    <3>2. ThumbTypeOK' /\ LoadsFit'
      BY <2>3, <3>1, StepsFit DEF ThumbTypeOK, LoadsFit
    <3>3. UrlsFit' /\ ImagesFit' /\ ShownFits' /\ ThumbsAlive'
      BY <3>1 DEF UrlsFit, ImagesFit, Urls, ShownFits, ShowsOwn, ThumbsAlive
    <3> QED
      BY <3>2, <3>3
  <2> QED
    BY <2>1, <2>2, <2>3
<1> QED
  BY <1>2, <1>3

LEMMA RenderKeepsThumbs ==
    ASSUME ThumbIInv, NEW p \in Cards, NEW l \in LoadSlots, RenderDone(p, l)
    PROVE  ThumbIInv'
<1> USE DEF ThumbIInv, thumbHistory
<1> DEFINE all  == Append(Dropped(Sheet[p]), [key |-> Sheet[p], url |-> urls + 1])
           fits == IF Len(all) > THUMB_LRU_MAX THEN Tail(all) ELSE all
           gone == Urls(cache) \ Urls(fits)
           kept == Forget(gone)
<1>1. /\ load[l] = LoadOf(p, "working") /\ urls < MaxUrls
      /\ urls' = urls + 1
      /\ cache' = fits
      /\ revoked' = revoked \union gone
      /\ thumb' = [kept EXCEPT ![p] = urls + 1]
      /\ load' \in StepOut(l)
      /\ UNCHANGED <<listed, seenThumb, swept, staleCopy>>
  BY DEF RenderDone, LoadOver
<1>2. p \notin Images
  BY <1>1, StepsFit
<1>3. urls \in Nat /\ urls + 1 \in 1 .. MaxUrls
  BY <1>1, ThumbAssumption DEF ThumbTypeOK
<1>4. /\ fits \in Seq(Entries)
      /\ Urls(fits) \subseteq Urls(cache) \union {urls + 1}
      /\ urls + 1 \in Urls(fits)
  BY <1>3, SetKeepsNewest DEF ThumbTypeOK
<1>5. kept \in [Cards -> Int]
      /\ \A q \in Cards : kept[q] = IF thumb[q] \in gone THEN NoThumb ELSE thumb[q]
  BY DEF ThumbTypeOK, Forget, NoThumb
<1> HIDE DEF all, fits, kept
<1>6. LoadsFit'
  BY <1>1, StepsFit DEF LoadsFit
<1>7. ThumbTypeOK' /\ LoadsFit'
  BY <1>1, <1>3, <1>4, <1>5, <1>6 DEF ThumbTypeOK, LoadsFit, Entries
<1>8. Urls(cache') = Urls(fits)
  BY <1>1
<1>9. UrlsFit'
  <2> SUFFICES /\ Urls(cache') \subseteq 1 .. urls' /\ revoked' \subseteq 1 .. urls' \union {ImageUrl}
               /\ Urls(cache') \intersect revoked' = {}
               /\ 1 .. urls' \subseteq Urls(cache') \union revoked'
    BY DEF UrlsFit, Urls, ImageUrl
  <2>1. Urls(cache) \subseteq 1 .. urls /\ revoked \subseteq 1 .. urls \union {ImageUrl}
    BY DEF UrlsFit
  <2>2. 1 .. urls' = 1 .. urls \union {urls + 1}
    BY <1>1, <1>3
  <2>3. urls + 1 \notin revoked /\ urls + 1 # ImageUrl /\ urls + 1 \notin Urls(cache)
    BY <1>3, <2>1, ThumbAssumption DEF ImageUrl
  <2>4. Urls(cache') \subseteq 1 .. urls' /\ revoked' \subseteq 1 .. urls' \union {ImageUrl}
    BY <1>1, <1>4, <1>8, <2>1, <2>2
  <2>5. Urls(cache') \intersect revoked' = {}
    BY <1>1, <1>4, <1>8, <2>1, <2>3 DEF UrlsFit
  <2>6. 1 .. urls' \subseteq Urls(cache') \union revoked'
    BY <1>1, <1>4, <1>8, <2>2 DEF UrlsFit
  <2> QED
    BY <2>4, <2>5, <2>6
<1>10. ImageUrl \notin gone /\ urls + 1 \notin revoked'
  BY <1>1, <1>3, <1>4, ThumbAssumption DEF UrlsFit, ImageUrl
<1>11. ImagesFit'
  BY <1>1, <1>10 DEF ImagesFit
<1>12. ShownFits'
  <2> SUFFICES ASSUME NEW q \in Cards PROVE ShowsOwn(q, thumb[q])' /\ ShowsOwn(q, seenThumb[q])'
    BY DEF ShownFits, ShowsOwn
  <2>1. ShowsOwn(q, thumb[q]) /\ ShowsOwn(q, seenThumb[q])
    BY DEF ShownFits
  <2>2. 1 .. urls \subseteq 1 .. urls'
    BY <1>1, <1>3
  <2>3. ShowsOwn(q, seenThumb[q])'
    BY <1>1, <2>1, <2>2 DEF ShowsOwn
  <2>4. ShowsOwn(q, thumb[q])'
    <3>1. CASE q = p
      <4>1. thumb'[q] = urls + 1 /\ urls + 1 \in 1 .. urls'
        BY <1>1, <1>3, <1>5, <3>1
      <4> QED
        BY <1>2, <3>1, <4>1 DEF ShowsOwn
    <3>2. CASE q # p
      <4>1. thumb'[q] \in {NoThumb, thumb[q]}
        BY <1>1, <1>5, <3>2
      <4> QED
        BY <2>1, <2>2, <4>1 DEF ShowsOwn
    <3> QED
      BY <3>1, <3>2
  <2> QED
    BY <2>3, <2>4
<1>13. ThumbsAlive'
  <2> SUFFICES ASSUME ~staleCopy, NEW q \in listed, thumb'[q] \in revoked'
               PROVE  q \in Images /\ swept
    BY <1>1 DEF ThumbsAlive
  <2>1. q \in Cards /\ NoThumb \notin revoked'
    BY <1>1, <1>3, ThumbAssumption DEF ThumbTypeOK, UrlsFit, NoThumb, ImageUrl
  <2>2. q # p
    BY <1>1, <1>5, <1>10
  <2>3. thumb'[q] = thumb[q] /\ thumb[q] \in revoked
    BY <1>1, <1>5, <2>1, <2>2
  <2> QED
    BY <2>3 DEF ThumbsAlive
<1> QED
  BY <1>7, <1>9, <1>11, <1>12, <1>13

\* The caches of the file, or all of them, are emptied.
LEMMA SweepsKeepThumbs ==
    ASSUME ThumbIInv, EvictFile \/ ClearAllPdfCaches
    PROVE  ThumbIInv'
<1> USE DEF ThumbIInv, thumbHistory
<1>1. NoThumb \notin revoked /\ NoThumb \notin 1 .. urls \union {ImageUrl}
  BY ThumbAssumption DEF ThumbTypeOK, UrlsFit, NoThumb, ImageUrl
<1>2. ImageUrl \notin 1 .. urls
  BY ThumbAssumption DEF ThumbTypeOK, ImageUrl
<1>3. CASE EvictFile
  <2> USE <1>3 DEF EvictFile
  <2>1. ThumbTypeOK' /\ LoadsFit'
    <3>1. <<>> \in Seq(Entries)
      OBVIOUS
    <3> QED
      BY <3>1 DEF ThumbTypeOK, LoadsFit, NoThumb, Entries
  <2>2. Urls(cache') = {}
    BY DEF Urls
  <2>3. UrlsFit' /\ ImagesFit'
    BY <1>2, <2>2 DEF UrlsFit, ImagesFit, Urls
  <2>4. ShownFits'
    BY DEF ShownFits, ShowsOwn
  <2>5. ThumbsAlive'
    <3> SUFFICES ASSUME ~staleCopy, NEW q \in listed \intersect Images, thumb[q] \in revoked'
                 PROVE  swept
      BY <1>1 DEF ThumbsAlive, Images
    <3>1. q \in Cards /\ ShowsOwn(q, thumb[q]) /\ thumb[q] \in Urls(cache) => thumb[q] \in 1 .. urls
      BY DEF ShownFits, UrlsFit, Images
    <3>2. thumb[q] \in revoked
      BY <1>1, <1>2, <3>1 DEF ShownFits, ShowsOwn, Images, UrlsFit, NoImage
    <3> QED
      BY <3>2 DEF ThumbsAlive
  <2> QED
    BY <2>1, <2>3, <2>4, <2>5
<1>4. CASE ClearAllPdfCaches
  <2> USE <1>4 DEF ClearAllPdfCaches
  <2>1. /\ thumb' \in [Cards -> Int]
        /\ \A q \in Cards : thumb'[q] = IF thumb[q] \in Urls(cache) THEN NoThumb ELSE thumb[q]
    BY DEF ThumbTypeOK, Forget, NoThumb
  <2>2. ThumbTypeOK' /\ LoadsFit'
    <3>1. <<>> \in Seq(Entries)
      OBVIOUS
    <3> QED
      BY <2>1, <3>1 DEF ThumbTypeOK, LoadsFit, Entries
  <2>3. Urls(cache') = {}
    BY DEF Urls
  <2>4. UrlsFit' /\ ImagesFit'
    BY <2>3 DEF UrlsFit, ImagesFit, Urls
  <2>5. ShownFits'
    BY <2>1 DEF ShownFits, ShowsOwn
  <2>6. ThumbsAlive'
    <3> SUFFICES ASSUME ~staleCopy, NEW q \in listed, thumb'[q] \in revoked'
                 PROVE  q \in Images /\ swept'
      BY DEF ThumbsAlive
    <3>1. q \in Cards
      BY DEF ThumbTypeOK
    <3>2. CASE q \in Images
      BY <3>2
    <3>3. CASE q \notin Images
      <4>1. ShowsOwn(q, thumb[q]) /\ thumb'[q] = thumb[q] /\ thumb[q] \notin Urls(cache)
        BY <1>1, <2>1, <3>1 DEF ShownFits
      <4>2. thumb[q] \notin revoked
        BY <3>3 DEF ThumbsAlive
      <4>3. thumb[q] \in {NoThumb, NoImage}
        BY <3>3, <4>1, <4>2 DEF ShowsOwn, UrlsFit
      <4>4. NoImage \notin revoked'
        BY ThumbAssumption DEF ThumbTypeOK, UrlsFit, NoImage, ImageUrl
      <4> QED
        BY <1>1, <4>1, <4>3, <4>4
    <3> QED
      BY <3>2, <3>3
  <2> QED
    BY <2>2, <2>4, <2>5, <2>6
<1> QED
  BY <1>3, <1>4

LEMMA ThumbStep == ThumbIInv /\ [ThumbNext]_thumbVars => ThumbIInv'
<1> SUFFICES ASSUME ThumbIInv, [ThumbNext]_thumbVars PROVE ThumbIInv'
  OBVIOUS
<1>1. CASE ThumbNext
  BY <1>1, ViewKeepsThumbs, HitKeepsThumbs, RenderKeepsThumbs, SweepsKeepThumbs
     DEF ThumbNext, LoadStep
<1>2. CASE UNCHANGED thumbVars
  BY <1>2 DEF thumbVars, thumbHistory, ThumbIInv, ThumbTypeOK, ShownFits, ShowsOwn, LoadsFit,
              UrlsFit, ImagesFit, ThumbsAlive, Urls
<1> QED
  BY <1>1, <1>2

\* pdfHelpers.ts and WorkspaceApp.tsx: whatever pages there are and however small the cache,
\* no page on the list shows a thumbnail whose URL is revoked, but for images after a sweep,
\* and copies of a thumbnail that was evicted before the map was rendered again.
THEOREM ThumbsStayAlive == ThumbSpec => []ThumbsAlive
<1>1. ThumbIInv => ThumbsAlive
  BY DEF ThumbIInv
<1> QED
  BY <1>1, ThumbInitially, ThumbStep, PTL DEF ThumbSpec
=============================================================================

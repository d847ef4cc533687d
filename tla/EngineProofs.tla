---------------------------- MODULE EngineProofs ----------------------------
(***************************************************************************)
(* What the upload engine keeps, for any number of parts, workers,         *)
(* attempts and resumes.                                                   *)
(***************************************************************************)
EXTENDS MultipartClient, FiniteSetTheorems, TLAPS

USE DEF Parts

-----------------------------------------------------------------------------
(* Types *)

LEMMA TypeInit == EngineInit => EngineTypeOK
<1>1. ASSUME EngineInit
      PROVE  worker \in [Workers -> [at : Awaits, part : Nat,
                                     attempt : 0 .. MAX_PART_ATTEMPTS - 1]]
  BY <1>1, EngineAssumption DEF EngineInit, Awaits, Await
<1>2. ASSUME EngineInit PROVE round \in 0 .. MAX_SESSION_RESUMES
  BY <1>2, EngineAssumption DEF EngineInit
<1> QED BY <1>1, <1>2 DEF EngineInit, EngineTypeOK, Stages

\* A worker that moves stays a worker.
LEMMA WorkerMoves ==
    ASSUME EngineTypeOK, NEW w \in Workers, NEW a \in Awaits, NEW n \in Nat,
           NEW k \in 0 .. MAX_PART_ATTEMPTS - 1,
           worker' = [worker EXCEPT ![w] = Await(a, n, k)]
    PROVE  /\ worker' \in [Workers -> [at : Awaits, part : Nat,
                                       attempt : 0 .. MAX_PART_ATTEMPTS - 1]]
           /\ worker'[w] = Await(a, n, k)
           /\ \A v \in Workers : v # w => worker'[v] = worker[v]
BY DEF EngineTypeOK, Await

LEMMA WorkerGoes ==
    ASSUME EngineTypeOK, NEW w \in Workers, NEW a \in Awaits, Goto(w, a)
    PROVE  /\ worker' \in [Workers -> [at : Awaits, part : Nat,
                                       attempt : 0 .. MAX_PART_ATTEMPTS - 1]]
           /\ worker'[w] = Await(a, worker[w].part, worker[w].attempt)
           /\ \A v \in Workers : v # w => worker'[v] = worker[v]
<1>1. worker[w].part \in Nat /\ worker[w].attempt \in 0 .. MAX_PART_ATTEMPTS - 1
  BY DEF EngineTypeOK
<1>2. worker' = [worker EXCEPT ![w] = Await(a, worker[w].part, worker[w].attempt)]
  BY DEF Goto, EngineTypeOK, Await
<1> QED BY <1>1, <1>2, WorkerMoves

LEMMA WorkerEnds ==
    ASSUME EngineTypeOK, NEW w \in Workers,
           worker' = [worker EXCEPT ![w] = Await("done", 0, 0)]
    PROVE  /\ worker' \in [Workers -> [at : Awaits, part : Nat,
                                       attempt : 0 .. MAX_PART_ATTEMPTS - 1]]
           /\ worker'[w] = Await("done", 0, 0)
           /\ \A v \in Workers : v # w => worker'[v] = worker[v]
<1>1. "done" \in Awaits /\ 0 \in Nat /\ 0 \in 0 .. MAX_PART_ATTEMPTS - 1
  BY EngineAssumption DEF Awaits
<1> QED BY <1>1, WorkerMoves

LEMMA WorkerTakes ==
    ASSUME EngineTypeOK, NEW w \in Workers, NEW n \in Parts,
           NEW k \in 0 .. MAX_PART_ATTEMPTS - 1,
           worker' = [worker EXCEPT ![w] = Await("url", n, k)]
    PROVE  /\ worker' \in [Workers -> [at : Awaits, part : Nat,
                                       attempt : 0 .. MAX_PART_ATTEMPTS - 1]]
           /\ worker'[w] = Await("url", n, k)
           /\ \A v \in Workers : v # w => worker'[v] = worker[v]
<1>1. "url" \in Awaits /\ n \in Nat
  BY EngineAssumption DEF Awaits
<1> QED BY <1>1, WorkerMoves

LEMMA PoolStarts ==
    ASSUME NEW queue \in SUBSET Parts, RunWorkers(queue)
    PROVE  /\ worker' \in [Workers -> [at : Awaits, part : Nat,
                                       attempt : 0 .. MAX_PART_ATTEMPTS - 1]]
           /\ \A w \in Workers : worker'[w].at \in {"loop", "done"}
           /\ queue # {} => \E w \in Workers : worker'[w].at # "done"
<1>1. PICK started \in SUBSET Workers :
        /\ Cardinality(started) = IF Cardinality(queue) < Cardinality(Workers)
                                  THEN Cardinality(queue) ELSE Cardinality(Workers)
        /\ worker' = [w \in Workers |->
                        Await(IF w \in started THEN "loop" ELSE "done", 0, 0)]
  BY DEF RunWorkers
<1>2. \A w \in Workers : worker'[w] = Await(IF w \in started THEN "loop" ELSE "done", 0, 0)
  BY <1>1
<1>3. ASSUME queue # {} PROVE started # {}
  <2>1. IsFiniteSet(queue)
    <3>1. IsFiniteSet(1 .. TotalParts)
      BY FS_Interval, EngineAssumption
    <3> QED BY <3>1, FS_Subset
  <2>2. Cardinality(queue) \in Nat /\ Cardinality(queue) # 0
    BY <2>1, <1>3, FS_CardinalityType, FS_EmptySet
  <2>3. Cardinality(Workers) \in Nat /\ Cardinality(Workers) # 0
    BY WorkersAssumption, FS_CardinalityType, FS_EmptySet
  <2>4. Cardinality({}) = 0
    BY FS_EmptySet
  <2> QED BY <1>1, <2>2, <2>3, <2>4
<1>4. worker' \in [Workers -> [at : Awaits, part : Nat,
                               attempt : 0 .. MAX_PART_ATTEMPTS - 1]]
  BY <1>1, EngineAssumption DEF Await, Awaits
<1> QED BY <1>2, <1>3, <1>4 DEF Await

\* Every step keeps every variable in its type.
LEMMA TypeStep ==
    ASSUME EngineTypeOK, NoneLost, NoneTwice, EngineNext
    PROVE  EngineTypeOK'
<1> USE EngineAssumption DEF EngineTypeOK, Stages
<1>1. CASE Initiated
  BY <1>1, PoolStarts DEF Initiated, Settle, pool, RunWorkers
<1>2. CASE InitiateFails
  BY <1>2 DEF InitiateFails, Settle, pool
<1>3. CASE PoolDone
  BY <1>3 DEF PoolDone, Settle, Finalize, pool
<1>4. CASE StatusAnswered
  BY <1>4 DEF StatusAnswered, Settle, QueueMissing, Missing, service
<1>5. CASE StatusFails
  BY <1>5 DEF StatusFails, Settle, pool, service
<1>6. CASE Resume
  <2>1. CASE pending = {}
    BY <1>6, <2>1 DEF Resume, Settle, Finalize, pool
  <2>2. CASE pending # {}
    <3>1. round < MAX_SESSION_RESUMES
      BY <1>6 DEF Resume, NoneLost
    <3>2. /\ RunWorkers(pending) /\ round' = round + 1
          /\ UNCHANGED <<requests, aborted, completed, session, reported, flying, stored>>
      BY <1>6, <2>2 DEF Resume
    <3>3. round' \in 0 .. MAX_SESSION_RESUMES
      BY <3>1, <3>2
    <3> QED BY <3>2, <3>3, PoolStarts DEF RunWorkers
  <2> QED BY <2>1, <2>2
<1>7. CASE CompleteAnswered
  BY <1>7 DEF CompleteAnswered, Settle, pool, service
<1>8. ASSUME NEW w \in Workers, WorkerStep(w) PROVE EngineTypeOK'
  <2> USE DEF control, service
  <2>1. CASE TakePart(w)
    <3>1. PICK n \in pending :
            /\ pending' = pending \ {n}
            /\ IF aborted
               THEN Cancelled(w)
               ELSE /\ worker' = [worker EXCEPT ![w] = Await("url", n, 0)]
                    /\ UNCHANGED cancelled
      BY <2>1 DEF TakePart
    <3>2. CASE aborted
      BY <2>1, <3>1, <3>2, WorkerEnds DEF TakePart, Cancelled
    <3>3. CASE ~aborted
      BY <2>1, <3>1, <3>3, WorkerTakes DEF TakePart
    <3> QED BY <3>2, <3>3
  <2>2. CASE Leave(w)
    BY <2>2, WorkerEnds DEF Leave
  <2>3. CASE UrlAnswered(w)
    <3>1. CASE aborted
      BY <2>3, <3>1, WorkerEnds DEF UrlAnswered, Cancelled
    <3>2. CASE ~aborted
      <4>1. /\ Goto(w, "put") /\ flying' = flying \cup ({Part(w)} \ stored)
            /\ UNCHANGED <<cancelled, control, aborted, pending, failed, completed,
                           session, reported, stored, requests>>
        BY <2>3, <3>2 DEF UrlAnswered
      <4>2. Part(w) \in Parts
        BY <2>3 DEF UrlAnswered, At, Part, NoneTwice, Holding
      <4> QED BY <4>1, <4>2, WorkerGoes DEF Awaits
    <3> QED BY <3>1, <3>2
  <2>4. CASE PutAnswered(w)
    BY <2>4, WorkerGoes DEF PutAnswered, Awaits, At, Part
  <2>5. CASE TryFails(w)
    BY <2>5, WorkerGoes DEF TryFails, Awaits
  <2>6. CASE Report(w)
    BY <2>6, WorkerGoes DEF Report, Awaits, At, Part, NoneTwice
  <2>7. CASE Retry(w)
    <3> DEFINE next == worker[w].attempt + 1
    <3>1. CASE next < MAX_PART_ATTEMPTS /\ aborted
      <4>1. Cancelled(w) /\ UNCHANGED <<failed, control, aborted, pending, completed, service>>
        BY <2>7, <3>1 DEF Retry
      <4> QED BY <4>1, WorkerEnds DEF Cancelled
    <3>2. CASE next < MAX_PART_ATTEMPTS /\ ~aborted
      <4>1. Part(w) \in Parts /\ next \in 0 .. MAX_PART_ATTEMPTS - 1
        BY <2>7, <3>2 DEF Retry, At, Part, NoneTwice, Holding
      <4>2. worker' = [worker EXCEPT ![w] = Await("url", Part(w), next)]
        BY <2>7, <3>2 DEF Retry, Part
      <4> QED BY <2>7, <3>2, <4>1, <4>2, WorkerTakes DEF Retry
    <3>3. CASE next = MAX_PART_ATTEMPTS
      <4>1. /\ Goto(w, "loop") /\ failed' = failed \cup {Part(w)}
            /\ UNCHANGED <<cancelled, control, aborted, pending, completed, service>>
        BY <2>7, <3>3 DEF Retry
      <4>2. Part(w) \in Parts
        BY <2>7 DEF Retry, At, Part, NoneTwice, Holding
      <4> QED BY <4>1, <4>2, WorkerGoes DEF Awaits
    <3> QED BY <2>7, <3>1, <3>2, <3>3 DEF Retry
  <2> QED BY <1>8, <2>1, <2>2, <2>3, <2>4, <2>5, <2>6, <2>7 DEF WorkerStep
<1>9. CASE Abort
  BY <1>9 DEF Abort, control, Await, Awaits
<1>10. CASE ServiceStep
  BY <1>10 DEF ServiceStep, StorePart, CompleteArrives, DeleteArrives, SessionEnds,
               control, pool
<1>11. CASE Settled
  BY <1>11 DEF Settled, engineVars
<1> QED BY <1>1, <1>2, <1>3, <1>4, <1>5, <1>6, <1>7, <1>8, <1>9, <1>10, <1>11
        DEF EngineNext, ControlStep

-----------------------------------------------------------------------------
(* No part in two hands, none uploaded again *)

\* A worker that holds nothing, or what it held before, disturbs nobody.
LEMMA DropsKeep ==
    ASSUME EngineTypeOK, NoneTwice, NEW w \in Workers,
           \A v \in Workers : v # w => worker'[v] = worker[v],
           \/ worker'[w].at \in {"loop", "done"}
           \/ /\ worker[w].at \in Holding /\ worker'[w].at \in Holding
              /\ worker'[w].part = worker[w].part,
           UNCHANGED <<pending, completed>>
    PROVE  NoneTwice'
BY DEF NoneTwice, Holding

LEMMA GoesKeep ==
    ASSUME EngineTypeOK, NoneTwice, NEW w \in Workers, NEW a \in Awaits, Goto(w, a),
           a \in Holding, worker[w].at \in Holding,
           UNCHANGED <<pending, completed>>
    PROVE  NoneTwice'
<1>1. /\ worker'[w] = Await(a, worker[w].part, worker[w].attempt)
      /\ \A v \in Workers : v # w => worker'[v] = worker[v]
  BY WorkerGoes
<1>2. worker'[w].at = a /\ worker'[w].part = worker[w].part
  BY <1>1 DEF Await
<1> QED BY <1>1, <1>2, DropsKeep

LEMMA LoopsKeep ==
    ASSUME EngineTypeOK, NoneTwice, NEW w \in Workers, Goto(w, "loop"),
           UNCHANGED <<pending, completed>>
    PROVE  NoneTwice'
<1>1. /\ worker'[w] = Await("loop", worker[w].part, worker[w].attempt)
      /\ \A v \in Workers : v # w => worker'[v] = worker[v]
  BY WorkerGoes DEF Awaits
<1> QED BY <1>1, DropsKeep DEF Await

LEMMA NoneTwiceStep ==
    ASSUME EngineTypeOK, AtRest, NoneLost, NoneTwice, EngineNext
    PROVE  NoneTwice'
<1>0. ASSUME UNCHANGED <<pending, completed, worker>> PROVE NoneTwice'
  BY <1>0 DEF NoneTwice
<1>1. ASSUME NEW queue \in SUBSET Parts, RunWorkers(queue), UNCHANGED completed,
             queue \cap completed = {}
      PROVE  NoneTwice'
  <2>1. \A w \in Workers : worker'[w].at \in {"loop", "done"}
    BY <1>1, PoolStarts
  <2>2. pending' = queue
    BY <1>1 DEF RunWorkers
  <2> QED BY <1>1, <2>1, <2>2 DEF NoneTwice, Holding
<1>2. CASE Initiated
  <2>1. completed = {}
    BY <1>2 DEF AtRest, Initiated
  <2> QED BY <1>2, <2>1, <1>0, <1>1 DEF Initiated, pool
<1>3. CASE StatusAnswered
  <2>1. CASE aborted
    BY <1>3, <2>1, <1>0 DEF StatusAnswered
  <2>2. CASE ~aborted
    <3>1. pending' = Parts \ (reported \cup completed) /\ completed' = completed /\ worker' = worker
      BY <1>3, <2>2 DEF StatusAnswered, QueueMissing, Missing
    <3>2. \A w \in Workers : worker[w].at = "done"
      BY <1>3 DEF StatusAnswered, AtRest
    <3> QED BY <3>1, <3>2 DEF NoneTwice, Holding
  <2> QED BY <2>1, <2>2
<1>4. CASE Resume
  <2>1. CASE pending = {}
    BY <1>4, <2>1, <1>0 DEF Resume, pool
  <2>2. CASE pending # {}
    BY <1>4, <2>2, <1>1 DEF Resume, EngineTypeOK, NoneTwice
  <2> QED BY <2>1, <2>2
<1>5. CASE InitiateFails \/ PoolDone \/ StatusFails \/ CompleteAnswered
           \/ ServiceStep \/ Settled
  BY <1>5, <1>0 DEF InitiateFails, PoolDone, StatusFails, CompleteAnswered, ServiceStep,
     StorePart, CompleteArrives, DeleteArrives, SessionEnds, Settled, engineVars, pool
<1>6. ASSUME NEW w \in Workers, WorkerStep(w) PROVE NoneTwice'
  <2>1. CASE TakePart(w)
    <3>1. PICK n \in pending :
            /\ pending' = pending \ {n}
            /\ IF aborted
               THEN Cancelled(w)
               ELSE /\ worker' = [worker EXCEPT ![w] = Await("url", n, 0)]
                    /\ UNCHANGED cancelled
      BY <2>1 DEF TakePart
    <3>2. n \in Parts \ completed /\ 0 \in 0 .. MAX_PART_ATTEMPTS - 1 /\ completed' = completed
      BY <2>1, EngineAssumption DEF EngineTypeOK, NoneTwice, TakePart
    <3>3. CASE aborted
      BY <3>1, <3>2, <3>3, WorkerEnds DEF Cancelled, NoneTwice, Holding, Await
    <3>4. CASE ~aborted
      <4>1. worker'[w] = Await("url", n, 0) /\ \A v \in Workers : v # w => worker'[v] = worker[v]
        BY <3>1, <3>2, <3>4, WorkerTakes
      <4> QED BY <3>1, <3>2, <4>1 DEF NoneTwice, Holding, Await
    <3> QED BY <3>3, <3>4
  <2>2. CASE Leave(w)
    BY <2>2, WorkerEnds, DropsKeep DEF Leave, Await
  <2>3. CASE UrlAnswered(w)
    <3>1. CASE aborted
      BY <2>3, <3>1, WorkerEnds, DropsKeep DEF UrlAnswered, Cancelled, Await
    <3>2. CASE ~aborted
      BY <2>3, <3>2, GoesKeep DEF UrlAnswered, Awaits, At, Holding
    <3> QED BY <3>1, <3>2
  <2>4. CASE PutAnswered(w)
    <3>1. /\ worker'[w] = Await("report", worker[w].part, worker[w].attempt)
          /\ \A v \in Workers : v # w => worker'[v] = worker[v]
      BY <2>4, WorkerGoes DEF PutAnswered, Awaits
    <3>2. /\ worker[w].at \in Holding /\ pending' = pending
          /\ completed' = completed \cup {worker[w].part}
      BY <2>4 DEF PutAnswered, At, Part, Holding
    <3> QED BY <3>1, <3>2 DEF NoneTwice, Await, Holding
  <2>5. CASE TryFails(w)
    BY <2>5, GoesKeep DEF TryFails, Awaits, At, Holding
  <2>6. CASE Report(w)
    BY <2>6, LoopsKeep DEF Report
  <2>7. CASE Retry(w)
    <3> DEFINE next == worker[w].attempt + 1
    <3>1. ASSUME Cancelled(w), UNCHANGED <<pending, completed>> PROVE NoneTwice'
      BY <3>1, WorkerEnds, DropsKeep DEF Cancelled, Await
    <3>2. ASSUME next < MAX_PART_ATTEMPTS, UNCHANGED <<pending, completed>>,
                 worker' = [worker EXCEPT ![w] = Await("url", @.part, next)]
          PROVE  NoneTwice'
      <4>1. worker[w].at \in Holding
        BY <2>7 DEF Retry, At, Holding
      <4>2. worker[w].part \in Parts /\ next \in 0 .. MAX_PART_ATTEMPTS - 1
        <5>1. worker[w].attempt \in 0 .. MAX_PART_ATTEMPTS - 1
          BY DEF EngineTypeOK
        <5> QED BY <3>2, <4>1, <5>1, EngineAssumption DEF NoneTwice
      <4>3. worker' = [worker EXCEPT ![w] = Await("url", worker[w].part, next)]
        BY <3>2
      <4>4. /\ worker'[w] = Await("url", worker[w].part, next)
            /\ \A v \in Workers : v # w => worker'[v] = worker[v]
        BY <4>2, <4>3, WorkerTakes
      <4> QED BY <3>2, <4>1, <4>4, DropsKeep DEF Await, Holding
    <3>3. ASSUME Goto(w, "loop"), UNCHANGED <<pending, completed>> PROVE NoneTwice'
      BY <3>3, LoopsKeep
    <3> QED BY <2>7, <3>1, <3>2, <3>3 DEF Retry
  <2> QED BY <1>6, <2>1, <2>2, <2>3, <2>4, <2>5, <2>6, <2>7 DEF WorkerStep
<1>7. CASE Abort
  <2>1. \A w \in Workers : worker'[w] = worker[w] \/ worker'[w].at = "done"
    BY <1>7 DEF Abort, Await
  <2>2. UNCHANGED <<pending, completed>>
    BY <1>7 DEF Abort
  <2> QED BY <2>1, <2>2 DEF NoneTwice, Holding
<1> QED BY <1>2, <1>3, <1>4, <1>5, <1>6, <1>7 DEF EngineNext, ControlStep
-----------------------------------------------------------------------------
(* No part lost *)

LEMMA AtRestStep ==
    ASSUME EngineTypeOK, AtRest, EngineNext
    PROVE  AtRest'
<1>1. ASSUME UNCHANGED <<completed, worker>>, stage' # "initiate" \/ UNCHANGED stage,
             stage # "workers" \/ stage' = "workers" \/ \A w \in Workers : worker[w].at = "done"
      PROVE  AtRest'
  BY <1>1 DEF AtRest
<1>2. ASSUME stage' = "workers" PROVE AtRest'
  BY <1>2 DEF AtRest
<1>3. CASE Initiated
  BY <1>3, <1>1, <1>2 DEF Initiated, Settle, RunWorkers, pool
<1>4. CASE InitiateFails \/ StatusFails \/ CompleteAnswered
  BY <1>4, <1>1 DEF InitiateFails, StatusFails, CompleteAnswered, Settle, pool
<1>5. CASE PoolDone
  BY <1>5, <1>1 DEF PoolDone, Finalize, Settle, pool
<1>6. CASE StatusAnswered
  BY <1>6, <1>1 DEF StatusAnswered, Settle
<1>7. CASE Resume
  BY <1>7, <1>1, <1>2 DEF Resume, Finalize, Settle, RunWorkers, pool
<1>8. ASSUME NEW w \in Workers, WorkerStep(w) PROVE AtRest'
  BY <1>8, <1>2 DEF WorkerStep, TakePart, Leave, UrlAnswered, PutAnswered, TryFails,
     Report, Retry, At, control
<1>9. CASE Abort
  BY <1>9 DEF Abort, AtRest, At, control
<1>10. CASE ServiceStep \/ Settled
  BY <1>10, <1>1 DEF ServiceStep, StorePart, CompleteArrives, DeleteArrives, SessionEnds,
     Settled, engineVars, control, pool
<1> QED BY <1>3, <1>4, <1>5, <1>6, <1>7, <1>8, <1>9, <1>10 DEF EngineNext, ControlStep

\* While the pool runs: what leaves pending goes into a worker's hands, what
\* leaves a worker's hands was completed or has failed.
Held(n, u) == u.at \in Holding /\ u.part = n

LEMMA NoneLostStep ==
    ASSUME EngineTypeOK, AtRest, NoneLost, NoneTwice, EngineNext, EngineTypeOK'
    PROVE  NoneLost'
<1> USE DEF NoneLost, Missing
<1>0. ASSUME UNCHANGED <<stage, round, pending, failed, cancelled, completed, worker,
                         reported>>,
             stored \subseteq stored' /\ stored' \subseteq Parts
      PROVE  NoneLost'
  BY <1>0 DEF InHand
<1>1. ASSUME NEW queue \in SUBSET Parts, RunWorkers(queue),
             UNCHANGED <<completed, reported, stored>>,
             Parts \ (reported \cup completed) \subseteq queue
      PROVE  NoneLost'
  <2>1. queue # {} => \E w \in Workers : worker'[w].at # "done"
    BY <1>1, PoolStarts
  <2> QED BY <1>1, <2>1 DEF RunWorkers
<1>2. CASE Initiated
  BY <1>2, <1>1 DEF Initiated, Settle, pool
<1>3. CASE InitiateFails \/ StatusFails \/ CompleteAnswered
  BY <1>3 DEF InitiateFails, StatusFails, CompleteAnswered, Settle, service
<1>4. CASE PoolDone
  <2>1. UNCHANGED <<completed, reported, stored, worker, pending, failed>>
    BY <1>4 DEF PoolDone, pool
  <2>2. CASE cancelled
    BY <1>4, <2>1, <2>2 DEF PoolDone, Settle
  <2>3. CASE ~cancelled /\ failed = {}
    <3>1. \A n : ~InHand(n)
      BY <1>4 DEF PoolDone, InHand, Holding
    <3>2. pending = {}
      BY <1>4, <2>3 DEF PoolDone
    <3>3. Parts \subseteq stored
      BY <1>4, <2>3, <3>1, <3>2 DEF PoolDone, EngineTypeOK
    <3>4. stored = Parts
      BY <3>3 DEF EngineTypeOK
    <3> QED BY <1>4, <2>1, <2>3, <3>4 DEF PoolDone, Finalize, Settle
  <2>4. CASE ~cancelled /\ failed # {}
    BY <1>4, <2>1, <2>4, EngineAssumption DEF PoolDone, Settle, EngineTypeOK
  <2> QED BY <2>2, <2>3, <2>4
<1>5. CASE StatusAnswered
  BY <1>5 DEF StatusAnswered, Settle, QueueMissing, service
<1>6. CASE Resume
  <2>1. CASE pending = {}
    <3>1. stored = Parts
      BY <1>6, <2>1 DEF Resume, EngineTypeOK
    <3> QED BY <1>6, <2>1, <3>1 DEF Resume, Finalize, Settle, pool
  <2>2. CASE pending # {}
    BY <1>6, <2>2, <1>1 DEF Resume, EngineTypeOK
  <2> QED BY <2>1, <2>2
<1>7. ASSUME NEW w \in Workers, WorkerStep(w) PROVE NoneLost'
  <2>1. stage = "workers" /\ stage' = "workers" /\ stored' = stored
    BY <1>7 DEF WorkerStep, TakePart, Leave, UrlAnswered, PutAnswered, TryFails,
       Report, Retry, At, control, service
  \* It is enough that the worker that moved loses nothing.
  <2>2. ASSUME completed' \cup reported' \subseteq stored,
               completed \subseteq completed', reported \subseteq reported',
               failed \subseteq failed',
               ~cancelled' => ~cancelled,
               \A v \in Workers : v # w => worker'[v] = worker[v],
               ~cancelled' => \A n \in Parts \ (reported' \cup completed') :
                   /\ n \in pending => n \in pending' \/ Held(n, worker'[w])
                   /\ Held(n, worker[w]) => n \in failed' \/ Held(n, worker'[w]),
               ~cancelled' /\ pending' # {} => pending # {} /\ worker'[w].at # "done"
        PROVE  NoneLost'
    <3>1. ASSUME ~cancelled', NEW n \in Parts \ (reported' \cup completed')
          PROVE  n \in pending' \/ n \in failed' \/ InHand(n)'
      <4>1. n \in pending \/ n \in failed \/ InHand(n)
        BY <2>1, <2>2, <3>1
      <4>2. CASE n \in pending
        BY <2>2, <3>1, <4>2 DEF InHand, Held
      <4>3. CASE n \in failed
        BY <2>2, <4>3
      <4>4. CASE InHand(n)
        <5>1. PICK v \in Workers : Held(n, worker[v])
          BY <4>4 DEF InHand, Held
        <5>2. CASE v = w
          BY <2>2, <3>1, <5>1, <5>2 DEF InHand, Held
        <5>3. CASE v # w
          BY <2>2, <5>1, <5>3 DEF InHand, Held
        <5> QED BY <5>2, <5>3
      <4> QED BY <4>1, <4>2, <4>3, <4>4
    <3>2. ~cancelled' /\ pending' # {} => \E v \in Workers : worker'[v].at # "done"
      BY <2>2
    <3> QED BY <2>1, <2>2, <3>1, <3>2
  \* A worker that ended with UploadCancelledError ends the round.
  <2>3. ASSUME Cancelled(w), UNCHANGED <<completed, reported>> PROVE NoneLost'
    BY <2>1, <2>3 DEF Cancelled
  <2> USE DEF Held
  <2>4. CASE TakePart(w)
    <3>1. PICK n \in pending :
            /\ pending' = pending \ {n}
            /\ IF aborted
               THEN Cancelled(w)
               ELSE /\ worker' = [worker EXCEPT ![w] = Await("url", n, 0)]
                    /\ UNCHANGED cancelled
      BY <2>4 DEF TakePart
    <3>2. n \in Parts /\ 0 \in 0 .. MAX_PART_ATTEMPTS - 1
      BY EngineAssumption DEF EngineTypeOK
    <3>3. worker[w].at = "loop" /\ UNCHANGED <<failed, completed, reported>>
      BY <2>4 DEF TakePart, At, service
    <3>4. CASE aborted
      BY <3>1, <3>3, <3>4, <2>3
    <3>5. CASE ~aborted
      <4>1. worker'[w] = Await("url", n, 0) /\ \A v \in Workers : v # w => worker'[v] = worker[v]
        BY <3>1, <3>2, <3>5, WorkerTakes
      <4> QED BY <3>1, <3>3, <3>5, <4>1, <2>2 DEF Holding, Await
    <3> QED BY <3>4, <3>5
  <2>5. CASE Leave(w)
    <3>1. /\ worker'[w] = Await("done", 0, 0)
          /\ \A v \in Workers : v # w => worker'[v] = worker[v]
      BY <2>5, WorkerEnds DEF Leave
    <3>2. /\ worker[w].at = "loop" /\ (pending = {} \/ cancelled)
          /\ UNCHANGED <<pending, failed, cancelled, completed, reported>>
      BY <2>5 DEF Leave, At, service
    <3> QED BY <2>2, <3>1, <3>2 DEF Holding, Await
  <2>6. CASE UrlAnswered(w)
    <3>1. CASE aborted
      BY <2>6, <3>1, <2>3 DEF UrlAnswered
    <3>2. CASE ~aborted
      <4>1. /\ Goto(w, "put")
            /\ UNCHANGED <<pending, failed, cancelled, completed, reported>>
        BY <2>6, <3>2 DEF UrlAnswered
      <4>2. /\ worker'[w] = Await("put", worker[w].part, worker[w].attempt)
            /\ \A v \in Workers : v # w => worker'[v] = worker[v]
        BY <4>1, WorkerGoes DEF Awaits
      <4> QED BY <2>2, <4>1, <4>2 DEF Holding, Await
    <3> QED BY <3>1, <3>2
  <2>7. CASE PutAnswered(w)
    <3>1. /\ Goto(w, "report") /\ worker[w].part \in stored
          /\ completed' = completed \cup {worker[w].part}
          /\ UNCHANGED <<pending, failed, cancelled, reported>>
      BY <2>7 DEF PutAnswered, Part, service
    <3>2. /\ worker'[w] = Await("report", worker[w].part, worker[w].attempt)
          /\ \A v \in Workers : v # w => worker'[v] = worker[v]
      BY <3>1, WorkerGoes DEF Awaits
    <3> QED BY <2>2, <3>1, <3>2 DEF Holding, Await
  <2>8. CASE TryFails(w)
    <3>1. /\ Goto(w, "sleep")
          /\ UNCHANGED <<pending, failed, cancelled, completed, reported>>
      BY <2>8 DEF TryFails, service
    <3>2. /\ worker'[w] = Await("sleep", worker[w].part, worker[w].attempt)
          /\ \A v \in Workers : v # w => worker'[v] = worker[v]
      BY <3>1, WorkerGoes DEF Awaits
    <3> QED BY <2>2, <3>1, <3>2 DEF Holding, Await
  <2>9. CASE Report(w)
    <3>1. /\ Goto(w, "loop") /\ worker[w].at = "report"
          /\ reported' = reported \/ reported' = reported \cup {worker[w].part}
          /\ UNCHANGED <<pending, failed, cancelled, completed>>
      BY <2>9 DEF Report, At, Part
    <3>2. /\ worker'[w] = Await("loop", worker[w].part, worker[w].attempt)
          /\ \A v \in Workers : v # w => worker'[v] = worker[v]
      BY <3>1, WorkerGoes DEF Awaits
    <3>3. worker[w].part \in stored
      BY <3>1 DEF NoneTwice
    <3> QED BY <2>2, <3>1, <3>2, <3>3 DEF Holding, Await
  <2>10. CASE Retry(w)
    <3> DEFINE next == worker[w].attempt + 1
    <3>1. UNCHANGED <<pending, completed, reported>>
      BY <2>10 DEF Retry, service
    <3>2. CASE Cancelled(w)
      BY <3>1, <3>2, <2>3
    <3>3. ASSUME next < MAX_PART_ATTEMPTS, UNCHANGED <<cancelled, failed>>,
                 worker' = [worker EXCEPT ![w] = Await("url", @.part, next)]
          PROVE  NoneLost'
      <4>1. worker'[w] = Await("url", worker[w].part, next)
            /\ \A v \in Workers : v # w => worker'[v] = worker[v]
        BY <3>3 DEF EngineTypeOK
      <4> QED BY <2>2, <3>1, <3>3, <4>1 DEF Holding, Await
    <3>4. ASSUME failed' = failed \cup {Part(w)}, Goto(w, "loop"), UNCHANGED cancelled
          PROVE  NoneLost'
      <4>1. /\ worker'[w] = Await("loop", worker[w].part, worker[w].attempt)
            /\ \A v \in Workers : v # w => worker'[v] = worker[v]
        BY <3>4, WorkerGoes DEF Awaits
      <4> QED BY <2>2, <3>1, <3>4, <4>1 DEF Holding, Await, Part
    <3> QED BY <2>10, <3>2, <3>3, <3>4 DEF Retry
  <2> QED BY <1>7, <2>4, <2>5, <2>6, <2>7, <2>8, <2>9, <2>10 DEF WorkerStep
<1>8. CASE Abort
  <2>1. \A w \in Workers : worker'[w] = worker[w] \/ cancelled'
    BY <1>8 DEF Abort, EngineTypeOK
  <2>2. UNCHANGED <<stage, round, pending, failed, completed, reported, stored>>
        /\ (cancelled => cancelled')
    BY <1>8 DEF Abort, control
  <2> QED BY <2>1, <2>2 DEF InHand
<1>9. CASE ServiceStep \/ Settled
  BY <1>9, <1>0 DEF ServiceStep, StorePart, CompleteArrives, DeleteArrives, SessionEnds,
     Settled, engineVars, control, pool, EngineTypeOK
<1> QED BY <1>2, <1>3, <1>4, <1>5, <1>6, <1>7, <1>8, <1>9 DEF EngineNext, ControlStep

-----------------------------------------------------------------------------
(* Theorems *)

LEMMA EngineInvariant == EngineSpec => []EngineIInv
<1>1. EngineInit => EngineIInv
  <2> SUFFICES ASSUME EngineInit PROVE EngineIInv
    OBVIOUS
  <2>1. EngineTypeOK
    BY TypeInit
  <2>2. \A w \in Workers : worker[w].at = "done"
    BY DEF EngineInit, Await
  <2> QED BY <2>1, <2>2 DEF EngineInit, EngineIInv, AtRest, NoneLost, NoneTwice, Holding
<1>2. EngineIInv /\ [EngineNext]_engineVars => EngineIInv'
  <2> SUFFICES ASSUME EngineIInv, [EngineNext]_engineVars PROVE EngineIInv'
    OBVIOUS
  <2>1. CASE EngineNext
    <3>1. EngineTypeOK'
      BY <2>1, TypeStep DEF EngineIInv
    <3> QED BY <2>1, <3>1, AtRestStep, NoneTwiceStep, NoneLostStep DEF EngineIInv
  <2>2. CASE UNCHANGED engineVars
    BY <2>2 DEF engineVars, EngineIInv, EngineTypeOK, AtRest, NoneLost, NoneTwice,
       InHand, Missing
  <2> QED BY <2>1, <2>2
<1> QED BY <1>1, <1>2, PTL DEF EngineSpec

\* The browser asks to complete an upload only when S3 holds all of it.
THEOREM EngineFinalizesWhenStored == EngineSpec => []FinalizesOnlyWhenStored
<1>1. EngineIInv => FinalizesOnlyWhenStored
  BY DEF EngineIInv, NoneLost, FinalizesOnlyWhenStored
<1> QED BY <1>1, EngineInvariant, PTL

\* No part whose PUT was answered is uploaded again.
THEOREM EngineResendsOnlyMissing == EngineSpec => OnlyMissingResent
<1>1. EngineIInv /\ EngineIInv' /\ [EngineNext]_engineVars
        => [\A w \in Workers :
              worker'[w].at = "url" => worker'[w].part \notin completed]_engineVars
  <2> SUFFICES ASSUME EngineIInv', EngineNext, NEW w \in Workers, worker'[w].at = "url"
               PROVE  worker'[w].part \notin completed
    OBVIOUS
  <2>1. completed \subseteq completed'
    BY DEF EngineNext, ControlStep, WorkerStep, ServiceStep, Initiated, InitiateFails,
       PoolDone, StatusAnswered, StatusFails, Resume, CompleteAnswered, TakePart, Leave,
       UrlAnswered, PutAnswered, TryFails, Report, Retry, Abort, StorePart,
       CompleteArrives, DeleteArrives, SessionEnds, Settled, engineVars
  <2>2. worker'[w].part \notin completed'
    BY DEF EngineIInv, NoneTwice, Holding
  <2> QED BY <2>1, <2>2
<1> QED BY <1>1, EngineInvariant, PTL DEF EngineSpec, OnlyMissingResent

\* A worker that moves into none of the two awaits of a try.
LEMMA QuietWorker ==
    ASSUME NEW w \in Workers, stage' = stage,
           \A v \in Workers : v # w => worker'[v] = worker[v],
           worker'[w].at \in {"loop", "report", "sleep", "done"}
    PROVE  /\ \A v \in Workers : /\ worker'[v].at = "put" => worker[v].at = "put"
                                /\ worker'[v].at = "url" => worker[v] = worker'[v]
           /\ stage' = "complete" => stage = "complete"
OBVIOUS

\* After Cancel the engine starts nothing.
THEOREM EngineQuietAfterCancel == EngineSpec => QuietAfterCancel
<1> DEFINE Quiet == /\ \A v \in Workers :
                        /\ worker'[v].at = "put" => worker[v].at = "put"
                        /\ worker'[v].at = "url" => worker[v] = worker'[v]
                    /\ stage' = "complete" => stage = "complete"
<1>1. ASSUME EngineIInv, EngineNext, aborted PROVE Quiet
  <2>1. EngineTypeOK
    BY <1>1 DEF EngineIInv
  <2>2. ASSUME worker' = worker, stage' # "complete" \/ stage' = stage PROVE Quiet
    BY <2>2
  <2>3. CASE Initiated \/ InitiateFails \/ StatusAnswered \/ StatusFails \/ CompleteAnswered
    BY <1>1, <2>2, <2>3 DEF Initiated, InitiateFails, StatusAnswered, StatusFails,
       CompleteAnswered, Settle, pool, service
  <2>4. CASE PoolDone
    BY <1>1, <2>2, <2>4 DEF PoolDone, Finalize, Settle, pool
  <2>5. CASE Resume
    <3>1. CASE pending = {}
      BY <1>1, <2>2, <2>5, <3>1 DEF Resume, Finalize, Settle, pool
    <3>2. CASE pending # {}
      <4>1. RunWorkers(pending) /\ stage' = "workers" /\ pending \in SUBSET Parts
        BY <2>1, <2>5, <3>2 DEF Resume, RunWorkers, EngineTypeOK
      <4> QED BY <4>1, PoolStarts
    <3> QED BY <3>1, <3>2
  <2>6. ASSUME NEW w \in Workers, WorkerStep(w) PROVE Quiet
    <3>1. stage' = stage
      BY <2>6 DEF WorkerStep, TakePart, Leave, UrlAnswered, PutAnswered, TryFails,
         Report, Retry, control
    <3>2. ASSUME worker' = [worker EXCEPT ![w] = Await("done", 0, 0)] PROVE Quiet
      BY <1>1, <2>1, <3>1, <3>2, WorkerEnds, QuietWorker DEF Await
    <3>0. ASSUME Goto(w, "loop") \/ Goto(w, "report") \/ Goto(w, "sleep") PROVE Quiet
      <4>1. PICK a \in {"loop", "report", "sleep"} : Goto(w, a)
        BY <3>0
      <4>2. a \in Awaits
        BY DEF Awaits
      <4>3. /\ worker'[w] = Await(a, worker[w].part, worker[w].attempt)
            /\ \A v \in Workers : v # w => worker'[v] = worker[v]
        BY <2>1, <4>1, <4>2, WorkerGoes
      <4> QED BY <3>1, <4>3, QuietWorker DEF Await
    <3>3. CASE TakePart(w) \/ Leave(w) \/ UrlAnswered(w)
      BY <1>1, <3>2, <3>3 DEF TakePart, Leave, UrlAnswered, Cancelled
    <3>4. CASE PutAnswered(w)
      BY <3>0, <3>4 DEF PutAnswered
    <3>5. CASE TryFails(w)
      BY <3>0, <3>5 DEF TryFails
    <3>6. CASE Report(w)
      BY <3>0, <3>6 DEF Report
    <3>7. CASE Retry(w)
      <4>1. Cancelled(w) \/ Goto(w, "loop")
        BY <1>1, <3>7 DEF Retry
      <4> QED BY <3>0, <3>2, <4>1 DEF Cancelled
    <3> QED BY <2>6, <3>3, <3>4, <3>5, <3>6, <3>7 DEF WorkerStep
  <2>7. CASE Abort
    BY <1>1, <2>7 DEF Abort
  <2>8. CASE ServiceStep \/ Settled
    BY <2>2, <2>8 DEF ServiceStep, StorePart, CompleteArrives, DeleteArrives, SessionEnds,
       Settled, engineVars, control, pool
  <2> QED BY <1>1, <2>3, <2>4, <2>5, <2>6, <2>7, <2>8 DEF EngineNext, ControlStep
<1>2. EngineIInv /\ [EngineNext]_engineVars
        => [aborted =>
              /\ \A w \in Workers :
                  /\ worker'[w].at = "put" => worker[w].at = "put"
                  /\ worker'[w].at = "url" => worker[w] = worker'[w]
              /\ stage' = "complete" => stage = "complete"]_engineVars
  BY <1>1
<1> QED BY <1>2, EngineInvariant, PTL DEF EngineSpec, QuietAfterCancel
=============================================================================

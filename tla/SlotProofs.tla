----------------------------- MODULE SlotProofs -----------------------------
(***************************************************************************)
(* Proofs about the limiter (ConcurrencySlots), and about what it and the  *)
(* daily budget promise the two controllers that take its slots, for any   *)
(* number of requests, any cap, budget, windows and times to live.         *)
(* LimiterStep covers what the controllers do to the limiter; each step of *)
(* theirs is shown to be one.                                              *)
(***************************************************************************)
EXTENDS Conversions, OcrRequests, FiniteSetTheorems, TLAPS

\* A request that counts for nothing.
Uncounted == {"idle", "window", "budget", "refund", "acquire", "open"}

\* The work under a slot is over.
StartRelease(r) ==
    /\ IsAt(r, "held")
    /\ \E n \in Int, t \in 0 .. RunMax :
           request' = [request EXCEPT ![r] = Stand("release", n, t)]
    /\ UNCHANGED <<key, lapsed>>

\* A request goes on, or ends, without a slot.
Outside(r) ==
    /\ \E step \in Uncounted, n \in Int, t \in 0 .. RunMax :
           request' = [request EXCEPT ![r] = Stand(step, n, t)]
    /\ UNCHANGED <<key, lapsed>>

LimiterStep ==
    \/ \E r \in Requests :
        \/ \E from \in Uncounted : IncrSlot(r, from)
        \/ ExpireSlot(r)
        \/ DecrDenied(r)
        \/ DecrReleased(r)
        \/ SetFloor(r)
        \/ StartRelease(r)
        \/ Outside(r)
    \/ SlotTick

\* A controller's step that sets a request's place is one of the two.
LEMMA SlotlessStep ==
    ASSUME NEW r \in Requests, UNCHANGED <<key, lapsed>>,
           NEW step, request' = [request EXCEPT ![r] = Stand(step, 0, 0)]
    PROVE  /\ step \in Uncounted => Outside(r)
           /\ step = "release" /\ IsAt(r, "held") => StartRelease(r)
<1>1. 0 \in Int /\ 0 \in 0 .. RunMax
  BY SlotTtlAssumption
<1> QED BY <1>1, Zenon DEF Outside, StartRelease

\* ... also if it keeps the count it read and the time it worked.
LEMMA GotoStep ==
    ASSUME SlotTypeOK, KeyOutlives, NEW r \in Requests, UNCHANGED <<key, lapsed>>,
           NEW step, Goto(r, step)
    PROVE  /\ step \in Uncounted => Outside(r)
           /\ step = "release" /\ IsAt(r, "held") => StartRelease(r)
<1>1. request[r].seen \in Int /\ request[r].age \in 0 .. RunMax
  BY SlotTtlAssumption DEF SlotTypeOK, RequestType, KeyOutlives
<1>2. request' = [request EXCEPT ![r] = Stand(step, request[r].seen, request[r].age)]
  BY DEF Goto
<1> QED BY <1>1, <1>2, Zenon DEF Outside, StartRelease

-----------------------------------------------------------------------------
(* Types *)

\* What each command does to a key, in terms of its two fields.
LEMMA Commands ==
    ASSUME NEW k \in CounterType, NEW t \in Nat
    PROVE  /\ INCR(k) \in CounterType /\ DECR(k) \in CounterType
           /\ EXPIRE(k, t) \in CounterType /\ SET(0) \in CounterType
           /\ Elapse(k) \in CounterType /\ Absent \in CounterType
           /\ INCR(k).val = k.val + 1 /\ DECR(k).val = k.val - 1
           /\ EXPIRE(k, t).val = k.val /\ SET(0).val = 0
           /\ Present(k) => INCR(k).ttl = k.ttl /\ DECR(k).ttl = k.ttl
           /\ ~Present(k) => INCR(k).ttl = -1 /\ DECR(k).ttl = -1
           /\ EXPIRE(k, t).ttl = IF Present(k) THEN t ELSE k.ttl
           /\ SET(0).ttl = -1
           /\ k.ttl = 1 => Elapse(k).ttl = 0 /\ Elapse(k).val = 0
           /\ k.ttl > 1 => Elapse(k).ttl = k.ttl - 1 /\ Elapse(k).val = k.val
           /\ k.ttl < 1 => Elapse(k) = k
BY DEF CounterType, INCR, DECR, EXPIRE, SET, Elapse, Absent, Counter, Present, Life,
       Persistent

\* The limiter's state keeps its type.
LEMMA SlotTyped ==
    ASSUME SlotTypeOK, LimiterStep
    PROVE  SlotTypeOK'
<1> USE SlotTtlAssumption DEF SlotTypeOK, RequestType, SlotSteps
<1>1. ASSUME NEW r \in Requests, NEW from \in Uncounted, IncrSlot(r, from)
      PROVE  SlotTypeOK'
  BY <1>1, Commands DEF IncrSlot, Stand, CounterType
<1>2. ASSUME NEW r \in Requests, ExpireSlot(r) PROVE SlotTypeOK'
  BY <1>2, Commands DEF ExpireSlot, Goto, Stand
<1>3. ASSUME NEW r \in Requests, DecrDenied(r) PROVE SlotTypeOK'
  BY <1>3, Commands DEF DecrDenied, Quit, Idle, Stand
<1>4. ASSUME NEW r \in Requests, DecrReleased(r) PROVE SlotTypeOK'
  BY <1>4, Commands DEF DecrReleased, Quit, Goto, Idle, Stand
<1>5. ASSUME NEW r \in Requests, SetFloor(r) PROVE SlotTypeOK'
  BY <1>5, Commands DEF SetFloor, Quit, Idle, Stand
<1>6. ASSUME NEW r \in Requests, StartRelease(r) PROVE SlotTypeOK'
  BY <1>6 DEF StartRelease, Stand
<1>7. ASSUME NEW r \in Requests, Outside(r) PROVE SlotTypeOK'
  BY <1>7 DEF Outside, Stand, Uncounted
<1>8. CASE SlotTick
  <2>1. key' \in CounterType
    BY <1>8, Commands DEF SlotTick
  <2>2. request' \in [Requests -> RequestType]
    BY <1>8 DEF SlotTick
  <2>3. lapsed' \in BOOLEAN
    BY <1>8, Zenon DEF SlotTick
  <2> QED BY <2>1, <2>2, <2>3
<1> QED BY <1>1, <1>2, <1>3, <1>4, <1>5, <1>6, <1>7, <1>8 DEF LimiterStep

-----------------------------------------------------------------------------
(* The key outlives the work *)

\* A tick with a request under a slot leaves the key.
LEMMA TickKeepsKey ==
    ASSUME SlotTypeOK, KeyOutlives, SlotTick, NEW r \in Requests, IsAt(r, "held")
    PROVE  Present(key) => Present(key')
<1>1. request[r].age < RunMax
  BY DEF SlotTick, Working, IsAt
<1>2. key.ttl > 0 => key.ttl + request[r].age >= SlotTtl
  BY DEF KeyOutlives
<1>3. key.ttl # 1
  BY <1>1, <1>2, SlotTtlAssumption DEF SlotTypeOK, RequestType
<1>4. key' = Elapse(key) /\ key \in CounterType
  BY DEF SlotTick, SlotTypeOK
<1>5. key.ttl \in {-1} \cup Nat
  BY <1>4 DEF CounterType, Persistent
<1> QED BY <1>3, <1>4, <1>5, Commands DEF Present

\* A key that is missing is 0, and one that expires does so after the work.
LEMMA KeyOutlivesStep ==
    ASSUME SlotTypeOK, KeyOutlives, LimiterStep
    PROVE  KeyOutlives'
<1> USE SlotTtlAssumption DEF SlotTypeOK, RequestType, KeyOutlives, IsAt
<1>0. key \in CounterType /\ key.ttl \in {-1} \cup Nat /\ key.val \in Int
  BY DEF CounterType, Persistent
<1>1. ASSUME NEW r \in Requests, NEW from \in Uncounted, IncrSlot(r, from)
      PROVE  KeyOutlives'
  BY <1>0, <1>1, Commands DEF IncrSlot, Stand, Present
<1>2. ASSUME NEW q \in Requests, ExpireSlot(q) PROVE KeyOutlives'
  <2>1. key'.val = key.val /\ key'.ttl = IF Present(key) THEN SlotTtl ELSE key.ttl
    BY <1>0, <1>2, Commands DEF ExpireSlot
  <2>2. ~Present(key') => key'.val = 0
    BY <2>1 DEF Present
  <2>3. key'.ttl > 0 => key'.ttl = SlotTtl
    BY <1>0, <2>1 DEF Present
  <2>4. ASSUME NEW r \in Requests
        PROVE  /\ request'[r].age = request[r].age
               /\ request'[r].seen = request[r].seen
               /\ request'[r].at = "held" =>
                     request[r].at = "held" \/ request[r].seen <= MaxConcurrent
    BY <1>2, MaxAssumption DEF ExpireSlot, Goto, Stand
  <2>5. \A r \in Requests : request[r].seen \in Int /\ request[r].age \in Nat
    OBVIOUS
  <2> QED BY <1>0, <2>2, <2>3, <2>4, <2>5
<1>3. ASSUME NEW r \in Requests, DecrDenied(r) PROVE KeyOutlives'
  BY <1>0, <1>3, Commands DEF DecrDenied, Quit, Idle, Stand, Present
<1>4. ASSUME NEW r \in Requests, DecrReleased(r) PROVE KeyOutlives'
  BY <1>0, <1>4, Commands DEF DecrReleased, Quit, Goto, Idle, Stand, Present
<1>5. ASSUME NEW r \in Requests, SetFloor(r) PROVE KeyOutlives'
  BY <1>0, <1>5, Commands DEF SetFloor, Quit, Idle, Stand, Present
<1>6. ASSUME NEW r \in Requests, StartRelease(r) PROVE KeyOutlives'
  BY <1>0, <1>6 DEF StartRelease, Stand, Present
<1>7. ASSUME NEW r \in Requests, Outside(r) PROVE KeyOutlives'
  BY <1>0, <1>7 DEF Outside, Stand, Uncounted, Present
<1>8. CASE SlotTick
  <2>1. /\ key' = Elapse(key)
        /\ key.ttl = 1 => key'.ttl = 0
        /\ key.ttl > 1 => key'.ttl = key.ttl - 1
        /\ key.ttl < 1 => key'.ttl = key.ttl
    BY <1>0, <1>8, Commands DEF SlotTick
  <2>2. ~Present(key') => key'.val = 0
    BY <1>0, <2>1, Commands DEF Present
  <2>3. ASSUME NEW r \in Requests
        PROVE  /\ request'[r].age <= RunMax
               /\ request'[r].at = "held" => request'[r].seen <= MaxConcurrent
               /\ request'[r].at = "held" /\ key'.ttl > 0
                     => key'.ttl + request'[r].age >= SlotTtl
    <3>1. CASE Working(r)
      <4>1. request'[r] = [request[r] EXCEPT !.age = @ + 1]
        BY <1>8, <3>1 DEF SlotTick
      <4>2. request[r].age < RunMax
        BY <1>8, <3>1 DEF SlotTick
      <4>3. request[r] \in RequestType
        OBVIOUS
      <4>4. /\ request'[r].age = request[r].age + 1
            /\ request'[r].at = request[r].at
            /\ request'[r].seen = request[r].seen
        BY <4>1, <4>3
      <4>5. key'.ttl > 0 => key'.ttl = key.ttl - 1
        BY <1>0, <2>1
      <4>6. key'.ttl > 0 => key.ttl > 0
        BY <1>0, <2>1
      <4>7. key'.ttl \in Int
        BY <1>0, <2>1
      <4> QED BY <1>0, <4>2, <4>3, <4>4, <4>5, <4>6, <4>7
    <3>2. CASE ~Working(r)
      <4>1. request'[r] = request[r]
        BY <1>8, <3>2 DEF SlotTick
      <4> QED BY <3>2, <4>1 DEF Working
    <3> QED BY <3>1, <3>2
  <2> QED BY <2>2, <2>3
<1> QED BY <1>1, <1>2, <1>3, <1>4, <1>5, <1>6, <1>7, <1>8 DEF LimiterStep

-----------------------------------------------------------------------------
(* The counter is never too low *)

\* The two sets of requests are finite.
LEMMA FiniteSets == /\ IsFiniteSet(Counted) /\ Cardinality(Counted) \in Nat
                    /\ IsFiniteSet(Winners) /\ Cardinality(Winners) \in Nat
<1>1. Counted \in SUBSET Requests /\ Winners \in SUBSET Requests
  BY DEF Counted, Winners
<1> QED BY <1>1, RequestsAssumption, FS_Subset, FS_CardinalityType

\* A step that counts nobody anew and lets nobody anew win keeps the bounds, if
\* the counter falls only with a request that leaves the counted ones.
LEMMA FewerCounted ==
    ASSUME SlotTypeOK, CountsEnough, ~lapsed', lapsed' = lapsed, key'.val \in Int,
           Counted' \subseteq Counted, Winners' \subseteq Winners,
           \A r \in Requests : request'[r].at # "floor",
           \/ key'.val >= key.val
           \/ /\ key'.val = key.val - 1
              /\ \E r \in Counted : r \notin Counted'
    PROVE  CountsEnough'
<1>1. Cardinality(Winners') <= Cardinality(Winners) /\ IsFiniteSet(Counted')
      /\ Cardinality(Winners') \in Nat /\ Cardinality(Counted') \in Nat
  BY FiniteSets, FS_Subset, FS_CardinalityType
<1>2. Cardinality(Counted') <= Cardinality(Counted)
  BY FiniteSets, FS_Subset
<1>3. ASSUME NEW r \in Counted, r \notin Counted'
      PROVE  Cardinality(Counted') <= Cardinality(Counted) - 1
  <2>1. Counted' \in SUBSET (Counted \ {r})
    BY <1>3
  <2>2. IsFiniteSet(Counted \ {r}) /\ Cardinality(Counted \ {r}) = Cardinality(Counted) - 1
    BY FiniteSets, FS_RemoveElement
  <2> QED BY <2>1, <2>2, FS_Subset
<1>4. key.val >= Cardinality(Counted) /\ Cardinality(Winners) <= MaxConcurrent
  BY DEF CountsEnough
<1>5. key'.val >= Cardinality(Counted')
  <2>1. CASE key'.val >= key.val
    BY <1>1, <1>2, <1>4, <2>1, FiniteSets DEF SlotTypeOK, CounterType
  <2>2. CASE key'.val = key.val - 1 /\ \E r \in Counted : r \notin Counted'
    BY <1>1, <1>3, <1>4, <2>2, FiniteSets DEF SlotTypeOK, CounterType
  <2> QED BY <2>1, <2>2
<1>6. Cardinality(Winners') <= MaxConcurrent
  BY <1>1, <1>4, FiniteSets, MaxAssumption
<1> QED BY <1>5, <1>6 DEF CountsEnough, IsAt

\* An INCR counts one request more, which wins only if all the counted ones
\* still fit.
LEMMA OneMoreCounted ==
    ASSUME SlotTypeOK, CountsEnough, ~lapsed, NEW r \in Requests,
           NEW from \in Uncounted, IncrSlot(r, from)
    PROVE  CountsEnough'
<1>1. key'.val = key.val + 1 /\ key'.val \in Int /\ lapsed' = lapsed
  BY SlotTtlAssumption, Commands DEF IncrSlot, SlotTypeOK, CounterType
<1>2. request' = [request EXCEPT ![r] = Stand("refresh", key'.val, 0)]
  BY DEF IncrSlot
<1>3. r \notin Counted /\ Counted' = Counted \cup {r}
  BY <1>2 DEF IncrSlot, Counted, IsAt, Uncounted, Stand, SlotTypeOK
<1>4. IsFiniteSet(Counted') /\ Cardinality(Counted') = Cardinality(Counted) + 1
  BY <1>3, FiniteSets, FS_AddElement
<1>5. key'.val >= Cardinality(Counted')
  BY <1>1, <1>4, FiniteSets DEF CountsEnough, SlotTypeOK, CounterType
<1>6. Cardinality(Winners') <= MaxConcurrent
  <2>1. CASE key'.val <= MaxConcurrent
    <3>1. Winners' \in SUBSET (Counted')
      BY DEF Winners, Counted
    <3> QED BY <1>1, <1>4, <1>5, <2>1, <3>1, FS_Subset, FS_CardinalityType, MaxAssumption
  <2>2. CASE ~(key'.val <= MaxConcurrent)
    <3>1. Winners' = Winners
      BY <1>2, <2>2 DEF Winners, Stand, SlotTypeOK, IncrSlot, IsAt, Uncounted
    <3> QED BY <3>1 DEF CountsEnough
  <2> QED BY <2>1, <2>2
<1>7. \A q \in Requests : request'[q].at # "floor"
  BY <1>2 DEF CountsEnough, Stand, SlotTypeOK, IsAt
<1> QED BY <1>5, <1>6, <1>7 DEF CountsEnough, IsAt

\* Every step keeps the counter at or above what it has to count, unless the
\* key expires between two commands of a request.
LEMMA CountsEnoughStep ==
    ASSUME SlotTypeOK, KeyOutlives, CountsEnough, LimiterStep
    PROVE  CountsEnough'
<1> SUFFICES ASSUME ~lapsed' PROVE CountsEnough'
  BY DEF CountsEnough
<1> USE DEF SlotTypeOK
<1>0. ASSUME lapsed' = lapsed
      PROVE  \A r \in Requests : request[r].at # "floor"
  BY <1>0 DEF CountsEnough, IsAt
<1>1. ASSUME NEW r \in Requests, NEW from \in Uncounted, IncrSlot(r, from)
      PROVE  CountsEnough'
  BY <1>1, OneMoreCounted DEF IncrSlot
<1>2. ASSUME NEW r \in Requests, ExpireSlot(r) PROVE CountsEnough'
  <2>1. key'.val = key.val /\ key'.val \in Int /\ lapsed' = lapsed
    BY <1>2, SlotTtlAssumption, Commands DEF ExpireSlot, CounterType
  <2>2. Counted' \subseteq Counted /\ Winners' \subseteq Winners
    BY <1>2, MaxAssumption DEF ExpireSlot, Goto, Stand, Counted, Winners, IsAt, RequestType
  <2>3. \A q \in Requests : request'[q].at # "floor"
    BY <1>0, <1>2, <2>1 DEF ExpireSlot, Goto, Stand
  <2> QED BY <2>1, <2>2, <2>3, FewerCounted DEF CounterType
<1>3. ASSUME NEW r \in Requests, DecrDenied(r) PROVE CountsEnough'
  <2>1. key'.val = key.val - 1 /\ key'.val \in Int /\ lapsed' = lapsed
    BY <1>3, SlotTtlAssumption, Commands DEF DecrDenied, CounterType
  <2>2. /\ Counted' \subseteq Counted /\ Winners' \subseteq Winners
        /\ r \in Counted /\ r \notin Counted'
    BY <1>3 DEF DecrDenied, Quit, Idle, Stand, Counted, Winners, IsAt
  <2>3. \A q \in Requests : request'[q].at # "floor"
    BY <1>0, <1>3, <2>1 DEF DecrDenied, Quit, Idle, Stand
  <2> QED BY <2>1, <2>2, <2>3, FewerCounted
<1>4. ASSUME NEW r \in Requests, DecrReleased(r) PROVE CountsEnough'
  <2>1. key'.val = key.val - 1 /\ key'.val \in Int /\ lapsed' = lapsed
    BY <1>4, SlotTtlAssumption, Commands DEF DecrReleased, CounterType
  <2>2. r \in Counted
    BY <1>4 DEF DecrReleased, Counted, IsAt
  <2>3. Cardinality(Counted) # 0
    BY <2>2, FiniteSets, FS_EmptySet
  <2>4. ~(key'.val < 0)
    BY <2>1, <2>3, FiniteSets DEF CountsEnough, CounterType
  <2>5. Quit(r)
    BY <1>4, <2>4 DEF DecrReleased
  <2>6. /\ Counted' \subseteq Counted /\ Winners' \subseteq Winners
        /\ r \notin Counted'
    BY <2>5 DEF Quit, Idle, Stand, Counted, Winners
  <2>7. \A q \in Requests : request'[q].at # "floor"
    BY <1>0, <2>1, <2>5 DEF Quit, Idle, Stand
  <2> QED BY <2>1, <2>2, <2>6, <2>7, FewerCounted
<1>5. ASSUME NEW r \in Requests, SetFloor(r) PROVE CountsEnough'
  BY <1>0, <1>5 DEF SetFloor, IsAt
<1>6. ASSUME NEW r \in Requests, StartRelease(r) PROVE CountsEnough'
  <2>1. key' = key /\ lapsed' = lapsed
    BY <1>6 DEF StartRelease
  <2>2. Counted' \subseteq Counted /\ Winners' \subseteq Winners
    BY <1>6 DEF StartRelease, Stand, Counted, Winners, IsAt
  <2>3. \A q \in Requests : request'[q].at # "floor"
    BY <1>0, <1>6, <2>1 DEF StartRelease, Stand
  <2> QED BY <2>1, <2>2, <2>3, FewerCounted DEF CounterType
<1>7. ASSUME NEW r \in Requests, Outside(r) PROVE CountsEnough'
  <2>1. key' = key /\ lapsed' = lapsed
    BY <1>7 DEF Outside
  <2>2. Counted' \subseteq Counted /\ Winners' \subseteq Winners
    BY <1>7 DEF Outside, Stand, Counted, Winners, Uncounted
  <2>3. \A q \in Requests : request'[q].at # "floor"
    BY <1>0, <1>7, <2>1 DEF Outside, Stand, Uncounted
  <2> QED BY <2>1, <2>2, <2>3, FewerCounted DEF CounterType
<1>8. CASE SlotTick
  <2>1. \A r \in Requests : /\ request'[r].at = request[r].at
                            /\ request'[r].seen = request[r].seen
    BY <1>8 DEF SlotTick, RequestType
  <2>2. Counted' = Counted /\ Winners' = Winners
    BY <2>1 DEF Counted, Winners
  <2>3. ~lapsed
    BY <1>8, Zenon DEF SlotTick
  <2>4. CASE key'.val = key.val
    BY <2>1, <2>2, <2>3, <2>4 DEF CountsEnough, IsAt
  <2>5. CASE key'.val # key.val
    <3>1. Present(key) /\ ~Present(key') /\ key'.val = 0
      BY <1>8, <2>5, Commands DEF SlotTick, Present, CounterType, Persistent
    <3>2. \A r \in Requests : ~Pending(r)
      BY <1>8, <3>1, Zenon DEF SlotTick
    <3>3. \A r \in Requests : ~IsAt(r, "held")
      BY <1>8, <3>1, TickKeepsKey
    <3>4. Counted = {}
      BY <3>2, <3>3 DEF Counted, Pending, IsAt
    <3> QED BY <2>1, <2>2, <2>3, <3>1, <3>4, FS_EmptySet DEF CountsEnough, IsAt
  <2> QED BY <2>4, <2>5
<1> QED BY <1>1, <1>2, <1>3, <1>4, <1>5, <1>6, <1>7, <1>8 DEF LimiterStep

-----------------------------------------------------------------------------
(* What the controllers' proofs use *)

\* The invariant of the limiter holds at the start.
LEMMA SlotIInvInit == SlotInit => SlotIInv
<1> SUFFICES ASSUME SlotInit PROVE SlotIInv
  OBVIOUS
<1>1. SlotTypeOK
  <2>1. key \in CounterType
    BY Commands DEF SlotInit, Absent, CounterType, Persistent
  <2>2. Idle \in RequestType
    BY DEF Idle, Stand, RequestType, SlotSteps
  <2>3. request \in [Requests -> RequestType]
    BY <2>2 DEF SlotInit
  <2> QED BY <2>1, <2>3 DEF SlotTypeOK, SlotInit
<1>2. KeyOutlives
  BY SlotTtlAssumption DEF SlotInit, KeyOutlives, Idle, Stand, Absent, IsAt
<1>3. Counted = {} /\ Winners = {}
  BY DEF SlotInit, Counted, Winners, Idle, Stand
<1>4. CountsEnough
  BY <1>3, FS_EmptySet, MaxAssumption DEF SlotInit, CountsEnough, Idle, Stand, Absent, IsAt
<1> QED BY <1>1, <1>2, <1>4 DEF SlotIInv

\* ... and through every step.
LEMMA SlotIInvStep == SlotIInv /\ [LimiterStep]_slotVars => SlotIInv'
<1> SUFFICES ASSUME SlotIInv, [LimiterStep]_slotVars PROVE SlotIInv'
  OBVIOUS
<1>1. CASE LimiterStep
  BY <1>1, SlotTyped, KeyOutlivesStep, CountsEnoughStep DEF SlotIInv
<1>2. CASE UNCHANGED slotVars
  BY <1>2 DEF slotVars, SlotIInv, SlotTypeOK, KeyOutlives, CountsEnough, Counted, Winners,
              IsAt
<1> QED BY <1>1, <1>2

\* The holders are winners.
LEMMA SlotIInvKeepsCap == SlotIInv => CapKept
<1> SUFFICES ASSUME SlotIInv, ~lapsed PROVE Cardinality(Holders) <= MaxConcurrent
  BY DEF CapKept
<1>1. Holders \in SUBSET Winners
  BY DEF Holders, Winners, IsAt, SlotIInv, KeyOutlives
<1>2. Cardinality(Holders) <= Cardinality(Winners) /\ Cardinality(Holders) \in Nat
  BY <1>1, FiniteSets, FS_Subset, FS_CardinalityType
<1> QED BY <1>2, FiniteSets, MaxAssumption DEF SlotIInv, CountsEnough

\* Only a tick removes the key, and not under a holder.
LEMMA ExpiryFindsNoHolder ==
    ASSUME SlotIInv, LimiterStep, Present(key), ~Present(key')
    PROVE  Holders = {}
<1> USE DEF SlotIInv, SlotTypeOK
<1>0. key \in CounterType /\ SlotTtl \in Nat /\ SlotTtl # 0 /\ key.ttl # 0
  BY SlotTtlAssumption DEF Present
<1>1. ASSUME NEW r \in Requests,
             \/ \E from \in Uncounted : IncrSlot(r, from)
             \/ ExpireSlot(r) \/ DecrDenied(r) \/ DecrReleased(r) \/ SetFloor(r)
             \/ StartRelease(r) \/ Outside(r)
      PROVE  FALSE
  <2>1. key' \in {INCR(key), EXPIRE(key, SlotTtl), DECR(key), SET(0), key}
    BY <1>1 DEF IncrSlot, ExpireSlot, DecrDenied, DecrReleased, SetFloor, StartRelease,
                Outside
  <2>2. key'.ttl # 0
    BY <1>0, <2>1, Commands DEF Present
  <2> QED BY <2>2 DEF Present
<1>2. SlotTick
  BY <1>1 DEF LimiterStep
<1> QED BY <1>2, TickKeepsKey DEF Holders

-----------------------------------------------------------------------------
(* The conversions *)

\* Each step of a conversion is a step of the limiter.
LEMMA ConversionStep ==
    ASSUME SlotTypeOK, ConversionNext
    PROVE  LimiterStep
<1> USE DEF LimiterStep
<1>1. ASSUME NEW r \in Requests, AcquireRejected(r) PROVE Outside(r)
  BY <1>1, SlotlessStep DEF AcquireRejected, Uncounted
<1>2. ASSUME NEW r \in Requests, Leave(r) PROVE Outside(r)
  BY <1>2, SlotlessStep DEF Leave, Quit, Idle, Uncounted
<1>3. ASSUME NEW r \in Requests, Converted(r) PROVE StartRelease(r) \/ Outside(r)
  <2>1. CASE IsAt(r, "held")
    <3>1. request' = [request EXCEPT ![r] = Stand("release", 0, 0)]
      BY <1>3, <2>1 DEF Converted, IsAt, SlotTypeOK
    <3> QED BY <1>3, <2>1, <3>1, SlotlessStep DEF Converted
  <2>2. CASE ~IsAt(r, "held")
    <3>1. request' = [request EXCEPT ![r] = Stand("idle", 0, 0)]
      BY <1>3, <2>2 DEF Converted, IsAt, Idle, SlotTypeOK
    <3> QED BY <1>3, <3>1, SlotlessStep DEF Converted, Uncounted
  <2> QED BY <2>1, <2>2
<1>4. ASSUME NEW r \in Requests, AcquireSlot(r) PROVE LimiterStep
  BY <1>4 DEF AcquireSlot, Uncounted
<1>5. ASSUME NEW r \in Requests, ReleaseSlot(r) PROVE LimiterStep
  BY <1>5 DEF ReleaseSlot
<1> QED BY <1>1, <1>2, <1>3, <1>4, <1>5 DEF ConversionNext

\* The limiter's invariant is one of the conversions.
LEMMA ConversionInvariant == ConversionSpec => []SlotIInv
<1>1. SlotIInv /\ [ConversionNext]_slotVars => SlotIInv'
  BY ConversionStep, SlotIInvStep DEF SlotIInv
<1> QED BY SlotIInvInit, <1>1, PTL DEF ConversionSpec

\* At most MaxConcurrent conversions hold a slot, whatever overlaps, is rejected
\* or dies, unless the key expired between two commands of one request.
THEOREM ConversionsKeepCap == ConversionSpec => []CapKept
<1> QED BY ConversionInvariant, SlotIInvKeepsCap, PTL

\* No slot is reclaimed while a conversion runs under it.
THEOREM ConversionsNeverReclaimed == ConversionSpec => NeverReclaimedMidRun
<1>1. SlotIInv /\ [ConversionNext]_slotVars
        => [Present(key) /\ ~Present(key') => Holders = {}]_slotVars
  BY ConversionStep, ExpiryFindsNoHolder DEF SlotIInv
<1> QED BY ConversionInvariant, <1>1, PTL DEF ConversionSpec, NeverReclaimedMidRun

-----------------------------------------------------------------------------
(* The OCR requests *)

\* Each step of an OCR request is a step of the limiter, or leaves it alone.
LEMMA OcrStep ==
    ASSUME SlotTypeOK, KeyOutlives, OcrNext
    PROVE  [LimiterStep]_slotVars
<1> USE DEF LimiterStep
<1>1. ASSUME NEW r \in Requests, RateIncr(r) PROVE Outside(r)
  <2>1. request' = [request EXCEPT ![r] = Stand(RateStep(rate'.val), 0, 0)]
    BY <1>1 DEF RateIncr
  <2>2. RateStep(rate'.val) \in Uncounted
    BY DEF RateStep, Uncounted
  <2> QED BY <1>1, <2>1, <2>2, SlotlessStep DEF RateIncr
<1>2. ASSUME NEW r \in Requests, RateExpire(r) PROVE Outside(r)
  BY <1>2, GotoStep DEF RateExpire, Uncounted
<1>3. ASSUME NEW r \in Requests, Spend(r) PROVE Outside(r)
  BY <1>3, GotoStep DEF Spend, Uncounted
<1>4. ASSUME NEW r \in Requests, Refund(r) PROVE Outside(r)
  BY <1>4, SlotlessStep DEF Refund, Quit, Idle, Uncounted
<1>5. ASSUME NEW r \in Requests, Die(r) PROVE Outside(r)
  BY <1>5, SlotlessStep DEF Die, Leave, Quit, Idle, Uncounted
<1>6. ASSUME NEW r \in Requests, ReleaseOnce(r) PROVE StartRelease(r)
  BY <1>6, GotoStep DEF ReleaseOnce
<1>7. ASSUME NEW r \in Requests, Acquire(r) PROVE LimiterStep
  BY <1>7 DEF Acquire, Uncounted
<1>8. ASSUME NEW r \in Requests, Release(r) PROVE LimiterStep
  BY <1>8 DEF Release
<1>9. ASSUME NEW r \in Requests, Analyze(r) \/ LateAnswer(r) PROVE UNCHANGED slotVars
  BY <1>9 DEF Analyze, LateAnswer
<1>10. ASSUME OcrTick PROVE SlotTick
  BY <1>10 DEF OcrTick
<1> QED BY <1>1, <1>2, <1>3, <1>4, <1>5, <1>6, <1>7, <1>8, <1>9, <1>10
           DEF OcrNext, Finish, CloseEarly

\* The limiter's invariant is one of the OCR requests.
LEMMA OcrSlotInvariant == OcrSpec => []SlotIInv
<1>1. SlotIInv /\ [OcrNext]_ocrVars => SlotIInv'
  BY OcrStep, SlotIInvStep DEF SlotIInv, ocrVars
<1>2. OcrInit => SlotIInv
  BY SlotIInvInit DEF OcrInit
<1> QED BY <1>1, <1>2, PTL DEF OcrSpec

\* At most MaxConcurrent OCR requests hold a slot, released by "finish" or by
\* "close", unless the key expired between two commands of one request.
THEOREM OcrKeepsCap == OcrSpec => []CapKept
<1> QED BY OcrSlotInvariant, SlotIInvKeepsCap, PTL

-----------------------------------------------------------------------------
(* The daily budget *)

\* Only requests are unspent or refunding.
LEMMA FiniteBudget == /\ IsFiniteSet(Unspent) /\ Cardinality(Unspent) \in Nat
                      /\ IsFiniteSet(Refunding) /\ Cardinality(Refunding) \in Nat
<1>1. Unspent \in SUBSET Requests /\ Refunding \in SUBSET Requests
  BY DEF Unspent, Refunding
<1> QED BY <1>1, RequestsAssumption, FS_Subset, FS_CardinalityType

\* The state that the requests add keeps its type.
LEMMA OcrTyped ==
    ASSUME OcrTypeOK, OcrNext, SlotTypeOK', BudgetCovers
    PROVE  OcrTypeOK'
<1> USE OcrAssumption DEF OcrTypeOK
<1>1. ASSUME NEW r \in Requests, RateIncr(r) PROVE OcrTypeOK'
  BY <1>1, Commands DEF RateIncr
<1>2. ASSUME NEW r \in Requests, RateExpire(r) PROVE OcrTypeOK'
  BY <1>2, Commands DEF RateExpire
<1>3. ASSUME NEW r \in Requests, Spend(r) PROVE OcrTypeOK'
  BY <1>3 DEF Spend
<1>4. ASSUME NEW r \in Requests, Refund(r) PROVE OcrTypeOK'
  <2>1. Refunding # {}
    BY <1>4 DEF Refund, Refunding
  <2>2. budget # 0
    BY <2>1, FiniteBudget, FS_EmptySet DEF BudgetCovers
  <2> QED BY <1>4, <2>2 DEF Refund
<1>5. ASSUME NEW r \in Requests, Acquire(r) PROVE OcrTypeOK'
  BY <1>5 DEF Acquire
<1>6. ASSUME NEW r \in Requests, Analyze(r) PROVE OcrTypeOK'
  BY <1>6 DEF Analyze
<1>7. ASSUME NEW r \in Requests, Finish(r) PROVE OcrTypeOK'
  BY <1>7 DEF Finish, ReleaseOnce
<1>8. ASSUME NEW r \in Requests, CloseEarly(r) PROVE OcrTypeOK'
  BY <1>8 DEF CloseEarly, ReleaseOnce
<1>9. ASSUME NEW r \in Requests, Release(r) PROVE OcrTypeOK'
  BY <1>9 DEF Release
<1>10. ASSUME NEW r \in Requests, LateAnswer(r) PROVE OcrTypeOK'
  BY <1>10 DEF LateAnswer
<1>11. ASSUME NEW r \in Requests, Die(r) PROVE OcrTypeOK'
  BY <1>11 DEF Die
<1>12. CASE OcrTick
  BY <1>12, Commands DEF OcrTick
<1> QED BY <1>1, <1>2, <1>3, <1>4, <1>5, <1>6, <1>7, <1>8, <1>9, <1>10, <1>11, <1>12
           DEF OcrNext

\* A step that touches neither counter and entitles nobody keeps the bounds.
LEMMA NobodyEntitled ==
    ASSUME OcrTypeOK, BudgetCovers, budget' = budget, calls' = calls,
           Unspent' \subseteq Unspent, Refunding' \subseteq Refunding
    PROVE  BudgetCovers'
<1>1. /\ Cardinality(Unspent') <= Cardinality(Unspent)
      /\ Cardinality(Refunding') <= Cardinality(Refunding)
      /\ Cardinality(Unspent') \in Nat /\ Cardinality(Refunding') \in Nat
  BY FiniteBudget, FS_Subset, FS_CardinalityType
<1> QED BY <1>1, FiniteBudget, OcrAssumption DEF BudgetCovers, OcrTypeOK

\* The budget always covers the calls made, those still to come and the
\* refunds still owed.
LEMMA BudgetStep ==
    ASSUME OcrTypeOK, BudgetCovers, OcrNext
    PROVE  BudgetCovers'
<1> USE DEF OcrTypeOK, SlotTypeOK
<1>1. ASSUME NEW r \in Requests, RateIncr(r) PROVE BudgetCovers'
  BY <1>1, NobodyEntitled DEF RateIncr, RateStep, Stand, Idle, Unspent, Refunding, IsAt
<1>2. ASSUME NEW r \in Requests, RateExpire(r) PROVE BudgetCovers'
  BY <1>2, NobodyEntitled DEF RateExpire, Goto, Stand, Unspent, Refunding, IsAt
<1>3. ASSUME NEW r \in Requests, Spend(r) PROVE BudgetCovers'
  <2>1. /\ budget' = budget + 1 /\ calls' = calls /\ calling' = calling
        /\ request[r].at = "budget"
    BY <1>3 DEF Spend, IsAt
  <2>2. r \notin Unspent /\ r \notin Refunding
    BY <2>1 DEF Unspent, Refunding, IsAt
  <2>3. CASE budget' > DailyBudget
    <3>1. Unspent' = Unspent /\ Refunding' = Refunding \cup {r}
      BY <1>3, <2>1, <2>3 DEF Spend, Goto, Stand, Unspent, Refunding, IsAt
    <3>2. Cardinality(Refunding') = Cardinality(Refunding) + 1
      BY <2>2, <3>1, FiniteBudget, FS_AddElement
    <3> QED BY <2>1, <3>1, <3>2, FiniteBudget DEF BudgetCovers
  <2>4. CASE ~(budget' > DailyBudget)
    <3>1. Unspent' = Unspent \cup {r} /\ Refunding' = Refunding
      BY <1>3, <2>1, <2>4 DEF Spend, Goto, Stand, Unspent, Refunding, IsAt
    <3>2. Cardinality(Unspent') = Cardinality(Unspent) + 1
      BY <2>2, <3>1, FiniteBudget, FS_AddElement
    <3> QED BY <2>1, <2>4, <3>1, <3>2, FiniteBudget, OcrAssumption DEF BudgetCovers
  <2> QED BY <2>3, <2>4
<1>4. ASSUME NEW r \in Requests, Refund(r) PROVE BudgetCovers'
  <2>1. /\ budget' = budget - 1 /\ calls' = calls
        /\ Unspent' = Unspent /\ r \in Refunding /\ Refunding' = Refunding \ {r}
    BY <1>4 DEF Refund, Quit, Idle, Stand, Unspent, Refunding, IsAt
  <2>2. Cardinality(Refunding') = Cardinality(Refunding) - 1
    BY <2>1, FiniteBudget, FS_RemoveElement
  <2> QED BY <2>1, <2>2, FiniteBudget DEF BudgetCovers
<1>5. ASSUME NEW r \in Requests, Acquire(r) PROVE BudgetCovers'
  <2>1. budget' = budget /\ calls' = calls /\ calling' = calling
    BY <1>5 DEF Acquire
  <2>2. Unspent' \subseteq Unspent /\ Refunding' \subseteq Refunding
    BY <1>5, <2>1 DEF Acquire, IncrSlot, ExpireSlot, DecrDenied, Goto, Quit, Idle, Stand,
                      Unspent, Refunding, IsAt
  <2> QED BY <2>1, <2>2, NobodyEntitled
<1>6. ASSUME NEW r \in Requests, Analyze(r) PROVE BudgetCovers'
  <2>1. /\ budget' = budget /\ calls' = calls + 1 /\ request' = request
        /\ r \in Unspent /\ Refunding' = Refunding
    BY <1>6 DEF Analyze, slotVars, Unspent, Refunding, IsAt
  <2>2. Unspent' = Unspent \ {r}
    BY <1>6, <2>1 DEF Analyze, Unspent, IsAt
  <2>3. Cardinality(Unspent') = Cardinality(Unspent) - 1
    BY <2>1, <2>2, FiniteBudget, FS_RemoveElement
  <2> QED BY <2>1, <2>3, FiniteBudget DEF BudgetCovers
<1>7. ASSUME NEW r \in Requests, Finish(r) PROVE BudgetCovers'
  BY <1>7, NobodyEntitled DEF Finish, ReleaseOnce, Goto, Stand, Unspent, Refunding, IsAt
<1>8. ASSUME NEW r \in Requests, CloseEarly(r) PROVE BudgetCovers'
  BY <1>8, NobodyEntitled DEF CloseEarly, ReleaseOnce, Goto, Stand, Unspent, Refunding,
                              IsAt
<1>9. ASSUME NEW r \in Requests, Release(r) PROVE BudgetCovers'
  <2>1. budget' = budget /\ calls' = calls /\ calling' = calling
    BY <1>9 DEF Release
  <2>2. Unspent' \subseteq Unspent /\ Refunding' \subseteq Refunding
    BY <1>9, <2>1 DEF Release, DecrReleased, SetFloor, Goto, Quit, Idle, Stand, Unspent,
                      Refunding, IsAt
  <2> QED BY <2>1, <2>2, NobodyEntitled
<1>10. ASSUME NEW r \in Requests, LateAnswer(r) PROVE BudgetCovers'
  BY <1>10, NobodyEntitled DEF LateAnswer, slotVars, Unspent, Refunding, IsAt
<1>11. ASSUME NEW r \in Requests, Die(r) PROVE BudgetCovers'
  BY <1>11, NobodyEntitled DEF Die, Leave, Quit, Idle, Stand, Unspent, Refunding, IsAt
<1>12. CASE OcrTick
  <2>1. \A r \in Requests : request'[r].at = request[r].at
    BY <1>12 DEF OcrTick, SlotTick, RequestType
  <2>2. Unspent' = Unspent /\ Refunding' = Refunding
    BY <1>12, <2>1 DEF OcrTick, Unspent, Refunding, IsAt
  <2> QED BY <1>12, <2>2, NobodyEntitled DEF OcrTick
<1> QED BY <1>1, <1>2, <1>3, <1>4, <1>5, <1>6, <1>7, <1>8, <1>9, <1>10, <1>11, <1>12
           DEF OcrNext

\* The whole invariant, from the start on.
LEMMA OcrInvariant == OcrSpec => []OcrIInv
<1>1. OcrInit => OcrIInv
  <2> SUFFICES ASSUME OcrInit PROVE OcrIInv
    OBVIOUS
  <2>1. SlotIInv /\ Absent \in CounterType
    BY SlotIInvInit DEF OcrInit, Absent, CounterType, Persistent
  <2>2. Unspent = {} /\ Refunding = {}
    BY DEF OcrInit, SlotInit, Idle, Stand, Unspent, Refunding, IsAt
  <2>3. BudgetCovers
    BY <2>2, FS_EmptySet, OcrAssumption DEF OcrInit, BudgetCovers
  <2>4. OcrTypeOK
    BY <2>1 DEF OcrInit, OcrTypeOK, SlotIInv
  <2> QED BY <2>1, <2>3, <2>4 DEF OcrIInv
<1>2. OcrIInv /\ [OcrNext]_ocrVars => OcrIInv'
  <2> SUFFICES ASSUME OcrIInv, [OcrNext]_ocrVars PROVE OcrIInv'
    OBVIOUS
  <2>1. SlotIInv'
    BY OcrStep, SlotIInvStep DEF OcrIInv, SlotIInv, ocrVars
  <2>2. CASE OcrNext
    BY <2>1, <2>2, OcrTyped, BudgetStep DEF OcrIInv, SlotIInv
  <2>3. CASE UNCHANGED ocrVars
    <3>1. Unspent' = Unspent /\ Refunding' = Refunding
      BY <2>3 DEF ocrVars, slotVars, Unspent, Refunding, IsAt
    <3>2. BudgetCovers'
      BY <2>3, <3>1, NobodyEntitled DEF ocrVars, OcrIInv
    <3> QED BY <2>1, <2>3, <3>2 DEF ocrVars, OcrIInv, OcrTypeOK, SlotIInv
  <2> QED BY <2>2, <2>3
<1> QED BY <1>1, <1>2, PTL DEF OcrSpec

\* No day starts more Gemini calls than its budget allows, although the check
\* and the refund are separate commands and a request may die between them.
THEOREM OcrKeepsBudget == OcrSpec => []CallsWithinBudget
<1>1. OcrIInv => CallsWithinBudget
  BY FiniteBudget, OcrAssumption DEF OcrIInv, OcrTypeOK, BudgetCovers, CallsWithinBudget
<1> QED BY <1>1, OcrInvariant, PTL
=============================================================================

-------------------------- MODULE ConcurrencySlots --------------------------
(***************************************************************************)
(* The concurrency limiter of apps/api/src/redis/redis.service.ts:         *)
(* acquireConcurrencySlot and releaseConcurrencySlot on one key, command   *)
(* by command.  The controllers that use it (Conversions, OcrRequests) say *)
(* what a rejected command does and when a slot is released.               *)
(*                                                                         *)
(* Requests run in any number of API processes; a request that dies leaves *)
(* its count behind.  A command may hang for as long as Redis does (the    *)
(* client retries for ever), so only the work itself has a time limit.     *)
(***************************************************************************)
EXTENDS RedisCounter, FiniteSets

CONSTANTS
    Requests,        \* requests that can be in flight
    MaxConcurrent,   \* CONVERSION_MAX_CONCURRENT, OCR_MAX_CONCURRENT
    SlotTtl,         \* ttlSec
    RunMax,          \* the time limit of the work done under a slot
    MaxCount         \* bound: no INCR beyond this count

ASSUME RequestsAssumption == IsFiniteSet(Requests)
ASSUME MaxAssumption == MaxConcurrent \in Nat \ {0} /\ MaxCount \in Nat
\* "must exceed the longest possible held slot"
ASSUME SlotTtlAssumption == RunMax \in Nat /\ SlotTtl \in Nat /\ SlotTtl > RunMax

VARIABLES
    key,        \* the limiter's counter
    request,    \* where each request stands, the count its INCR returned, and
                \* how long it has been at work
    lapsed      \* history: the key expired between two commands of a request

slotVars == <<key, request, lapsed>>

\* "window" to "acquire" are the steps of an OCR request before the limiter;
\* "open" is a conversion at work without a slot.
SlotSteps == {"idle", "window", "budget", "refund", "acquire",
              "refresh", "deny", "held", "open", "release", "floor"}

RequestType == [at : SlotSteps, seen : Int, age : Nat]

SlotTypeOK ==
    /\ key \in CounterType
    /\ request \in [Requests -> RequestType]
    /\ lapsed \in BOOLEAN

Stand(step, n, t) == [at |-> step, seen |-> n, age |-> t]
Idle == Stand("idle", 0, 0)

IsAt(r, step) == request[r].at = step
Goto(r, step) == request' = [request EXCEPT ![r] = Stand(step, @.seen, @.age)]
Quit(r)       == request' = [request EXCEPT ![r] = Idle]

Working(r)  == request[r].at \in {"held", "open"}
\* Between two commands of one acquire or release.
Pending(r)  == request[r].at \in {"refresh", "deny", "release", "floor"}

SlotInit ==
    /\ key = Absent
    /\ request = [r \in Requests |-> Idle]
    /\ lapsed = FALSE

-----------------------------------------------------------------------------
(* acquireConcurrencySlot *)

\* from: the step of the controller that calls it.
IncrSlot(r, from) ==
    /\ IsAt(r, from)
    /\ key.val < MaxCount
    /\ key' = INCR(key)
    /\ request' = [request EXCEPT ![r] = Stand("refresh", key'.val, 0)]
    /\ UNCHANGED lapsed

\* Mutant of ExpireSlot: the life is set by the first acquire only.
ExpireFirstOnly(r) ==
    /\ IsAt(r, "refresh")
    /\ key' = IF request[r].seen = 1 THEN EXPIRE(key, SlotTtl) ELSE key
    /\ Goto(r, IF request[r].seen > MaxConcurrent THEN "deny" ELSE "held")
    /\ UNCHANGED lapsed

ExpireSlot(r) ==
    /\ IsAt(r, "refresh")
    /\ key' = EXPIRE(key, SlotTtl)
    /\ Goto(r, IF request[r].seen > MaxConcurrent THEN "deny" ELSE "held")
    /\ UNCHANGED lapsed

\* Not floored at zero, unlike the release.
DecrDenied(r) ==
    /\ IsAt(r, "deny")
    /\ key' = DECR(key)
    /\ Quit(r)
    /\ UNCHANGED lapsed

-----------------------------------------------------------------------------
(* releaseConcurrencySlot *)

DecrReleased(r) ==
    /\ IsAt(r, "release")
    /\ key' = DECR(key)
    /\ IF key'.val < 0 THEN Goto(r, "floor") ELSE Quit(r)
    /\ UNCHANGED lapsed

SetFloor(r) ==
    /\ IsAt(r, "floor")
    /\ key' = SET(0)
    /\ Quit(r)
    /\ UNCHANGED lapsed

-----------------------------------------------------------------------------
(* Failure and time *)

\* The process dies at any step, or a rejected command ends the request: what
\* it counted stays counted.
Leave(r) ==
    /\ request[r] # Idle
    /\ Quit(r)
    /\ UNCHANGED <<key, lapsed>>

\* The work's own timeout fires before RunMax is exceeded.
SlotTick ==
    /\ \A r \in Requests : Working(r) => request[r].age < RunMax
    /\ key' = Elapse(key)
    /\ request' = [r \in Requests |->
                      IF Working(r) THEN [request[r] EXCEPT !.age = @ + 1]
                                    ELSE request[r]]
    /\ lapsed' = (lapsed \/ (/\ Present(key) /\ ~Present(key')
                             /\ \E r \in Requests : Pending(r)))

-----------------------------------------------------------------------------
(* What the limiter promises *)

Holders == {r \in Requests : IsAt(r, "held")}

\* No more than MaxConcurrent requests work under a slot, whatever overlaps,
\* fails or dies, as long as the key does not expire between two commands of
\* one request: INCR, compare and DECR are not atomic, but INCR alone decides.
CapKept == ~lapsed => Cardinality(Holders) <= MaxConcurrent

\* "so a slot is never reclaimed mid-run": the key never expires under a
\* request at work, however the refreshes of others and their failures fall.
NeverReclaimedMidRun ==
    [][Present(key) /\ ~Present(key') => Holders = {}]_slotVars

-----------------------------------------------------------------------------
(* Why the cap is kept: an inductive strengthening *)

\* Requests whose INCR has not been taken back, and those that will hold.
Counted == {r \in Requests : request[r].at \in {"refresh", "deny", "held", "release"}}
Winners == {r \in Requests : /\ request[r].at \in {"refresh", "held"}
                             /\ request[r].seen <= MaxConcurrent}

\* A key with an expiry outlives every request at work.
KeyOutlives ==
    /\ ~Present(key) => key.val = 0
    /\ \A r \in Requests :
        /\ request[r].age <= RunMax
        /\ IsAt(r, "held") => request[r].seen <= MaxConcurrent
        /\ IsAt(r, "held") /\ key.ttl > 0 => key.ttl + request[r].age >= SlotTtl

\* Deaths only leave the counter too high.
CountsEnough ==
    ~lapsed => /\ key.val >= Cardinality(Counted)
               /\ Cardinality(Winners) <= MaxConcurrent
               /\ \A r \in Requests : ~IsAt(r, "floor")

SlotIInv == SlotTypeOK /\ KeyOutlives /\ CountsEnough

-----------------------------------------------------------------------------
\* "lets the counter self-heal once traffic stops": a count leaked by a request
\* that died does not outlive the traffic.
SelfHeals ==
    (<>[](\A r \in Requests : request[r] = Idle)) => <>[](key.val = 0)
=============================================================================

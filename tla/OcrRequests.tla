---------------------------- MODULE OcrRequests -----------------------------
(***************************************************************************)
(* POST pdf-to-docx/analyze-ocr: analyzeOcr of                             *)
(* apps/api/src/ocr/ocr.controller.ts with rateLimit and consumeDailyBudget*)
(* of redis.service.ts and analyze of ocr.service.ts.                      *)
(*                                                                         *)
(* The clients here share one address and one UTC day: one rate key, one   *)
(* budget key.  The budget key's 24 hours outlast the day it is named for, *)
(* so its EXPIRE is left out.  A rejected command is a 500: Die.           *)
(***************************************************************************)
EXTENDS ConcurrencySlots

CONSTANTS
    RateMax,       \* OCR_RATE_LIMIT_MAX
    WindowTtl,     \* OCR_RATE_LIMIT_WINDOW_MS
    DailyBudget,   \* OCR_DAILY_BUDGET
    MaxBudget      \* bound: no INCR of the budget beyond this value

ASSUME OcrAssumption ==
    /\ RateMax \in Nat \ {0} /\ WindowTtl \in Nat \ {0}
    /\ DailyBudget \in Nat /\ MaxBudget \in Nat

VARIABLES
    rate,      \* the rate limiter's key
    budget,    \* the value of the day's budget key
    calls,     \* Gemini calls started this day
    calling    \* whether a Gemini call of the request is still running

ocrVars == <<slotVars, rate, budget, calls, calling>>

OcrTypeOK ==
    /\ SlotTypeOK
    /\ rate \in CounterType
    /\ budget \in Nat
    /\ calls \in Nat
    /\ calling \in [Requests -> BOOLEAN]

OcrInit ==
    /\ SlotInit
    /\ rate = Absent
    /\ budget = 0 /\ calls = 0
    /\ calling = [r \in Requests |-> FALSE]

-----------------------------------------------------------------------------
(* rateLimit: INCR, then EXPIRE if this INCR opened the window *)

\* A refused request is answered 429 and is over.
RateStep(n) == IF n = 1 THEN "window" ELSE IF n <= RateMax THEN "budget" ELSE "idle"

\* Bound: once a window has refused a request it counts no further one.
RateIncr(r) ==
    /\ request[r] = Idle /\ ~calling[r]
    /\ rate.val <= RateMax
    /\ rate' = INCR(rate)
    /\ request' = [request EXCEPT ![r] = Stand(RateStep(rate'.val), 0, 0)]
    /\ UNCHANGED <<key, lapsed, budget, calls, calling>>

RateExpire(r) ==
    /\ IsAt(r, "window")
    /\ rate' = EXPIRE(rate, WindowTtl)
    /\ Goto(r, "budget")
    /\ UNCHANGED <<key, lapsed, budget, calls, calling>>

-----------------------------------------------------------------------------
(* consumeDailyBudget: INCR, and DECR again if that was over the limit *)

\* Mutant of Spend: the budget still left is compared before it is consumed.
SpendOneMore(r) ==
    /\ IsAt(r, "budget")
    /\ budget < MaxBudget
    /\ budget' = budget + 1
    /\ Goto(r, IF budget > DailyBudget THEN "refund" ELSE "acquire")
    /\ UNCHANGED <<key, lapsed, rate, calls, calling>>

Spend(r) ==
    /\ IsAt(r, "budget")
    /\ budget < MaxBudget
    /\ budget' = budget + 1
    /\ Goto(r, IF budget' > DailyBudget THEN "refund" ELSE "acquire")
    /\ UNCHANGED <<key, lapsed, rate, calls, calling>>

Refund(r) ==
    /\ IsAt(r, "refund")
    /\ budget' = budget - 1
    /\ Quit(r)
    /\ UNCHANGED <<key, lapsed, rate, calls, calling>>

-----------------------------------------------------------------------------
(* The slot, the listeners that release it, and the call *)

Acquire(r) ==
    /\ IncrSlot(r, "acquire") \/ ExpireSlot(r) \/ DecrDenied(r)
    /\ UNCHANGED <<rate, budget, calls, calling>>

\* The body is valid and the key configured: generateContent is on its way.
Analyze(r) ==
    /\ IsAt(r, "held") /\ ~calling[r]
    /\ calls' = calls + 1
    /\ calling' = [calling EXCEPT ![r] = TRUE]
    /\ UNCHANGED <<slotVars, rate, budget>>

\* Mutant of ReleaseOnce: "finish" and "close" each release.
ReleaseOnEachEvent(r) ==
    /\ IsAt(r, "held")
    /\ Goto(r, "release")
    /\ key' = DECR(key)
    /\ UNCHANGED <<lapsed, rate, budget, calls>>

ReleaseOnce(r) ==
    /\ IsAt(r, "held")
    /\ Goto(r, "release")
    /\ UNCHANGED <<key, lapsed, rate, budget, calls>>

\* "finish": the response was sent, with the layout or with an error.
Finish(r) ==
    /\ ReleaseOnce(r)
    /\ calling' = [calling EXCEPT ![r] = FALSE]

\* "finish" of the 504 of withTimeout, whose race does not cancel the call, or
\* "close" because the client left: the slot is released, the call runs on.
CloseEarly(r) ==
    /\ ReleaseOnce(r)
    /\ calling[r]
    /\ UNCHANGED calling

Release(r) ==
    /\ DecrReleased(r) \/ SetFloor(r)
    /\ UNCHANGED <<rate, budget, calls, calling>>

\* Gemini answers a call nobody waits for any more.
LateAnswer(r) ==
    /\ calling[r] /\ ~IsAt(r, "held")
    /\ calling' = [calling EXCEPT ![r] = FALSE]
    /\ UNCHANGED <<slotVars, rate, budget, calls>>

\* The process dies, Redis rejects, or the client had left before the listeners
\* were attached, so that no event releases the slot.
Die(r) ==
    /\ Leave(r)
    /\ calling' = [calling EXCEPT ![r] = FALSE]
    /\ UNCHANGED <<rate, budget, calls>>

OcrTick ==
    /\ SlotTick
    /\ rate' = Elapse(rate)
    /\ UNCHANGED <<budget, calls, calling>>

OcrNext ==
    \/ \E r \in Requests :
        \/ RateIncr(r) \/ RateExpire(r)
        \/ Spend(r) \/ Refund(r)
        \/ Acquire(r) \/ Analyze(r) \/ Finish(r) \/ CloseEarly(r) \/ Release(r)
        \/ LateAnswer(r)
        \/ Die(r)
    \/ OcrTick

OcrSpec == OcrInit /\ [][OcrNext]_ocrVars

-----------------------------------------------------------------------------
\* No day starts more Gemini calls than its budget, although an INCR over the
\* limit is only undone afterwards, or never if the process dies in between.
CallsWithinBudget == calls <= DailyBudget

\* Why: a request that may still start its call, or owes a DECR, is counted.
Unspent == {r \in Requests : \/ request[r].at \in {"acquire", "refresh"}
                             \/ IsAt(r, "held") /\ ~calling[r]}
Refunding == {r \in Requests : IsAt(r, "refund")}

BudgetCovers ==
    /\ budget >= calls + Cardinality(Unspent) + Cardinality(Refunding)
    /\ calls + Cardinality(Unspent) <= DailyBudget

OcrIInv == OcrTypeOK /\ SlotIInv /\ BudgetCovers

\* "a concurrency cap (2 in flight)": of the calls that cost money.
CallsCapped == Cardinality({r \in Requests : calling[r]}) <= MaxConcurrent
=============================================================================

---------------------------- MODULE Conversions -----------------------------
(***************************************************************************)
(* POST conversions/office-to-pdf: officeToPdf of                          *)
(* apps/api/src/conversions/conversions.controller.ts around the limiter.  *)
(* It fails open: whatever Redis rejects, the conversion runs, and then    *)
(* without a slot, even if its INCR was counted.                           *)
(***************************************************************************)
EXTENDS ConcurrencySlots

\* The handler's catch of the acquire: any of its commands may reject.
AcquireRejected(r) ==
    /\ request[r].at \in {"idle", "refresh", "deny"}
    /\ request' = [request EXCEPT ![r] = Stand("open", 0, 0)]
    /\ UNCHANGED <<key, lapsed>>

\* Mutant of Converted: the finally block releases, held or not.
ConvertedAlwaysReleases(r) ==
    /\ Working(r)
    /\ request' = [request EXCEPT ![r] = Stand("release", 0, 0)]
    /\ UNCHANGED <<key, lapsed>>

\* officeToPdf returned, failed or timed out: the finally block releases.
Converted(r) ==
    /\ Working(r)
    /\ request' = [request EXCEPT ![r] =
                      IF @.at = "held" THEN Stand("release", 0, 0) ELSE Idle]
    /\ UNCHANGED <<key, lapsed>>

AcquireSlot(r) == IncrSlot(r, "idle") \/ ExpireSlot(r) \/ DecrDenied(r)
ReleaseSlot(r) == DecrReleased(r) \/ SetFloor(r)

ConversionNext ==
    \/ \E r \in Requests :
        \/ AcquireSlot(r)
        \/ AcquireRejected(r)
        \/ Converted(r)
        \/ ReleaseSlot(r)
        \/ Leave(r)
    \/ SlotTick

ConversionSpec == SlotInit /\ [][ConversionNext]_slotVars

\* The clock runs; nothing is assumed of the requests.
FairConversionSpec == ConversionSpec /\ WF_slotVars(SlotTick)
=============================================================================

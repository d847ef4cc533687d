------------------------------ MODULE MCSlots -------------------------------
(***************************************************************************)
(* The limiter under each of its two callers: three requests, all of them  *)
(* office conversions or all of them OCR requests of one client.           *)
(***************************************************************************)
EXTENDS Conversions, OcrRequests, TLC

CONSTANTS r1, r2, r3

VARIABLE caller

\* Requests are only ever compared for equality.
Exchangeable == Permutations(Requests)

SlotsInit == caller \in {"conversions", "ocr"} /\ OcrInit

SlotsNext ==
    /\ \/ /\ caller = "conversions" /\ ConversionNext
          /\ UNCHANGED <<rate, budget, calls, calling>>
       \/ caller = "ocr" /\ OcrNext
    /\ UNCHANGED caller

SlotsSpec == SlotsInit /\ [][SlotsNext]_<<caller, ocrVars>>
=============================================================================

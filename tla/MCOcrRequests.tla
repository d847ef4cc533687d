--------------------------- MODULE MCOcrRequests ----------------------------
(* Three OCR requests of one client on one day. *)
EXTENDS OcrRequests

CONSTANTS r1, r2, r3

=============================================================================

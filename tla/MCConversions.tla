--------------------------- MODULE MCConversions ----------------------------
(* Three conversions, two slots. *)
EXTENDS Conversions

CONSTANTS r1, r2, r3
=============================================================================

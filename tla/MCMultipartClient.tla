------------------------- MODULE MCMultipartClient -------------------------
(* Three parts on two workers, two tries of a part and one resume. *)
EXTENDS MultipartClient

CONSTANTS w1, w2
=============================================================================

--------------------------- MODULE MCUploadSystem ---------------------------
(* One session at a time, two request slots, one cleanup run. *)
EXTENDS UploadSystem

CONSTANTS s1, s2, p1, p2, c1, NumParts

\* One session, of NumParts parts.
MCTotalParts == [s \in {s1} |-> NumParts]

\* A single upload or a multipart one of NumParts parts, whichever starts first.
MCBothModes == [s \in {s1, s2} |-> IF s = s1 THEN 1 ELSE NumParts]
Started     == {s \in Sessions : session[s] # "none" \/ upload[s] # "none"}
OneUpload   == Cardinality(Started) <= 1
=============================================================================

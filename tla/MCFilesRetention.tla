-------------------------- MODULE MCFilesRetention --------------------------
(* Two single uploads, one cleanup run, a batch that may be too small. *)
EXTENDS FilesRetention

CONSTANTS f1, f2, c1

MCTotalParts == [s \in Sessions |-> 1]
=============================================================================

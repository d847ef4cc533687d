---------------------------- MODULE FileLifecycle ----------------------------
(***************************************************************************)
(* What the service promises of one uploaded file, with no requests, rows  *)
(* or buckets in it.  A file is published at most once, only while it is   *)
(* pending; what is published is there until its time to live is over, and *)
(* what failed or expired never comes back.  A file whose handlers raced   *)
(* is disputed: nothing is promised of it any more.                        *)
(***************************************************************************)
CONSTANT Files

VARIABLE stage

Stages == {"absent", "pending", "available", "failed", "expired", "disputed"}

Moves ==
    {<<"absent", "pending">>,
     <<"pending", "available">>, <<"pending", "failed">>, <<"pending", "expired">>,
     <<"available", "expired">>,
     <<"failed", "expired">>}

MayMove(a, b) == a = b \/ <<a, b>> \in Moves \/ b = "disputed"

Init == stage = [f \in Files |-> "absent"]

\* The clock can end several files at once.
Next == /\ stage' \in [Files -> Stages]
        /\ \A f \in Files : MayMove(stage[f], stage'[f])

Spec == Init /\ [][Next]_stage
=============================================================================

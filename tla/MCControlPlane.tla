--------------------------- MODULE MCControlPlane ---------------------------
(* Endings of a worker for TLC: a shortage after which the order is still   *)
(* delivered; a delivery or a block; a shortage followed by the question to *)
(* the operator.                                                            *)
EXTENDS ControlPlane, TLC

LateDelivery == {<<"TARGET_SHORTAGE", "DELIVERY_COMPLETED", "JOB_COMPLETED">>}

CompletedOrBlocked == {<<"DELIVERY_COMPLETED", "JOB_COMPLETED">>, <<"JOB_BLOCKED">>}

AskedAboutShortage == {<<"TARGET_SHORTAGE", "HUMAN_DECISION_REQUIRED">>}

(* StatusAfter is what ingest_event makes of one row after another. *)
ASSUME StatusesAssumption ==
    \A s \in JobStatuses, rows \in SeqOf(Events, 3) :
       StatusAfter(s, rows) = FoldLeft(JobAfter, s, rows)

ThreadsAlike == Permutations(Threads)
=============================================================================

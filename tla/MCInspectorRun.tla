--------------------------- MODULE MCInspectorRun ---------------------------
(* Two runs of the inspector tab and a retry after them, perhaps the retry  *)
(* of a retry; and what becomes of two runs, followed to their end.         *)
EXTENDS InspectorRun

VARIABLE part

MCInit == part \in {"retries", "ends"} /\ Init

MCNext ==
    /\ Next /\ UNCHANGED part
    /\ part = "ends" => runs' <= 2
    /\ runs' = 3 => lastRequest'.merging

\* the fairness of Spec, for the part that is followed
MCSpec ==
    /\ MCInit /\ [][MCNext]_<<part, vars>>
    /\ WF_vars(part = "ends" /\ EventLoop)
    /\ WF_vars(part = "ends" /\ Worker)

\* Every run of the followed part ends (InspectorRun).
FollowedRunsEnd == part = "ends" => RunsEnd
=============================================================================

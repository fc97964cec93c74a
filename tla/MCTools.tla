------------------------------ MODULE MCTools ------------------------------
(* The tools of the diagnostics tabs and of the settings page on small     *)
(* instances.  They share nothing but the window, so one behaviour moves   *)
(* one of them and the run is the union.                                   *)
EXTENDS ReachChecks, ToolRequests, ToolCaches

CONSTANTS a, b, s1, s2, h1, h2, m1, m2, r1, r2    \* model values

VARIABLE part

allVars == <<part, reachVars, toolVars, cacheVars>>

\* two targets, and one given twice
Lists == {<<a, b>>, <<a, a>>}

Init ==
    /\ part \in {"reach", "commands", "lookup", "stream", "arp", "oui", "servers", "paths"}
    /\ ReachInit /\ ToolInit /\ CacheInit
    \* the parts that stand still start in one state
    /\ part = "oui" \/ ouiFile = None
    /\ part = "servers" \/ servers.file = 0

Reach == part = "reach" /\ ReachNext /\ UNCHANGED <<part, toolVars, cacheVars>>

Tools ==
    /\ \/ part = "commands" /\ CommandNext
       \/ part = "lookup" /\ LookupNext
       \/ part = "stream" /\ StreamNext
       \/ part = "arp" /\ ArpNext
    /\ UNCHANGED <<part, reachVars, cacheVars>>

Caches ==
    /\ \/ part = "oui" /\ OuiNext
       \/ part = "servers" /\ ServersNext
       \/ part = "paths" /\ PathNext
    /\ UNCHANGED <<part, reachVars, toolVars>>

Next == Reach \/ Tools \/ Caches

Spec == Init /\ [][Next]_allVars /\ ReachFairness /\ StreamFairness

----------------------------------------------------------------------------

\* Each table of the checks is of the run that is shown (ping.py, tcp.py); the output
\* pane has an answer of the last request or none (tools.py FinishToolsRequest); and the
\* ARP table calls a conflict exactly what differs from the last scan of the same text,
\* whatever late answers, cancels and edited boxes come in between.
ToolAnswersAreCurrent ==
    ReachTableIsOfThisRun /\ OutputIsOfTheLastRequest /\ ConflictIsOfTheSameText

\* the jobs that were told to stop
StoppedJobs ==
    {j \in {"check", "stream"} :
        \/ j = "check" /\ check.running /\ check.cancelled
        \/ j = "stream" /\ stream.busy /\ stream.cancelled}

\* A check and a streamed command that were told to stop end and their page can be
\* used again, also a continuous ping or a process that would run for ever
\* (process_utils.py, ping_service.py, tcp_check_service.py).
StoppedJobsEnd == StoppedJobs # {} ~> StoppedJobs = {}
=============================================================================

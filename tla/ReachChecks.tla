---------------------------- MODULE ReachChecks ----------------------------
(* The Ping and TCP pages of the diagnostics tab (app/ui/tabs/diagnostics/   *)
(* ping.py, tcp.py) with their services (ping_service.py,                    *)
(* tcp_check_service.py): a job starts one pool thread for each target, the  *)
(* threads read their process line by line (or try the socket themselves)    *)
(* and post a progress signal for each counted line, and the window applies  *)
(* the signals in the order they were posted.                                *)
(* The two pages share no state: a run of the model is a run of one of them, *)
(* chosen when it starts.                                                    *)
EXTENDS Naturals, Sequences

CONSTANTS
    ReachKeys,     \* (name, target[, port]) keys
    TargetLists,   \* what the user may enter: a list of keys, one also twice
    MaxProbes,     \* the count field; also the bound on a continuous run's lines
    MaxChecks      \* bound: jobs started

ASSUME ReachAssumption ==
    /\ TargetLists \subseteq Seq(ReachKeys) \ {<<>>}
    /\ MaxProbes \in Nat \ {0}
    /\ MaxChecks \in Nat

VARIABLES
    check,      \* the page: run number, means, options, running, cancel event
    probes,     \* the job's pool threads
    ended,      \* for each key its result, the last one completed if the key is there twice
    reachMail,  \* signals posted by the job, not yet applied
    reachRows,  \* the table: what each key's row shows
    reachLabel  \* prefix of the status line

reachVars == <<check, probes, ended, reachMail, reachRows, reachLabel>>

NoRow == [run |-> 0, sent |-> 0, got |-> 0, status |-> "none"]
IdleJob == [run |-> 0, means |-> "ping", continuous |-> FALSE, running |-> FALSE,
            cancelled |-> FALSE, stopButton |-> FALSE, job |-> "none", closing |-> FALSE]

ReachInit ==
    /\ check = IdleJob
    /\ probes = <<>>
    /\ ended = [k \in ReachKeys |-> NoRow]
    /\ reachMail = <<>>
    /\ reachRows = [k \in ReachKeys |-> NoRow]
    /\ reachLabel = "none"

----------------------------------------------------------------------------
NewProbe(k) == [key |-> k, stage |-> "spawn", sent |-> 0, got |-> 0, alive |-> TRUE,
                lines |-> 0, sumSent |-> 0, sumGot |-> 0]   \* of tcping's summary, as far as it is read

(* parse_target_entries makes one entry of each line, the same line twice    *)
(* stays two entries; parse_port_list removes duplicates.                    *)
(* start_ping and start_tcp_check clear the table and the label before the   *)
(* worker is queued; _start_worker starts nothing for a window that closed.   *)
StartCheck(means, entries, continuous) ==
    /\ ~check.running /\ ~check.closing /\ check.run < MaxChecks
    /\ check' = [check EXCEPT !.run = @ + 1, !.means = means, !.continuous = continuous,
                              !.running = TRUE, !.stopButton = TRUE, !.cancelled = FALSE,
                              !.job = "working"]
    /\ probes' = [i \in DOMAIN entries |-> NewProbe(entries[i])]
    /\ ended' = [k \in ReachKeys |-> NoRow]
    /\ reachRows' = [k \in ReachKeys |-> NoRow]
    /\ reachLabel' = "running"
    /\ UNCHANGED reachMail

StartPing(entries, continuous) == StartCheck("ping", entries, continuous)

StartTcpCheck(entries, continuous) ==
    \E means \in {"tcping", "socket"} : StartCheck(means, entries, continuous)

CancelCheck ==
    /\ check.running /\ check.stopButton
    /\ check' = [check EXCEPT !.cancelled = TRUE, !.stopButton = FALSE]
    /\ reachLabel' = "stop asked"
    /\ UNCHANGED <<probes, ended, reachMail, reachRows>>

(* The page's part of DiagnosticsTab.shutdown.                               *)
ReachShutdown ==
    /\ ~check.closing
    /\ check' = [check EXCEPT !.closing = TRUE, !.cancelled = TRUE]
    /\ UNCHANGED <<probes, ended, reachMail, reachRows, reachLabel>>

----------------------------------------------------------------------------
(* The pool threads.                                                         *)
Goes(i, record) == probes' = [probes EXCEPT ![i] = record]
PageUnchanged == UNCHANGED <<check, ended, reachRows, reachLabel>>

LastStatus(means, replied) ==
    CASE replied          -> "normal"
      [] ~replied /\ means = "ping" -> "timed out"
      [] OTHER            -> "no answer"

Counted(p, replied) ==
    [p EXCEPT !.sent = @ + 1, !.got = IF replied THEN @ + 1 ELSE @, !.stage = "look"]

Progress(p, replied) ==
    [kind |-> "progress", key |-> p.key,
     row |-> [run |-> check.run, sent |-> p.sent, got |-> p.got,
              status |-> LastStatus(check.means, replied)]]

(* Popen may fail (no such program); the socket check has nothing to start.  *)
Spawn(i) ==
    /\ probes[i].stage = "spawn"
    /\ \/ Goes(i, [probes[i] EXCEPT !.stage = "look", !.alive = check.means # "socket"])
       \/ /\ check.means # "socket"
          /\ Goes(i, [probes[i] EXCEPT !.stage = "raised", !.alive = FALSE])
    /\ UNCHANGED reachMail
    /\ PageUnchanged

LookForStopNever(i) ==      \* MUTANT: the reading loop forgets the cancel event
    /\ probes[i].stage = "look"
    /\ Goes(i, [probes[i] EXCEPT !.stage = "read"])
    /\ UNCHANGED reachMail
    /\ PageUnchanged

(* Top of each loop: the cancel event kills the process and ends the loop;   *)
(* the socket loop also ends when it has tried often enough.                 *)
LookForStop(i) ==
    /\ probes[i].stage = "look"
    /\ IF check.cancelled
       THEN Goes(i, [probes[i] EXCEPT !.stage = "sum", !.alive = FALSE])
       ELSE IF check.means = "socket" /\ ~check.continuous /\ probes[i].sent >= MaxProbes
       THEN Goes(i, [probes[i] EXCEPT !.stage = "sum"])
       ELSE Goes(i, [probes[i] EXCEPT !.stage = "read"])
    /\ UNCHANGED reachMail
    /\ PageUnchanged

(* A counted line of ping: a reply, a timeout or an unreachable host. No     *)
(* line to count follows a summary.                                          *)
CountLine(i) ==
    /\ probes[i].stage = "read" /\ probes[i].lines = 0
    /\ probes[i].sent < MaxProbes
    /\ \E replied \in BOOLEAN :
         LET p == Counted(probes[i], replied) IN
         /\ Goes(i, p)
         /\ reachMail' = Append(reachMail, Progress(p, replied))
    /\ PageUnchanged

ReadPingLine(i)   == check.means = "ping" /\ probes[i].alive /\ CountLine(i)
ReadTcpingLine(i) == check.means = "tcping" /\ probes[i].alive /\ CountLine(i)

(* The summary of a tcping that was not asked to go on for ever: a line with *)
(* how many probes were sent, then a line with how many answered, each read  *)
(* in a turn of its own. They may tell of probes whose line is not one that  *)
(* is counted.                                                               *)
ReadSummaryLine(i) ==
    /\ check.means = "tcping" /\ ~check.continuous
    /\ probes[i].stage = "read" /\ probes[i].alive
    /\ \/ /\ probes[i].lines = 0
          /\ \E n \in probes[i].sent .. MaxProbes :
               Goes(i, [probes[i] EXCEPT !.stage = "look", !.lines = 1, !.sumSent = n])
       \/ /\ probes[i].lines = 1
          /\ \E n \in probes[i].got .. probes[i].sumSent - (probes[i].sent - probes[i].got) :
               Goes(i, [probes[i] EXCEPT !.stage = "look", !.lines = 2, !.sumGot = n])
    /\ UNCHANGED reachMail
    /\ PageUnchanged

(* socket.create_connection and the second look at the event after it (the   *)
(* next "look" finds the same event set).                                    *)
TryConnection(i)  == check.means = "socket" /\ CountLine(i)

(* Nothing to count within 0.2 s: no line, a blank or an unknown one; a      *)
(* continuous socket loop only pauses.                                       *)
ReadNothing(i) ==
    /\ probes[i].stage = "read"
    /\ check.means = "socket" => probes[i].sent = MaxProbes
    /\ Goes(i, [probes[i] EXCEPT !.stage = "look"])
    /\ UNCHANGED reachMail
    /\ PageUnchanged

(* The process ends, after its count or early (unknown host), and the queue  *)
(* of its lines is empty: the end is seen after the last line.               *)
ProcessEnds(i) ==
    /\ probes[i].stage \in {"look", "read"} /\ probes[i].alive
    /\ Goes(i, [probes[i] EXCEPT !.alive = FALSE])
    /\ UNCHANGED reachMail
    /\ PageUnchanged

SeeEnd(i) ==
    /\ probes[i].stage = "read" /\ check.means # "socket" /\ ~probes[i].alive
    /\ Goes(i, [probes[i] EXCEPT !.stage = "sum"])
    /\ UNCHANGED reachMail
    /\ PageUnchanged

(* What a thread adds up in the end: its own counts, or the summary in their *)
(* place. With the first line of the summary alone nothing has answered.     *)
Totals(p) ==
    [sent |-> IF p.sumSent > 0 THEN p.sumSent ELSE p.sent,
     got  |-> IF p.sumSent > 0 \/ p.sumGot > 0 THEN p.sumGot ELSE p.got]

(* The result: how many answered, and "stopped" whenever the cancel event is *)
(* set by now. A ping that counted nothing is an error result and stays      *)
(* "failed" even when stopped; the TCP result is "stopped" all the same.     *)
OfCounts(means, t) ==
    CASE t.got = t.sent /\ t.sent > 0 -> "normal"
      [] t.got > 0 /\ t.got < t.sent  -> "partial"
      [] OTHER -> IF means = "ping" THEN "failed" ELSE "no answer"

ResultStatus(means, t) ==
    IF check.cancelled /\ (means = "ping" => t.sent > 0) THEN "stopped" ELSE OfCounts(means, t)

Conclude(i) ==
    /\ probes[i].stage = "sum"
    /\ Goes(i, [probes[i] EXCEPT !.stage = "done"])
    /\ LET t == Totals(probes[i]) IN
       ended' = [ended EXCEPT ![probes[i].key] =
                   [run |-> check.run, sent |-> t.sent, got |-> t.got,
                    status |-> ResultStatus(check.means, t)]]
    /\ UNCHANGED <<check, reachMail, reachRows, reachLabel>>

(* run_multi_ping, run_multi_check: leaving the `with` waits for every       *)
(* thread, then the first exception of a future becomes the job's error.     *)
JobEnds ==
    /\ check.job = "working"
    /\ \A i \in DOMAIN probes : probes[i].stage \in {"done", "raised"}
    /\ check' = [check EXCEPT !.job = "done"]
    /\ LET answer == IF \E i \in DOMAIN probes : probes[i].stage = "raised"
                     THEN [kind |-> "error", key |-> check.run, row |-> NoRow]
                     ELSE [kind |-> "result", key |-> check.run, row |-> NoRow]
       IN reachMail' = reachMail \o <<answer, [kind |-> "finished", key |-> check.run, row |-> NoRow]>>
    /\ UNCHANGED <<probes, ended, reachRows, reachLabel>>

----------------------------------------------------------------------------
(* The window applies the next signal.                                       *)
NextIs(kind) == reachMail # <<>> /\ Head(reachMail).kind = kind

(* _handle_ping_progress, _handle_tcp_progress: the key's row is found or    *)
(* made; entries with the same key write the same row. The status line goes  *)
(* back to "running", also after a stop was asked for.                       *)
ShowProgress ==
    /\ NextIs("progress")
    /\ reachRows' = [reachRows EXCEPT ![Head(reachMail).key] = Head(reachMail).row]
    /\ reachLabel' = "running"
    /\ reachMail' = Tail(reachMail)
    /\ UNCHANGED <<check, probes, ended>>

(* The results come sorted by key, equal keys in the order they completed:   *)
(* the last of them is what the row keeps.                                   *)
FinalRows == [k \in ReachKeys |-> IF ended[k] = NoRow THEN reachRows[k] ELSE ended[k]]

FinishCheck ==
    /\ NextIs("result")
    /\ reachRows' = FinalRows
    /\ reachLabel' = IF check.cancelled THEN "stopped" ELSE "done"
    /\ reachMail' = Tail(reachMail)
    /\ UNCHANGED <<check, probes, ended>>

(* The rows the progress made stay under the error.                          *)
CheckFails ==
    /\ NextIs("error")
    /\ reachLabel' = "failed"
    /\ reachMail' = Tail(reachMail)
    /\ UNCHANGED <<check, probes, ended, reachRows>>

SetRunningOff ==
    /\ NextIs("finished")
    /\ check' = [check EXCEPT !.running = FALSE, !.stopButton = FALSE]
    /\ reachMail' = Tail(reachMail)
    /\ UNCHANGED <<probes, ended, reachRows, reachLabel>>

----------------------------------------------------------------------------
ReachUser ==
    \/ \E entries \in TargetLists, c \in BOOLEAN :
         StartPing(entries, c) \/ StartTcpCheck(entries, c)
    \/ CancelCheck
    \/ ReachShutdown

ProbeSteps(i) ==
    \/ Spawn(i) \/ LookForStop(i)
    \/ ReadPingLine(i) \/ ReadTcpingLine(i) \/ ReadSummaryLine(i) \/ TryConnection(i)
    \/ SeeEnd(i) \/ Conclude(i)

ReachWindow == ShowProgress \/ FinishCheck \/ CheckFails \/ SetRunningOff

ReachNext ==
    \/ ReachUser
    \/ \E i \in DOMAIN probes : ProbeSteps(i) \/ ReadNothing(i) \/ ProcessEnds(i)
    \/ JobEnds
    \/ ReachWindow

(* The page's job: the thread of the job keeps going round its loop (the     *)
(* queue is read with a 0.2 s limit), and the window applies signals.        *)
ReachFairness ==
    /\ \A i \in UNION {DOMAIN entries : entries \in TargetLists} :
         WF_reachVars(i \in DOMAIN probes /\ (ProbeSteps(i) \/ ReadNothing(i)))
    /\ WF_reachVars(JobEnds)
    /\ WF_reachVars(ReachWindow)

----------------------------------------------------------------------------
(* The row tells of that thread: its own counts, or at least all it counted  *)
(* when the summary was read. Cut off between the summary's two lines the    *)
(* row has the probes of one source and the answers of none.                 *)
Tells(row, p) ==
    /\ p.sent <= row.sent
    /\ p.got <= row.got \/ (p.lines = 1 /\ row.got = 0)
    /\ p.lines = 0 => row.sent = p.sent /\ row.got = p.got

(* A table that says it is complete has one row for every key entered, with  *)
(* the totals of a thread of this run that probed that key (two entries may  *)
(* be the same key) and a verdict in place of the last line's, one that      *)
(* these totals bear out; a row of an earlier run never shows, however late  *)
(* its signals are.                                                          *)
ReachTableIsOfThisRun ==
    /\ \A k \in ReachKeys : reachRows[k].run \in {0, check.run}
    /\ reachLabel \in {"done", "stopped"} /\ ~check.running =>
         \A i \in DOMAIN probes :
            LET row == reachRows[probes[i].key] IN
            /\ \E j \in DOMAIN probes : probes[j].key = probes[i].key /\ Tells(row, probes[j])
            /\ row.status # "timed out"
            /\ row.status = "stopped" => reachLabel = "stopped"
            /\ row.status = "normal" => row.sent > 0 /\ row.got = row.sent
            /\ row.status \in {"failed", "no answer"} => row.got = 0

=============================================================================

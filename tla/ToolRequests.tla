---------------------------- MODULE ToolRequests ----------------------------
(* The pages of the diagnostics tab that ask one question at a time          *)
(* (app/ui/tabs/diagnostics/tools.py, dns.py, trace.py, iperf.py) and their  *)
(* services: the command page, whose requests may overlap and are told apart *)
(* by a generation number; the name lookup with its fallback; the route and  *)
(* throughput jobs, which stream a process; and the ARP scan with the        *)
(* comparison of a scan with the last one of the same text in the box.       *)
(* Each worker's signals are applied in order; workers are not ordered among *)
(* themselves.                                                               *)
EXTENDS Naturals, Sequences, FiniteSets

CONSTANTS
    SubnetTexts,   \* what a user may type into the subnet box: two may name one subnet
    Hosts,         \* hosts of each subnet
    Macs,          \* hardware addresses the hosts answer with
    MaxRequests,   \* bound: requests of the command page, and of the lookup page
    MaxScans,      \* bound: ARP scans
    MaxLines       \* bound: lines of a streamed process

ASSUME ToolAssumption == SubnetTexts # {} /\ {MaxRequests, MaxScans, MaxLines} \subseteq Nat

VARIABLES
    command,   \* the command page: generation, running, output, answers under way
    lookup,    \* the DNS page: running, stage of its worker, output
    stream,    \* the route or throughput job: window side and worker side
    arp,       \* the ARP page and its scan worker
    arpTable,  \* what the ARP table shows
    history,   \* _arp_scan_history: last non-empty map of each text
    scanLog    \* every finished scan, in order (observer)

toolVars == <<command, lookup, stream, arp, arpTable, history, scanLog>>

NoMac == "none"
NoScan == [h \in Hosts |-> NoMac]
EmptyTable == [h \in Hosts |-> [mac |-> NoMac, reached |-> FALSE, conflict |-> FALSE, twice |-> FALSE]]

IdleStream == [tool |-> "trace", busy |-> FALSE, cancelled |-> FALSE, worker |-> "none",
               read |-> 0, shown |-> 0, label |-> "none", killed |-> FALSE]

IdleArp == [running |-> FALSE, cancelled |-> FALSE, edit |-> CHOOSE s \in SubnetTexts : TRUE,
            current |-> CHOOSE s \in SubnetTexts : TRUE, worker |-> "none",
            hosts |-> [h \in Hosts |-> "silent"], macs |-> NoScan, scans |-> 0]

ToolInit ==
    /\ command = [generation |-> 0, running |-> FALSE, output |-> 0, answers |-> {}]
    /\ lookup = [running |-> FALSE, worker |-> "none", output |-> "empty", export |-> FALSE, asked |-> 0]
    /\ stream = IdleStream
    /\ arp = IdleArp
    /\ arpTable = EmptyTable
    /\ history = [s \in SubnetTexts |-> NoScan]
    /\ scanLog = <<>>

----------------------------------------------------------------------------
(* Command page. Every button bumps the generation; only the run button is   *)
(* disabled while a request runs, so requests overlap.                       *)
OthersThanCommand == UNCHANGED <<lookup, stream, arp, arpTable, history, scanLog>>

BeginToolsRequest ==
    /\ command.generation < MaxRequests
    /\ command' = [command EXCEPT !.generation = @ + 1, !.running = TRUE, !.output = 0,
                                  !.answers = @ \cup {[generation |-> command.generation + 1, ends |-> "open"]}]
    /\ OthersThanCommand

CheckPublicIp == BeginToolsRequest
LoadInterfaceSnapshot == BeginToolsRequest
RunToolsCommand == BeginToolsRequest

Answered(r, how) ==
    /\ r.ends = "open"
    /\ command' = [command EXCEPT !.answers = (@ \ {r}) \cup {[r EXCEPT !.ends = how]}]
    /\ OthersThanCommand

(* check_public_ip tries the services in turn and answers in any case; a     *)
(* command returns its output, or raises when its time is up.                *)
PublicIpAnswers(r) == Answered(r, "text")
RunOnce(r) == Answered(r, "text") \/ Answered(r, "raised")

(* _finish_tools_request, _show_public_ip_result.                            *)
FinishToolsRequest(r) ==
    /\ r.ends = "text"
    /\ command' = IF r.generation # command.generation
                  THEN [command EXCEPT !.answers = @ \ {r}]
                  ELSE [command EXCEPT !.answers = @ \ {r}, !.running = FALSE, !.output = r.generation]
    /\ OthersThanCommand

FailToolsRequest(r) ==
    /\ r.ends = "raised"
    /\ command' = IF r.generation # command.generation
                  THEN [command EXCEPT !.answers = @ \ {r}]
                  ELSE [command EXCEPT !.answers = @ \ {r}, !.running = FALSE, !.output = r.generation]
    /\ OthersThanCommand

----------------------------------------------------------------------------
(* DNS page. lookup: Resolve-DnsName, then nslookup when it fails, then an   *)
(* error; an empty answer is an answer.                                      *)
OthersThanLookup == UNCHANGED <<command, stream, arp, arpTable, history, scanLog>>

RunDnsLookup ==
    /\ ~lookup.running /\ lookup.asked < MaxRequests
    /\ lookup' = [running |-> TRUE, worker |-> "resolve", output |-> "empty", export |-> FALSE,
                  asked |-> lookup.asked + 1]
    /\ OthersThanLookup

DnsWorker ==
    /\ \/ lookup.worker = "resolve" /\ \E next \in {"records", "nothing", "fallback"} :
            lookup' = [lookup EXCEPT !.worker = next]
       \/ lookup.worker = "fallback" /\ \E next \in {"records", "error"} :
            lookup' = [lookup EXCEPT !.worker = next]
    /\ OthersThanLookup

(* _finish_dns_lookup and then the finished signal.                          *)
FinishDnsLookup ==
    /\ lookup.worker \in {"records", "nothing"}
    /\ lookup' = [lookup EXCEPT !.worker = "none", !.running = FALSE,
                                !.output = lookup.worker, !.export = TRUE]
    /\ OthersThanLookup

HandleDnsError ==
    /\ lookup.worker = "error"
    /\ lookup' = [lookup EXCEPT !.worker = "none", !.running = FALSE, !.output = "empty", !.export = FALSE]
    /\ OthersThanLookup

----------------------------------------------------------------------------
(* The streamed jobs: run_streaming_command reads the process through a      *)
(* queue, looks at the cancel event and the time limit before each line, and *)
(* kills the process when one of them says so. A process that outlives the   *)
(* kill by five seconds turns the answer into an error.                      *)
OthersThanStream == UNCHANGED <<command, lookup, arp, arpTable, history, scanLog>>

StartStream(tool) ==
    /\ ~stream.busy
    /\ stream' = [IdleStream EXCEPT !.tool = tool, !.busy = TRUE, !.worker = "look", !.label = "running"]
    /\ OthersThanStream

StartTrace == StartStream("trace")

(* Without an executable run_iperf_test opens a box and starts nothing.      *)
RunIperfTest == StartStream("iperf")

CancelStream ==
    /\ stream.busy
    /\ stream' = [stream EXCEPT !.cancelled = TRUE]
    /\ OthersThanStream

StreamWorker ==
    /\ \/ /\ stream.worker = "look"
          /\ \E late \in BOOLEAN :
               stream' = IF stream.cancelled \/ late
                         THEN [stream EXCEPT !.worker = "kill", !.killed = TRUE]
                         ELSE [stream EXCEPT !.worker = "read"]
       \/ /\ stream.worker = "read" /\ stream.read < MaxLines
          /\ stream' = [stream EXCEPT !.worker = "look", !.read = @ + 1]
       \/ /\ stream.worker = "read"      \* nothing within 0.2 s, or the process ended
          /\ \E next \in {"look", "wait"} : stream' = [stream EXCEPT !.worker = next]
       \/ /\ stream.worker \in {"kill", "wait"}
          /\ \E next \in {"answer", "raised"} : stream' = [stream EXCEPT !.worker = next]
    /\ OthersThanStream

RunStreamingCommand == StreamWorker

(* _handle_trace_progress, the iperf log: lines are applied in order, before *)
(* the answer.                                                               *)
ShowLine ==
    /\ stream.shown < stream.read
    /\ stream' = [stream EXCEPT !.shown = @ + 1]
    /\ OthersThanStream

(* The answer carries every line read (the hops are entered again from it);  *)
(* an error has no handler on the route page: the box opens and the label    *)
(* keeps saying that it runs.                                                *)
FinishTrace ==
    /\ stream.tool = "trace" /\ stream.shown = stream.read
    /\ stream.worker \in {"answer", "raised"}
    /\ stream' = [stream EXCEPT !.worker = "none", !.busy = FALSE,
                                !.label = IF stream.worker = "answer" THEN "answer" ELSE @]
    /\ OthersThanStream

FinishIperf ==
    /\ stream.tool = "iperf" /\ stream.shown = stream.read
    /\ stream.worker \in {"answer", "raised"}
    /\ stream' = [stream EXCEPT !.worker = "none", !.busy = FALSE, !.cancelled = FALSE, !.label = "answer"]
    /\ OthersThanStream

----------------------------------------------------------------------------
(* The ARP page. The subnet box stays editable during a scan: the scan's     *)
(* text is kept beside it, as it was typed; ip_network(strict=False) takes   *)
(* several spellings of one subnet and the history keeps them apart.         *)
OthersThanArp == UNCHANGED <<command, lookup, stream>>

EditSubnet(s) ==
    /\ arp.edit # s
    /\ arp' = [arp EXCEPT !.edit = s]
    /\ UNCHANGED <<arpTable, history, scanLog>> /\ OthersThanArp

StartArpScan ==
    /\ ~arp.running /\ arp.scans < MaxScans
    /\ arp' = [arp EXCEPT !.running = TRUE, !.cancelled = FALSE, !.current = arp.edit,
                          !.worker = "ping", !.hosts = [h \in Hosts |-> "queued"],
                          !.macs = NoScan, !.scans = @ + 1]
    /\ arpTable' = EmptyTable
    /\ UNCHANGED <<history, scanLog>> /\ OthersThanArp

CancelArpScan ==
    /\ arp.running /\ ~arp.cancelled
    /\ arp' = [arp EXCEPT !.cancelled = TRUE]
    /\ UNCHANGED <<arpTable, history, scanLog>> /\ OthersThanArp

(* _ping_once: a host whose turn comes after the cancel is not pinged.       *)
PingOnce(h) ==
    /\ arp.hosts[h] = "queued"
    /\ \E out \in IF arp.cancelled THEN {"silent"} ELSE {"reached", "silent"} :
         arp' = [arp EXCEPT !.hosts[h] = out]
    /\ UNCHANGED <<arpTable, history, scanLog>> /\ OthersThanArp

AllPinged == \A h \in Hosts : arp.hosts[h] # "queued"

(* The loop over the completed pings returns at a cancel it sees; leaving    *)
(* the pool still waits for every host. A cancel after the last completion   *)
(* is not seen: the scan is answered.                                        *)
ScanCancelled ==
    /\ arp.worker = "ping" /\ AllPinged /\ arp.cancelled
    /\ arp' = [arp EXCEPT !.worker = "cancelled"]
    /\ UNCHANGED <<arpTable, history, scanLog>> /\ OthersThanArp

(* _read_arp_entries: the system's table names hosts that did not answer     *)
(* too; merged with the replies.                                             *)
ReadArpEntries ==
    /\ arp.worker = "ping" /\ AllPinged
    /\ \E macs \in [Hosts -> Macs \cup {NoMac}] :
         /\ arp' = [arp EXCEPT !.worker = "answer", !.macs = macs]
         /\ scanLog' = Append(scanLog, [text |-> arp.current, macs |-> macs])
    /\ UNCHANGED <<arpTable, history>> /\ OthersThanArp

(* _analyze_arp_entries: against the last non-empty map of the text.         *)
Analyzed(macs, previous, reached) ==
    [h \in Hosts |->
       [mac |-> macs[h],
        reached |-> reached[h] = "reached",
        conflict |-> NoMac \notin {macs[h], previous[h]} /\ macs[h] # previous[h],
        twice |-> macs[h] # NoMac /\ \E g \in Hosts \ {h} : macs[g] = macs[h]]]

FinishScanOf(text) ==
    /\ arpTable' = Analyzed(arp.macs, history[text], arp.hosts)
    /\ history' = IF arp.macs = NoScan THEN history ELSE [history EXCEPT ![text] = arp.macs]

WorkerGone == [arp EXCEPT !.worker = "none", !.running = FALSE,
                          !.hosts = [h \in Hosts |-> "silent"], !.macs = NoScan]

FinishArpScanByBox ==       \* MUTANT: the box is read again when the scan ends
    /\ arp.worker = "answer"
    /\ FinishScanOf(arp.edit)
    /\ arp' = WorkerGone
    /\ UNCHANGED scanLog /\ OthersThanArp

FinishArpScan ==
    /\ arp.worker = "answer"
    /\ FinishScanOf(arp.current)
    /\ arp' = WorkerGone
    /\ UNCHANGED scanLog /\ OthersThanArp

(* A cancelled scan has no entries: the table stays empty, the history kept. *)
FinishCancelledScan ==
    /\ arp.worker = "cancelled"
    /\ arp' = WorkerGone
    /\ arpTable' = EmptyTable
    /\ UNCHANGED <<history, scanLog>> /\ OthersThanArp

----------------------------------------------------------------------------
ArpWorker == \/ \E h \in Hosts : PingOnce(h)
             \/ ScanCancelled \/ ReadArpEntries

ArpWindow == FinishArpScan \/ FinishCancelledScan

StreamWindow == ShowLine \/ FinishTrace \/ FinishIperf

CommandNext ==
    \/ CheckPublicIp \/ LoadInterfaceSnapshot \/ RunToolsCommand
    \/ \E r \in command.answers :
         PublicIpAnswers(r) \/ RunOnce(r) \/ FinishToolsRequest(r) \/ FailToolsRequest(r)

LookupNext == RunDnsLookup \/ DnsWorker \/ FinishDnsLookup \/ HandleDnsError

StreamNext ==
    \/ StartTrace \/ RunIperfTest \/ CancelStream
    \/ RunStreamingCommand \/ StreamWindow

ArpNext ==
    \/ \E s \in SubnetTexts : EditSubnet(s)
    \/ StartArpScan \/ CancelArpScan
    \/ ArpWorker \/ ArpWindow

StreamFairness == WF_toolVars(RunStreamingCommand) /\ WF_toolVars(StreamWindow)

----------------------------------------------------------------------------
(* The command page shows an answer only of its last request, and while it   *)
(* runs that request is still open: an answer that comes late changes        *)
(* neither the text nor the button.                                          *)
OutputIsOfTheLastRequest ==
    /\ command.output \in {0, command.generation}
    /\ command.running <=> \E r \in command.answers : r.generation = command.generation

(* A host is called a conflict exactly when the last scan that found         *)
(* anything and was started with the same text saw another address for it,   *)
(* whatever was typed into the box, and cancelled, in between. A scan of the *)
(* same subnet that was spelt otherwise is not compared with.                *)
Found(s, n) == {m \in 1 .. n : scanLog[m].text = s /\ scanLog[m].macs # NoScan}

ConflictIsOfTheSameText ==
    ~arp.running /\ arpTable # EmptyTable =>
        LET n == Len(scanLog)
            before == Found(scanLog[n].text, n - 1)
        IN \A h \in Hosts :
            arpTable[h].conflict <=>
                \E m \in before :
                    /\ \A k \in before : k <= m
                    /\ NoMac \notin {scanLog[n].macs[h], scanLog[m].macs[h]}
                    /\ scanLog[n].macs[h] # scanLog[m].macs[h]

=============================================================================

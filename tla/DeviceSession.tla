--------------------------- MODULE DeviceSession ---------------------------
(***************************************************************************)
(* One device of an inspector run: NetworkInspector._connect_to_device and *)
(* the wrapper that turns its answer into a result row                     *)
(* (src/netops_suite/modules/inspector_runtime/core/inspector.py).         *)
(*                                                                         *)
(* Every device is worked on by one pool thread.  The threads share the    *)
(* cancel event and, in the combined mode, the pipeline counters.  What a  *)
(* command prints, how it is parsed and what is logged is left out; which  *)
(* command is sent when, what a failure does, and what is held open or     *)
(* half written at each point is kept.                                     *)
(***************************************************************************)
EXTENDS Naturals, FiniteSets

CONSTANTS
    Devices,      \* the devices of the run
    VendorPath,   \* those served by a vendor/generic handler; the rest use Netmiko
    HasBackup,    \* those whose profile defines a backup command
    Mode,         \* what the run does with a device
    MaxRetries,   \* NetworkInspector.max_retries: connection attempts per device
    NInspect,     \* inspection commands in a profile
    NCustom       \* commands of the user's script

Modes == {"inspection", "backup", "inspection_backup", "custom_commands"}

ASSUME DevicesAssumption ==
    /\ IsFiniteSet(Devices)
    /\ VendorPath \subseteq Devices
    /\ HasBackup \subseteq Devices

ASSUME ModeAssumption == Mode \in Modes

\* settings.py and the retry field of the tab never yield a bound below one;
\* a script without commands is refused before the run.
ASSUME BoundsAssumption ==
    /\ MaxRetries \in Nat \ {0}
    /\ NInspect \in Nat
    /\ NCustom \in Nat \ {0}

Inspecting == Mode \in {"inspection", "inspection_backup"}   \* inspection_mode
BackingUp  == Mode \in {"backup", "inspection_backup"}       \* backup_mode
Combined   == Mode = "inspection_backup"                     \* callbacks are passed

VARIABLES
    cancel,   \* cancel_event.is_set()
    pc,       \* where the device's thread is in _connect_to_device
    after,    \* where control goes once the session is closed (with/finally)
    retries,  \* retry_count
    step,     \* index of the next command of the phase
    held,     \* the thread owns a session it has not yet disconnected
    loose,    \* connections that no line of the code closes any more
    outcome,  \* what _connect_to_device returned
    sent,     \* history: times each custom command was sent to the device
    late,     \* history: commands sent after the cancel request
    saved,    \* the device's backup file in this run's folder
    reported, \* inspection_reported
    row,      \* status of the row the wrapper returned
    inspectionDone, backupTotal, backupDone   \* the counters of the progress line

counters == <<inspectionDone, backupTotal, backupDone>>
vars == <<cancel, pc, after, retries, step, held, loose, outcome, sent, late, saved,
          reported, row, counters>>

Locations == {"idle", "begin", "probe", "attempt", "connect", "enable",
              "inspect", "inspecting", "custom", "commanding", "backup",
              "backing", "store", "close", "cooldown", "backoff", "outer",
              "returned", "done"}
Targets == {"returned", "attempt", "backoff", "outer"}   \* values of `after`
Errors == {"cancelled", "invalid", "unreachable", "stopped", "command_failed",
           "failed", "raised"}
Outcomes == {"none", "ok", "backup_error"} \cup Errors

Init ==
    /\ cancel = FALSE
    /\ pc = [d \in Devices |-> "idle"]
    /\ after = [d \in Devices |-> "returned"]
    /\ retries = [d \in Devices |-> 0]
    /\ step = [d \in Devices |-> 1]
    /\ held = [d \in Devices |-> FALSE]
    /\ loose = [d \in Devices |-> 0]
    /\ outcome = [d \in Devices |-> "none"]
    /\ sent = [d \in Devices |-> [i \in 1..NCustom |-> 0]]
    /\ late = [d \in Devices |-> 0]
    /\ saved = [d \in Devices |-> "none"]
    /\ reported = [d \in Devices |-> FALSE]
    /\ row = [d \in Devices |-> "none"]
    /\ inspectionDone = 0
    /\ backupTotal = 0
    /\ backupDone = 0

----------------------------------------------------------------------------
(* Control helpers.                                                        *)

Goto(d, where) == pc' = [pc EXCEPT ![d] = where]

\* Mutant of Unwind: the session is not disconnected on the way out.
UnwindSkipsFinally(d, where) ==
    /\ after' = [after EXCEPT ![d] = where]
    /\ Goto(d, where)

\* The block that owns the session is left toward a location: through its
\* `finally` (or the exit of `with`) when there is a session to disconnect.
Unwind(d, where) ==
    /\ after' = [after EXCEPT ![d] = where]
    /\ Goto(d, IF held[d] THEN "close" ELSE where)

\* return device, {...} from inside an attempt
Leave(d, what) ==
    /\ outcome' = [outcome EXCEPT ![d] = what]
    /\ Unwind(d, "returned")

\* The attempt ended in an exception.  A handler backs off with its session
\* still open, for `finally` runs after the handler's `except`; a failure to
\* write the session log there escapes to the outer `except`.
HandlerFails(d) ==
    LET n == retries[d] + 1 IN
    /\ retries' = [retries EXCEPT ![d] = n]
    /\ \/ /\ Unwind(d, "outer")
          /\ UNCHANGED outcome
       \/ /\ n < MaxRetries
          /\ after' = [after EXCEPT ![d] = "attempt"]
          /\ Goto(d, "backoff")
          /\ UNCHANGED outcome
       \/ /\ n >= MaxRetries
          /\ Leave(d, "failed")

\* Netmiko's `with` closes the connection first, then the attempt is counted.
NetmikoFails(d) ==
    LET n == retries[d] + 1 IN
    /\ retries' = [retries EXCEPT ![d] = n]
    /\ IF n < MaxRetries
       THEN Unwind(d, "backoff") /\ UNCHANGED outcome
       ELSE Leave(d, "failed")

AttemptFails(d) == IF d \in VendorPath THEN HandlerFails(d) ELSE NetmikoFails(d)

\* LegacySSHError or IncompatiblePeer: retrying cannot help
AttemptStops(d) == Leave(d, "stopped") /\ UNCHANGED retries

\* Netmiko sees a command fail; over the legacy SSH helper that may be a stop
NetmikoCommandFails(d) ==
    /\ d \notin VendorPath
    /\ NetmikoFails(d) \/ AttemptStops(d)

\* the handler is dropped with its connection open
LeaveOpen(d) == loose' = [loose EXCEPT ![d] = @ + 1]

\* A command goes out; `late` remembers that the user had already cancelled.
CountLate(d) == late' = [late EXCEPT ![d] = @ + (IF cancel THEN 1 ELSE 0)]

FirstPhase == IF Inspecting THEN "inspect"
              ELSE IF BackingUp THEN "backup" ELSE "custom"

----------------------------------------------------------------------------
(* Actions of one device's thread.                                         *)

\* _connect_to_device up to the TCP probe: cancel check, legacy settings check
Begin(d) ==
    /\ pc[d] = "begin"
    /\ \/ /\ cancel
          /\ outcome' = [outcome EXCEPT ![d] = "cancelled"]
          /\ Goto(d, "returned")
       \/ /\ ~cancel
          /\ outcome' = [outcome EXCEPT ![d] = "invalid"]
          /\ Goto(d, "returned")
       \/ /\ ~cancel
          /\ Goto(d, "probe")
          /\ UNCHANGED outcome
    /\ UNCHANGED <<cancel, after, retries, step, held, loose, sent, late, saved,
                   reported, row, counters>>

\* _test_tcping: a closed port ends the device without any retry
Probe(d) ==
    /\ pc[d] = "probe"
    /\ \/ /\ outcome' = [outcome EXCEPT ![d] = "unreachable"]
          /\ Goto(d, "returned")
       \/ /\ Goto(d, "attempt")
          /\ UNCHANGED outcome
    /\ UNCHANGED <<cancel, after, retries, step, held, loose, sent, late, saved,
                   reported, row, counters>>

\* head of the retry loop; opening the session log may raise
Attempt(d) ==
    /\ pc[d] = "attempt"
    /\ retries[d] < MaxRetries
    /\ \/ cancel /\ Leave(d, "cancelled")
       \/ ~cancel /\ Goto(d, "connect") /\ UNCHANGED <<after, outcome>>
       \/ ~cancel /\ Goto(d, "outer") /\ UNCHANGED <<after, outcome>>
    /\ UNCHANGED <<cancel, retries, step, held, loose, sent, late, saved, reported,
                   row, counters>>

\* handler.connect() or ConnectHandler(...).  A handler's may fail after it has
\* opened the connection and leave it open: the Telnet logins of axgate.py,
\* ubiquoss.py and nexg.py raise past it, those of cisco.py and alcatel_lucent.py
\* write the session log before they close.  handler_connected is not set yet,
\* so `finally` does not disconnect.
Connect(d) ==
    /\ pc[d] = "connect"
    /\ \/ /\ held' = [held EXCEPT ![d] = TRUE]
          /\ Goto(d, "enable")
          /\ UNCHANGED <<after, retries, outcome, loose>>
       \/ AttemptFails(d) /\ UNCHANGED <<held, loose>>
       \/ d \in VendorPath /\ AttemptFails(d) /\ LeaveOpen(d) /\ UNCHANGED held
       \/ AttemptStops(d) /\ UNCHANGED <<held, loose>>
    /\ UNCHANGED <<cancel, step, sent, late, saved, reported, row, counters>>

\* Mutant of Enable: the command index is not reset, so a new attempt resumes where
\* the last one stopped.
EnableResumes(d) ==
    /\ pc[d] = "enable"
    /\ Goto(d, FirstPhase)
    /\ UNCHANGED <<cancel, after, retries, step, held, loose, outcome, sent, late, saved,
                   reported, row, counters>>

\* enable() and the paging setup; the phases start from their first command
Enable(d) ==
    /\ pc[d] = "enable"
    /\ \/ /\ step' = [step EXCEPT ![d] = 1]
          /\ Goto(d, FirstPhase)
          /\ UNCHANGED <<after, retries, outcome>>
       \/ AttemptFails(d) /\ UNCHANGED step
       \/ AttemptStops(d) /\ UNCHANGED step
    /\ UNCHANGED <<cancel, held, loose, sent, late, saved, reported, row, counters>>

\* head of the inspection loop: the cancel check before each command
InspectNext(d) ==
    /\ pc[d] = "inspect"
    /\ step[d] <= NInspect
    /\ \/ cancel /\ Leave(d, "cancelled")
       \/ ~cancel /\ Goto(d, "inspecting") /\ UNCHANGED <<after, outcome>>
    /\ UNCHANGED <<cancel, retries, step, held, loose, sent, late, saved, reported,
                   row, counters>>

\* send_command and parse: on the vendor path a failure is kept as an
\* error_<command> column and the loop goes on, on Netmiko it ends the attempt
InspectCommand(d) ==
    /\ pc[d] = "inspecting"
    /\ CountLate(d)
    /\ \/ /\ step' = [step EXCEPT ![d] = @ + 1]
          /\ Goto(d, "inspect")
          /\ UNCHANGED <<after, retries, outcome>>
       \/ NetmikoCommandFails(d) /\ UNCHANGED step
    /\ UNCHANGED <<cancel, held, loose, sent, saved, reported, row, counters>>

\* on_phase_complete('inspection'): counted once however often it is retried
InspectDone(d) ==
    /\ pc[d] = "inspect"
    /\ step[d] > NInspect
    /\ IF Combined
       THEN /\ Goto(d, "backup")
            /\ reported' = [reported EXCEPT ![d] = TRUE]
            /\ inspectionDone' = inspectionDone + (IF reported[d] THEN 0 ELSE 1)
            /\ backupTotal' = backupTotal + (IF reported[d] THEN 0 ELSE 1)
            /\ UNCHANGED <<after, outcome>>
       ELSE /\ Leave(d, "ok")
            /\ UNCHANGED <<reported, inspectionDone, backupTotal>>
    /\ UNCHANGED <<cancel, retries, step, held, loose, sent, late, saved, row,
                   backupDone>>

\* Mutant of CustomNext: no cancel check.
CustomNextUnchecked(d) ==
    /\ pc[d] = "custom"
    /\ Goto(d, IF step[d] <= NCustom THEN "commanding" ELSE "store")
    /\ UNCHANGED <<cancel, after, retries, step, held, loose, outcome, sent, late, saved,
                   reported, row, counters>>

\* head of the loop over the user's script
CustomNext(d) ==
    /\ pc[d] = "custom"
    /\ \/ step[d] <= NCustom /\ cancel /\ Leave(d, "cancelled")
       \/ /\ step[d] <= NCustom /\ ~cancel
          /\ Goto(d, "commanding")
          /\ UNCHANGED <<after, outcome>>
       \/ /\ step[d] > NCustom
          /\ Goto(d, "store")
          /\ UNCHANGED <<after, outcome>>
    /\ UNCHANGED <<cancel, retries, step, held, loose, sent, late, saved, reported,
                   row, counters>>

\* Mutant of CustomCommand: a handler retries like Netmiko.
CustomCommandRetried(d) ==
    /\ pc[d] = "commanding"
    /\ CountLate(d)
    /\ sent' = [sent EXCEPT ![d][step[d]] = @ + 1]
    /\ \/ /\ step' = [step EXCEPT ![d] = @ + 1]
          /\ Goto(d, "custom")
          /\ UNCHANGED <<after, retries, outcome>>
       \/ AttemptFails(d) /\ UNCHANGED step
    /\ UNCHANGED <<cancel, held, loose, saved, reported, row, counters>>

\* The command has gone out whether or not its answer arrives: a handler then
\* gives the device up, Netmiko starts the whole attempt again.
CustomCommand(d) ==
    /\ pc[d] = "commanding"
    /\ CountLate(d)
    /\ sent' = [sent EXCEPT ![d][step[d]] = @ + 1]
    /\ \/ /\ step' = [step EXCEPT ![d] = @ + 1]
          /\ Goto(d, "custom")
          /\ UNCHANGED <<after, retries, outcome>>
       \/ /\ d \in VendorPath
          /\ Leave(d, "command_failed")
          /\ UNCHANGED <<retries, step>>
       \/ NetmikoCommandFails(d) /\ UNCHANGED step
    /\ UNCHANGED <<cancel, held, loose, saved, reported, row, counters>>

\* _store_custom_command_outputs: writing the output file may raise
StoreOutputs(d) ==
    /\ pc[d] = "store"
    /\ \/ Leave(d, "ok") /\ UNCHANGED retries
       \/ AttemptFails(d)
    /\ UNCHANGED <<cancel, step, held, loose, sent, late, saved, reported, row,
                   counters>>

\* the cancel check and the profile's backup command, if it has one
BackupNext(d) ==
    /\ pc[d] = "backup"
    /\ \/ cancel /\ Leave(d, "cancelled")
       \/ ~cancel /\ d \notin HasBackup /\ Leave(d, "ok")
       \/ /\ ~cancel /\ d \in HasBackup
          /\ Goto(d, "backing")
          /\ UNCHANGED <<after, outcome>>
    /\ UNCHANGED <<cancel, retries, step, held, loose, sent, late, saved, reported,
                   row, counters>>

\* The backup command, then open(backup_filename, 'w') and write: the command
\* may fail, or the file may be truncated by a write that does.
BackupCommand(d) ==
    /\ pc[d] = "backing"
    /\ CountLate(d)
    /\ \/ /\ saved' = [saved EXCEPT ![d] = "complete"]
          /\ Leave(d, "ok")
          /\ UNCHANGED retries
       \/ /\ \E file \in {saved[d], "partial"} : saved' = [saved EXCEPT ![d] = file]
          /\ \/ d \in VendorPath /\ Leave(d, "backup_error") /\ UNCHANGED retries
             \/ NetmikoCommandFails(d)
    /\ UNCHANGED <<cancel, step, held, loose, sent, reported, row, counters>>

\* disconnect(): when a handler's raises, the reconnect cooldown is skipped, and
\* if it was the farewell before close() (axgate.py, ubiquoss.py, nexg.py over
\* Telnet) the connection stays open
Close(d) ==
    /\ pc[d] = "close"
    /\ held' = [held EXCEPT ![d] = FALSE]
    /\ \/ d \in VendorPath /\ Goto(d, "cooldown") /\ UNCHANGED loose
       \/ Goto(d, after[d]) /\ UNCHANGED loose
       \/ d \in VendorPath /\ Goto(d, after[d]) /\ LeaveOpen(d)
    /\ UNCHANGED <<cancel, after, retries, step, outcome, sent, late, saved,
                   reported, row, counters>>

Cooldown(d) ==
    /\ pc[d] = "cooldown"
    /\ Goto(d, after[d])
    /\ UNCHANGED <<cancel, after, retries, step, held, loose, outcome, sent, late,
                   saved, reported, row, counters>>

\* _wait_or_cancel(2 ** retry_count)
Backoff(d) ==
    /\ pc[d] = "backoff"
    /\ IF cancel THEN Leave(d, "cancelled")
                 ELSE Unwind(d, "attempt") /\ UNCHANGED outcome
    /\ UNCHANGED <<cancel, retries, step, held, loose, sent, late, saved, reported,
                   row, counters>>

\* Mutant of OuterExcept: one attempt too many.
OuterExceptOffByOne(d) ==
    LET n == retries[d] + 1 IN
    /\ pc[d] = "outer"
    /\ retries' = [retries EXCEPT ![d] = n]
    /\ IF n <= MaxRetries
       THEN Goto(d, "backoff") /\ UNCHANGED outcome
       ELSE Goto(d, "returned") /\ outcome' = [outcome EXCEPT ![d] = "failed"]
    /\ UNCHANGED <<cancel, after, step, held, loose, sent, late, saved, reported, row,
                   counters>>

\* the outermost `except`: counts the attempt (again, when the handler's
\* `except` already had), and writes the session log before it backs off
OuterExcept(d) ==
    LET n == retries[d] + 1 IN
    /\ pc[d] = "outer"
    /\ retries' = [retries EXCEPT ![d] = n]
    /\ \/ /\ outcome' = [outcome EXCEPT ![d] = "raised"]
          /\ Goto(d, "returned")
       \/ n < MaxRetries /\ Goto(d, "backoff") /\ UNCHANGED outcome
       \/ /\ n >= MaxRetries
          /\ outcome' = [outcome EXCEPT ![d] = "failed"]
          /\ Goto(d, "returned")
    /\ UNCHANGED <<cancel, after, step, held, loose, sent, late, saved, reported, row,
                   counters>>

\* Mutants of Finish: a backup error is a success; a device that failed before
\* its inspection phase ended is not counted.
FinishHidesBackupError(d) ==
    /\ pc[d] = "returned"
    /\ Goto(d, "done")
    /\ row' = [row EXCEPT ![d] = IF outcome[d] \in Errors THEN "error" ELSE "success"]
    /\ UNCHANGED <<cancel, after, retries, step, held, loose, outcome, sent, late, saved,
                   reported, counters>>
FinishForgetsFailure(d) ==
    /\ pc[d] = "returned"
    /\ Goto(d, "done")
    /\ row' = [row EXCEPT ![d] = IF outcome[d] = "ok" THEN "success" ELSE "error"]
    /\ backupDone' = backupDone + (IF outcome[d] \in Errors THEN 0 ELSE 1)
    /\ UNCHANGED <<cancel, after, retries, step, held, loose, outcome, sent, late, saved,
                   reported, inspectionDone, backupTotal>>

\* The wrapper (_inspect_device, _backup_device, _run_custom_commands_device,
\* _inspect_and_backup_device) turns the answer into a row and, in the
\* combined mode, reports to the progress counters.
Finish(d) ==
    /\ pc[d] = "returned"
    /\ Goto(d, "done")
    /\ row' = [row EXCEPT ![d] = IF outcome[d] = "ok" THEN "success" ELSE "error"]
    /\ IF ~Combined THEN UNCHANGED counters
       ELSE IF outcome[d] \in Errors
            THEN /\ inspectionDone' = inspectionDone + (IF reported[d] THEN 0 ELSE 1)
                 /\ UNCHANGED <<backupTotal, backupDone>>
            ELSE /\ backupDone' = backupDone + 1
                 /\ UNCHANGED <<inspectionDone, backupTotal>>
    /\ UNCHANGED <<cancel, after, retries, step, held, loose, outcome, sent, late,
                   saved, reported>>

----------------------------------------------------------------------------
(* The specification.                                                      *)

\* a pool thread takes the device up
Start(d) ==
    /\ pc[d] = "idle"
    /\ Goto(d, "begin")
    /\ UNCHANGED <<cancel, after, retries, step, held, loose, outcome, sent, late,
                   saved, reported, row, counters>>

\* the user's stop request, or the window closing: cancel_event.set()
Cancel ==
    /\ ~cancel
    /\ cancel' = TRUE
    /\ UNCHANGED <<pc, after, retries, step, held, loose, outcome, sent, late, saved,
                   reported, row, counters>>

\* _connect_to_device up to its return
Converse(d) ==
    \/ Begin(d) \/ Probe(d) \/ Attempt(d) \/ Connect(d) \/ Enable(d)
    \/ InspectNext(d) \/ InspectCommand(d) \/ InspectDone(d)
    \/ CustomNext(d) \/ CustomCommand(d) \/ StoreOutputs(d)
    \/ BackupNext(d) \/ BackupCommand(d)
    \/ Close(d) \/ Cooldown(d) \/ Backoff(d) \/ OuterExcept(d)

Step(d) == Converse(d) \/ Finish(d)

\* every device has its row: the run is over
Terminated ==
    /\ \A d \in Devices : pc[d] = "done"
    /\ UNCHANGED vars

Next == Cancel \/ (\E d \in Devices : Start(d) \/ Step(d)) \/ Terminated

\* Each thread keeps running: every socket operation has a timeout, and the
\* waits of the retry loop are bounded.  Nobody has to press stop.
Fairness == \A d \in Devices : WF_vars(Start(d)) /\ WF_vars(Step(d))

Spec == Init /\ [][Next]_vars /\ Fairness

----------------------------------------------------------------------------
(* Properties.                                                             *)

\* The variables have their types.
TypeOK ==
    /\ cancel \in BOOLEAN
    /\ pc \in [Devices -> Locations]
    /\ after \in [Devices -> Targets]
    /\ retries \in [Devices -> Nat]
    /\ step \in [Devices -> Nat \ {0}]
    /\ held \in [Devices -> BOOLEAN]
    /\ loose \in [Devices -> Nat]
    /\ outcome \in [Devices -> Outcomes]
    /\ sent \in [Devices -> [1..NCustom -> Nat]]
    /\ late \in [Devices -> Nat]
    /\ saved \in [Devices -> {"none", "partial", "complete"}]
    /\ reported \in [Devices -> BOOLEAN]
    /\ row \in [Devices -> {"none", "success", "error"}]
    /\ inspectionDone \in Nat /\ backupTotal \in Nat /\ backupDone \in Nat

\* The connections a thread opens to its device.  Every session that logged in is
\* disconnected before the next attempt or the return, on every path out of an
\* attempt: success, cancel, a failed command, an exception inside an exception
\* handler.  A connection the code forgets is one of a handler, whose login or
\* whose disconnect failed; and forgotten ones included, with every failure
\* counted once or twice, a device never has more open than there are attempts.
SessionsAreBounded ==
    \A d \in Devices :
        /\ pc[d] \in {"idle", "begin", "probe", "attempt", "connect", "outer",
                     "returned", "done"} => ~held[d]
        /\ d \notin VendorPath => loose[d] = 0
        /\ loose[d] + (IF held[d] THEN 1 ELSE 0) <= MaxRetries

\* The retry loop never runs out through its `while` condition: it would return
\* None instead of a result, although two handlers can count one failure twice.
RetryLoopAlwaysReturns ==
    \A d \in Devices : pc[d] = "attempt" => retries[d] < MaxRetries

\* The script reaches the device in order, and whatever fails and is retried no
\* command is sent more often than there are attempts.
ScriptSentInOrder ==
    \A d \in Devices : \A i \in 1..NCustom :
        /\ sent[d][i] <= MaxRetries
        /\ \A j \in 1..NCustom : i <= j => sent[d][j] <= sent[d][i]

\* On the handler path a command that failed is never followed by a replay of
\* the commands before it: the script starts over only when all of it was sent.
HandlerReplaysOnlyWholeScripts ==
    \A d \in VendorPath : \A i, j \in 1..NCustom : sent[d][i] <= sent[d][j] + 1

\* A stop request lets each device finish the command in flight and no other,
\* retries and later phases included.
StopSparesOnlyTheCommandInFlight == \A d \in Devices : late[d] <= 1

\* A row says success exactly when the work was done: the script went out
\* completely, and the backup file of a device that has one is whole.
RowTellsTheTruth ==
    \A d \in Devices : pc[d] = "done" =>
        /\ (row[d] = "success" /\ Mode = "custom_commands")
              => \A i \in 1..NCustom : sent[d][i] > 0
        /\ (BackingUp /\ d \in HasBackup)
              => (row[d] = "success" <=> saved[d] = "complete")

\* The progress line of the combined mode never runs past its totals, although
\* retries report a phase again and errors report from another place.
ProgressWithinTotals ==
    /\ backupDone <= backupTotal
    /\ backupTotal <= inspectionDone
    /\ inspectionDone <= Cardinality(Devices)

\* When every device has its row, the inspection half of the line is full.
InspectionProgressCompletes ==
    (Combined /\ \A d \in Devices : pc[d] = "done")
        => inspectionDone = Cardinality(Devices)

=============================================================================

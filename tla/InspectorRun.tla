---------------------------- MODULE InspectorRun ----------------------------
(***************************************************************************)
(* A run as the user drives it: the inspector tab on the UI thread         *)
(* (src/app/ui/tabs/inspector_tab.py), the background worker JobRunner     *)
(* starts for it (src/app/ui/common/job_runner.py and                      *)
(* src/app/utils/threading_utils.py), and InspectorService.run on that     *)
(* worker's thread (src/netops_suite/modules/inspector/service.py).        *)
(*                                                                         *)
(* The worker's Qt signals reach the UI thread through its event queue, so *)
(* the user can act between any two of them.  The batch over the devices   *)
(* is taken at its promise (BatchPromise): one row per device, in          *)
(* inventory order, complete unless the run was stopped.                   *)
(***************************************************************************)
EXTENDS RetryMerge, FiniteSets

CONSTANTS
    Devices,   \* device addresses; their order is the inventory's order
    MaxRuns    \* bound: runs started in one session of the program

ASSUME RunAssumption == Devices \subseteq Nat /\ IsFiniteSet(Devices) /\ MaxRuns \in Nat

VARIABLES
    running,       \* _inspector_running
    event,         \* the run whose cancel event is in _cancel_event, 0 for None
    shuttingDown,  \* _shutting_down
    lastResult,    \* _last_result
    lastRequest,   \* _last_request
    progress,      \* _run_progress
    runs,          \* runs started so far; a run is known by its number
    stopped,       \* runs whose cancel event is set
    job,           \* the worker: where InspectorService.run is, and its locals
    signals,       \* queued signals of the worker, oldest first
    inventory,     \* devices in the inventory file
    excel,         \* the result file of each run stamp
    early          \* history: runs stopped before their last cancel check

uiVars == <<running, event, shuttingDown, lastResult, lastRequest, progress>>
vars == <<uiVars, runs, stopped, job, signals, inventory, excel, early>>

Statuses == {"success", "error"}
Failed(rows) == {rows[i].ip : i \in {k \in DOMAIN rows : rows[k].status = "error"}}

NoResult == [has |-> FALSE, stamp |-> 0, run |-> 0, rows |-> <<>>]
NoRequest == [made |-> FALSE, first |-> FALSE, only |-> {}, merging |-> FALSE,
              merge |-> <<>>, stamp |-> 0]
NoJob == [phase |-> "none", run |-> 0, request |-> NoRequest, targets |-> {},
          order |-> <<>>, rows |-> <<>>]
NoProgress == [total |-> 0, done |-> 0, failed |-> 0]
NoFile == [state |-> "absent", run |-> 0, rows |-> <<>>]

\* the rows of the inventory file, in its order
InFileOrder(S) == InOrder(S)

Stamp(j) == IF j.request.stamp = 0 THEN j.run ELSE j.request.stamp

Init ==
    /\ running = FALSE
    /\ event = 0
    /\ shuttingDown = FALSE
    /\ lastResult = NoResult
    /\ lastRequest = NoRequest
    /\ progress = NoProgress
    /\ runs = 0
    /\ stopped = {}
    /\ job = NoJob
    /\ signals = <<>>
    /\ inventory = Devices
    /\ excel = [s \in 1..MaxRuns |-> NoFile]
    /\ early = {}

----------------------------------------------------------------------------
(* The tab, on the UI thread.                                              *)

\* _start_run; when the thread pool refuses the worker, JobRunner.start emits
\* error and finished at once, on this thread
StartRun(request) ==
    /\ runs < MaxRuns
    /\ runs' = runs + 1
    /\ lastResult' = NoResult
    /\ lastRequest' = request
    /\ progress' = NoProgress
    /\ \/ /\ running' = TRUE
          /\ event' = runs + 1
          /\ job' = [NoJob EXCEPT !.phase = "queued", !.run = runs + 1,
                                  !.request = request]
       \/ /\ running' = FALSE
          /\ event' = 0
          /\ UNCHANGED job
    /\ UNCHANGED <<shuttingDown, stopped, signals, inventory, excel, early>>

\* _run_inspector, once validated and confirmed; perhaps the first device only
Run ==
    /\ ~shuttingDown
    /\ ~running
    /\ \E first \in BOOLEAN :
          StartRun([NoRequest EXCEPT !.made = TRUE, !.first = first])

\* _retry_failed_devices: the failed devices of the result shown, merged into it
RetryFailed ==
    /\ ~shuttingDown
    /\ ~running
    /\ lastRequest.made
    /\ lastResult.has
    /\ Failed(lastResult.rows) # {}
    /\ StartRun([lastRequest EXCEPT
                    !.first = FALSE,
                    !.only = Failed(lastResult.rows),
                    !.merging = TRUE,
                    !.merge = lastResult.rows,
                    !.stamp = lastResult.stamp])

\* The cancel event of a run is set; `early` remembers whether it can matter.
SetCancelEvent ==
    /\ stopped' = stopped \cup {event}
    /\ early' = IF job.phase \in {"queued", "load", "batch", "check"}
                THEN early \cup {event} ELSE early

\* _cancel_inspector
Stop ==
    /\ ~shuttingDown
    /\ running
    /\ event # 0
    /\ event \notin stopped
    /\ SetCancelEvent
    /\ UNCHANGED <<uiVars, runs, job, signals, inventory, excel>>

\* _handle_inventory_changed: another list was chosen or saved in the editor;
\* the fields are locked during a run
ChangeInventory ==
    /\ ~shuttingDown
    /\ ~running
    /\ \E S \in SUBSET Devices \ {{}} : inventory' = S
    /\ lastResult' = NoResult
    /\ lastRequest' = NoRequest
    /\ UNCHANGED <<running, event, shuttingDown, progress, runs, stopped, job,
                   signals, excel, early>>

\* the list is edited outside the program, at any time
EditInventoryFile ==
    /\ \E S \in SUBSET Devices \ {{}} : S # inventory /\ inventory' = S
    /\ UNCHANGED <<uiVars, runs, stopped, job, signals, excel, early>>

\* shutdown: the window closes
Shutdown ==
    /\ ~shuttingDown
    /\ shuttingDown' = TRUE
    /\ IF event # 0 THEN SetCancelEvent ELSE UNCHANGED <<stopped, early>>
    /\ UNCHANGED <<running, event, lastResult, lastRequest, progress, runs, job,
                   signals, inventory, excel>>

\* The next queued signal is delivered to its slot.
NextSignal == Head(signals)
Delivered(type) == signals # <<>> /\ NextSignal.type = type /\ signals' = Tail(signals)

\* _handle_progress: the run's total, and a device that completed
HandleProgress ==
    /\ \/ /\ Delivered("total")
          /\ progress' = [progress EXCEPT !.total = NextSignal.total]
       \/ /\ Delivered("device_complete")
          /\ progress' = [progress EXCEPT
                !.done = @ + 1,
                !.failed = @ + (IF NextSignal.success THEN 0 ELSE 1)]
    /\ UNCHANGED <<running, event, shuttingDown, lastResult, lastRequest, runs,
                   stopped, job, inventory, excel, early>>

\* _handle_result
HandleResult ==
    /\ Delivered("result")
    /\ lastResult' = IF shuttingDown THEN lastResult ELSE NextSignal.result
    /\ UNCHANGED <<running, event, shuttingDown, lastRequest, progress, runs,
                   stopped, job, inventory, excel, early>>

\* Mutant of HandleError: the tab is released before `finished` arrives.
HandleErrorReleases ==
    /\ Delivered("error")
    /\ running' = FALSE
    /\ UNCHANGED <<event, shuttingDown, lastResult, lastRequest, progress, runs,
                   stopped, job, inventory, excel, early>>

\* _handle_error: messages only
HandleError ==
    /\ Delivered("error")
    /\ UNCHANGED <<uiVars, runs, stopped, job, inventory, excel, early>>

\* Mutant of FinishRun: the run is not marked as over.
FinishRunLeavesRunning ==
    /\ Delivered("finished")
    /\ event' = 0
    /\ UNCHANGED <<running, shuttingDown, lastResult, lastRequest, progress, runs,
                   stopped, job, inventory, excel, early>>

\* _finish_inspector_run
FinishRun ==
    /\ Delivered("finished")
    /\ IF shuttingDown THEN UNCHANGED <<running, event>>
                       ELSE running' = FALSE /\ event' = 0
    /\ UNCHANGED <<shuttingDown, lastResult, lastRequest, progress, runs, stopped,
                   job, inventory, excel, early>>

----------------------------------------------------------------------------
(* The worker's thread: InspectorService.run inside FunctionWorker.run.    *)

Emit(signal) == signals' = Append(signals, signal)

\* an exception leaves run: FunctionWorker emits error, then finished
Raise ==
    /\ job' = NoJob
    /\ signals' = signals \o <<[type |-> "error"], [type |-> "finished"]>>

Cancelled == job.run \in stopped

\* the first cancel check, and bringing the runtime modules up to date
BeginJob ==
    /\ job.phase = "queued"
    /\ \/ Raise
       \/ ~Cancelled /\ job' = [job EXCEPT !.phase = "load"] /\ UNCHANGED signals
    /\ UNCHANGED <<uiVars, runs, stopped, inventory, excel, early>>

\* Mutant of LoadDevices: a retry runs the whole list again.
LoadDevicesIgnoresOnly ==
    /\ job.phase = "load"
    /\ ~Cancelled
    /\ job' = [job EXCEPT !.phase = "batch", !.targets = inventory,
                          !.order = InFileOrder(inventory)]
    /\ Emit([type |-> "total", total |-> Cardinality(inventory)])
    /\ UNCHANGED <<uiVars, runs, stopped, inventory, excel, early>>

\* The inventory is read as it is now and narrowed to the devices asked for;
\* none left is an error, and so is a list that does not load.
LoadDevices ==
    LET wanted == IF job.request.only = {} THEN inventory
                  ELSE inventory \cap job.request.only
        targets == IF job.request.first THEN {Min(wanted)} ELSE wanted
    IN  /\ job.phase = "load"
        /\ \/ Raise
           \/ /\ wanted # {}
              /\ ~Cancelled
              /\ job' = [job EXCEPT !.phase = "batch", !.targets = targets,
                                    !.order = InFileOrder(inventory)]
              /\ Emit([type |-> "total", total |-> Cardinality(targets)])
        /\ UNCHANGED <<uiVars, runs, stopped, inventory, excel, early>>

\* the batch collects one more device (Report of BatchPromise)
DeviceComplete ==
    /\ job.phase = "batch"
    /\ \E d \in job.targets \ Ips(job.rows), status \in Statuses :
        /\ job' = [job EXCEPT !.rows =
                      Append(@, [ip |-> d, status |-> status, run |-> job.run])]
        /\ Emit([type |-> "device_complete", success |-> status = "success"])
    /\ UNCHANGED <<uiVars, runs, stopped, inventory, excel, early>>

\* the batch returns its rows in order (Return of BatchPromise)
BatchReturns ==
    /\ job.phase = "batch"
    /\ Ips(job.rows) = job.targets \/ Cancelled
    /\ job' = [job EXCEPT !.phase = "check",
                          !.rows = SortedByDevice(@, job.order)]
    /\ UNCHANGED <<uiVars, runs, stopped, signals, inventory, excel, early>>

\* Mutant of CheckCancelled: the rows of a stopped run are saved.
CheckCancelledSkipped ==
    /\ job.phase = "check"
    /\ job' = [job EXCEPT !.phase = "save"]
    /\ UNCHANGED <<uiVars, runs, stopped, signals, inventory, excel, early>>

\* the last cancel check: a stopped run gives up all its rows
CheckCancelled ==
    /\ job.phase = "check"
    /\ IF Cancelled THEN Raise
       ELSE job' = [job EXCEPT !.phase = "save"] /\ UNCHANGED signals
    /\ UNCHANGED <<uiVars, runs, stopped, inventory, excel, early>>

\* Mutant of Merged: a retry writes only its own rows.
MergedRerunOnly == job.rows

\* merged_results()
Merged == IF job.request.merging
          THEN MergeRetryResults(job.request.merge, job.rows, job.order)
          ELSE job.rows

\* save_results_to_excel replaces the file in place; a failure leaves it as it
\* was (it cannot be opened) or broken
SaveResult ==
    LET saved == [state |-> "whole", run |-> job.run, rows |-> Merged]
    IN  /\ job.phase = "save"
        /\ \/ /\ excel' = [excel EXCEPT ![Stamp(job)] = saved]
              /\ signals' = signals \o
                    <<[type |-> "result",
                       result |-> [has |-> TRUE, stamp |-> Stamp(job),
                                   run |-> saved.run, rows |-> saved.rows]],
                      [type |-> "finished"]>>
              /\ job' = NoJob
           \/ /\ Raise
              /\ \/ UNCHANGED excel
                 \/ excel' = [excel EXCEPT ![Stamp(job)].state = "broken"]
        /\ UNCHANGED <<uiVars, runs, stopped, inventory, early>>

----------------------------------------------------------------------------
(* The specification.                                                      *)

User == Run \/ RetryFailed \/ Stop \/ ChangeInventory \/ EditInventoryFile \/ Shutdown
EventLoop == HandleProgress \/ HandleResult \/ HandleError \/ FinishRun
Worker == BeginJob \/ LoadDevices \/ DeviceComplete \/ BatchReturns
            \/ CheckCancelled \/ SaveResult

Next == User \/ EventLoop \/ Worker

\* The event loop and the worker keep running; the user need not do anything.
Spec == Init /\ [][Next]_vars /\ WF_vars(EventLoop) /\ WF_vars(Worker)

----------------------------------------------------------------------------
(* Properties.                                                             *)

RowSet == [ip : Devices, status : Statuses, run : 1..MaxRuns]
ResultSet == [has : BOOLEAN, stamp : 0..MaxRuns, run : 0..MaxRuns, rows : Seq(RowSet)]

\* The variables have their types.
TypeOK ==
    /\ running \in BOOLEAN /\ shuttingDown \in BOOLEAN
    /\ event \in 0..MaxRuns /\ runs \in 0..MaxRuns
    /\ lastResult \in ResultSet
    /\ lastRequest.only \subseteq Devices /\ lastRequest.merge \in Seq(RowSet)
    /\ progress \in [total : Nat, done : Nat, failed : Nat]
    /\ stopped \subseteq 1..MaxRuns /\ early \subseteq 1..MaxRuns
    /\ job.phase \in {"none", "queued", "load", "batch", "check", "save"}
    /\ job.targets \subseteq Devices /\ job.rows \in Seq(RowSet)
    /\ inventory \subseteq Devices
    /\ \A s \in 1..MaxRuns : excel[s].state \in {"absent", "whole", "broken"}

\* While the tab says a run is over there is no worker and no signal of one on
\* its way: a new run never meets the leftovers of the run before it, and the
\* stop button always holds the event of the worker that is at work.
RunningCoversTheWorker ==
    ~shuttingDown =>
        /\ (job.phase # "none" \/ signals # <<>>) => running
        /\ job.phase # "none" => event = job.run

\* The result shown is the content of the file the open button opens.
ShownResultIsOnDisk ==
    lastResult.has =>
        excel[lastResult.stamp] =
            [state |-> "whole", run |-> lastResult.run, rows |-> lastResult.rows]

\* After a retry every device of the earlier result still has its row, once:
\* the very same row unless the device was run again, and its new row if so.
RetryReplacesOnlyTheRerun ==
    (lastResult.has /\ lastRequest.merging) =>
        /\ Ips(lastResult.rows) = Ips(lastRequest.merge)
        /\ \A i, j \in DOMAIN lastResult.rows :
              lastResult.rows[i].ip = lastResult.rows[j].ip => i = j
        /\ \A i \in DOMAIN lastResult.rows :
              \/ lastResult.rows[i] \in ToSet(lastRequest.merge)
              \/ /\ lastResult.rows[i].ip \in lastRequest.only
                 /\ lastResult.rows[i].run = lastResult.run

\* What the tab shows of a run and its retries is complete and on disk.
ShownResultIsRight == ShownResultIsOnDisk /\ RetryReplacesOnlyTheRerun

\* A retry contacts no device whose last row says success, however the list on
\* disk has changed in between.
SuccessIsNotRunAgain ==
    (job.request.merging /\ job.phase # "none") =>
        job.targets \cap (Ips(job.request.merge) \ Failed(job.request.merge)) = {}

\* A run stopped before its last check neither shows a result nor writes its
\* file, wherever the stop request met it.
StoppedRunLeavesNothing ==
    /\ lastResult.run \notin early
    /\ \A s \in 1..MaxRuns : excel[s].run \notin early
    /\ \A i \in DOMAIN signals :
          signals[i].type = "result" => signals[i].result.run \notin early

\* A run that was started ends: the controls are released again, whether it
\* succeeded, failed or was stopped; and when the window closes over it, its
\* worker ends too.
RunsEnd == []<>((running => shuttingDown) /\ (shuttingDown => job.phase = "none"))
=============================================================================

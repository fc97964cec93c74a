--------------------------- MODULE InspectorBatch ---------------------------
(***************************************************************************)
(* A run over the device list: NetworkInspector.inspect_devices,           *)
(* run_custom_commands and inspect_and_backup_devices                      *)
(* (src/netops_suite/modules/inspector_runtime/core/inspector.py).         *)
(*                                                                         *)
(* The three methods share one shape: the job thread submits the devices   *)
(* to a ThreadPoolExecutor, the pool's threads run the device sessions of  *)
(* DeviceSession, and the job thread collects the futures as they complete *)
(* and sorts the rows.  The executor is a library; its queue and its       *)
(* futures are modelled from how the code uses them.                       *)
(***************************************************************************)
EXTENDS DeviceSession, Sequences

CONSTANTS
    Total,       \* length of the device list; a device is its device_index
    MaxWorkers   \* max_workers of the executor

ASSUME BatchAssumption ==
    /\ Total \in Nat
    /\ Devices = 1..Total
    /\ MaxWorkers \in Nat \ {0}

VARIABLES
    main,       \* where the job thread is
    submitted,  \* the devices 1..submitted have a future
    future,     \* state of each device's future
    results     \* self.results (the values of combined_results in that mode)

batchVars == <<main, submitted, future, results>>
allVars == <<vars, batchVars>>

FutureStates == {"none", "pending", "running", "finished", "cancelled", "notified"}
Running == {d \in Devices : future[d] = "running"}
Queued == {d \in Devices : future[d] \in {"pending", "cancelled"}}
Collected == {results[i].device : i \in DOMAIN results}
Orders(S) == {f \in [S -> S] : \A x \in S : \E y \in S : f[y] = x}

BatchInit ==
    /\ Init
    /\ main = "submit"
    /\ submitted = 0
    /\ future = [d \in Devices |-> "none"]
    /\ results = <<>>

----------------------------------------------------------------------------
(* The job thread.                                                         *)

\* executor.submit, unless the run is cancelled
Submit ==
    /\ main = "submit"
    /\ submitted < Total
    /\ ~cancel
    /\ submitted' = submitted + 1
    /\ future' = [future EXCEPT ![submitted + 1] = "pending"]
    /\ UNCHANGED <<vars, main, results>>

\* the loop is through the list, or leaves the rest of it unsubmitted
SubmitEnd ==
    /\ main = "submit"
    /\ cancel \/ submitted = Total
    /\ main' = "collect"
    /\ UNCHANGED <<vars, submitted, future, results>>

\* Mutant of Collect: a future is taken again.
CollectAgain(d) ==
    /\ main = "collect"
    /\ future[d] \in {"finished", "notified"}
    /\ Len(results) < Total + 1
    /\ results' = Append(results, [device |-> d, status |-> "error"])
    /\ UNCHANGED <<vars, main, submitted, future>>

\* one round of `for future in as_completed(...)`: a cancelled run cancels
\* whatever no thread has taken up; a future dropped that way raises
\* CancelledError from result() and becomes an error row like any exception
Collect(d) ==
    /\ main = "collect"
    /\ future[d] \in {"finished", "notified"}
    /\ d \notin Collected
    /\ future' = [e \in Devices |->
                    IF cancel /\ future[e] = "pending" THEN "cancelled" ELSE future[e]]
    /\ results' = Append(results,
                    [device |-> d,
                     status |-> IF future[d] = "finished" THEN row[d] ELSE "error"])
    /\ UNCHANGED <<vars, main, submitted>>

\* Mutants of Return: the rows stay in completion order; a stopped run returns
\* without waiting for its threads.
ReturnUnsorted ==
    /\ main = "collect"
    /\ \A d \in 1..submitted : d \in Collected
    /\ main' = "returned"
    /\ UNCHANGED <<vars, submitted, future, results>>
ReturnWithoutWaiting ==
    /\ main = "collect"
    /\ cancel \/ \A d \in 1..submitted : d \in Collected
    /\ main' = "returned"
    /\ UNCHANGED <<vars, submitted, future, results>>

\* every future has been yielded: the executor's `with` is left, the rows are
\* sorted by the position of their device and the method returns
Return ==
    /\ main = "collect"
    /\ \A d \in 1..submitted : d \in Collected
    /\ \E order \in Orders(DOMAIN results) :
        /\ \A i, j \in DOMAIN results :
              i < j => results[order[i]].device < results[order[j]].device
        /\ results' = [i \in DOMAIN results |-> results[order[i]]]
    /\ main' = "returned"
    /\ UNCHANGED <<vars, submitted, future>>

----------------------------------------------------------------------------
(* The executor's threads: at most MaxWorkers, a first-in first-out queue. *)

HeadOfQueue(d) == d \in Queued /\ \A e \in Queued : d <= e

\* a free thread takes the head of the queue
PickUp(d) ==
    /\ future[d] = "pending"
    /\ HeadOfQueue(d)
    /\ Cardinality(Running) < MaxWorkers
    /\ Start(d)
    /\ future' = [future EXCEPT ![d] = "running"]
    /\ UNCHANGED <<main, submitted, results>>

\* Mutant of SkipCancelled: the thread never reports a cancelled future.
SkipCancelledSilently(d) ==
    /\ future[d] = "cancelled"
    /\ HeadOfQueue(d)
    /\ UNCHANGED allVars

\* a cancelled future is only reported to as_completed once a thread meets it
SkipCancelled(d) ==
    /\ future[d] = "cancelled"
    /\ HeadOfQueue(d)
    /\ Cardinality(Running) < MaxWorkers
    /\ future' = [future EXCEPT ![d] = "notified"]
    /\ UNCHANGED <<vars, main, submitted, results>>

Talk(d) == Converse(d) /\ UNCHANGED batchVars

\* the wrapper's row becomes the future's result
Complete(d) ==
    /\ Finish(d)
    /\ future' = [future EXCEPT ![d] = "finished"]
    /\ UNCHANGED <<main, submitted, results>>

----------------------------------------------------------------------------
(* The specification.                                                      *)

RequestStop == Cancel /\ UNCHANGED batchVars

JobThread == Submit \/ SubmitEnd \/ (\E d \in Devices : Collect(d)) \/ Return
Pool == \E d \in Devices : PickUp(d) \/ SkipCancelled(d)

BatchTerminated == main = "returned" /\ UNCHANGED allVars

BatchNext ==
    \/ JobThread
    \/ Pool
    \/ \E d \in Devices : Talk(d) \/ Complete(d)
    \/ RequestStop
    \/ BatchTerminated

\* The job thread, the pool and each busy thread keep running; stopping the
\* run is up to the user.
BatchFairness ==
    /\ WF_allVars(JobThread)
    /\ WF_allVars(Pool)
    /\ \A d \in Devices : WF_allVars(Talk(d) \/ Complete(d))

BatchSpec == BatchInit /\ [][BatchNext]_allVars /\ BatchFairness

----------------------------------------------------------------------------
(* Properties.                                                             *)

\* The variables of the batch have their types.
BatchTypeOK ==
    /\ main \in {"submit", "collect", "returned"}
    /\ submitted \in 0..Total
    /\ future \in [Devices -> FutureStates]
    /\ results \in Seq([device : Devices, status : {"success", "error"}])

\* A device has at most one row in the list, cancelled or not.
NoDuplicateRow ==
    \A i, j \in DOMAIN results :
        results[i].device = results[j].device => i = j

\* The list that comes back is in the order of the inventory, has a row for
\* every device that was submitted, and for every device unless the run was
\* stopped; a success row belongs to a session that succeeded.
ReturnedListIsRight ==
    main = "returned" =>
        /\ \A i, j \in DOMAIN results :
              i < j => results[i].device < results[j].device
        /\ Collected = 1..submitted
        /\ cancel \/ submitted = Total
        /\ \A i \in DOMAIN results :
              results[i].status = "success" => outcome[results[i].device] = "ok"

\* No thread, no session that logged in and no queued device outlives the batch.
NothingRunsAfterReturn ==
    main = "returned" =>
        /\ Running = {} /\ Queued = {}
        /\ \A d \in Devices : pc[d] \in {"idle", "done"} /\ ~held[d]

\* After a stop request the whole run sends at most one command per worker:
\* devices taken up later, and retries, send nothing.
StopSparesOneCommandPerWorker == Cardinality({d \in Devices : late[d] > 0}) <= MaxWorkers

\* The devices are taken up in the order of the list: one that waits never has
\* a later one started before it.
TakenUpInOrder ==
    \A d, e \in Devices :
        (d < e /\ pc[e] # "idle") => future[d] \in {"running", "finished", "notified"}

\* The batch method returns, whatever the devices do and whether or not it is
\* stopped.
BatchReturns == <>(main = "returned")

\* The refinement mapping: what a future's state says of the work on its device.
Work == [d \in Devices |->
            CASE future[d] = "running" -> "active"
              [] future[d] \in {"finished", "notified"} -> "over"
              [] OTHER -> "waiting"]
RowSet == {results[i] : i \in DOMAIN results}

Promise == INSTANCE BatchPromise WITH
    work <- Work, rows <- RowSet, returned <- (main = "returned")

\* The batch keeps the promise of BatchPromise: whatever is stopped, fails or
\* finishes out of order, its steps are those of the contract the service uses.
PromiseKept == Promise!Spec
=============================================================================

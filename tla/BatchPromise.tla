---------------------------- MODULE BatchPromise ----------------------------
(***************************************************************************)
(* What a run over the device list promises to the service that starts it, *)
(* whatever happens on the devices: the contract NetworkInspector's three  *)
(* batch methods (inspect_devices, run_custom_commands,                    *)
(* inspect_and_backup_devices) keep and InspectorService.run relies on.    *)
(***************************************************************************)
EXTENDS Naturals, FiniteSets

CONSTANTS Devices, MaxWorkers

VARIABLES
    cancel,    \* the stop request
    work,      \* per device: waiting, active on a thread, or over
    rows,      \* the rows reported so far
    returned   \* the batch method has returned

vars == <<cancel, work, rows, returned>>

Statuses == {"success", "error"}
Active == {d \in Devices : work[d] = "active"}
Reported == {r.device : r \in rows}

Init ==
    /\ cancel = FALSE
    /\ work = [d \in Devices |-> "waiting"]
    /\ rows = {}
    /\ returned = FALSE

\* A thread takes up a device.
Take(d) ==
    /\ ~returned
    /\ work[d] = "waiting"
    /\ Cardinality(Active) < MaxWorkers
    /\ work' = [work EXCEPT ![d] = "active"]
    /\ UNCHANGED <<cancel, rows, returned>>

\* Its thread is through with the device.
Release(d) ==
    /\ work[d] = "active"
    /\ work' = [work EXCEPT ![d] = "over"]
    /\ UNCHANGED <<cancel, rows, returned>>

\* A stop request may drop a device no thread has taken up.
Drop(d) ==
    /\ cancel
    /\ work[d] = "waiting"
    /\ work' = [work EXCEPT ![d] = "over"]
    /\ UNCHANGED <<cancel, rows, returned>>

\* A device that is over gets its only row.
Report(d, status) ==
    /\ ~returned
    /\ work[d] = "over"
    /\ d \notin Reported
    /\ rows' = rows \cup {[device |-> d, status |-> status]}
    /\ UNCHANGED <<cancel, work, returned>>

\* The method returns when no thread is at work, every device that is over has
\* its row and, unless the run was stopped, every device is over.
Return ==
    /\ ~returned
    /\ Active = {}
    /\ \A d \in Devices : work[d] = "over" => d \in Reported
    /\ cancel \/ \A d \in Devices : work[d] = "over"
    /\ returned' = TRUE
    /\ UNCHANGED <<cancel, work, rows>>

Cancel ==
    /\ cancel' = TRUE
    /\ UNCHANGED <<work, rows, returned>>

Next ==
    \/ Cancel
    \/ Return
    \/ \E d \in Devices :
        \/ Take(d) \/ Release(d) \/ Drop(d)
        \/ \E status \in Statuses : Report(d, status)

Spec == Init /\ [][Next]_vars /\ WF_vars(Return)

=============================================================================

---------------------------- MODULE PortableSwap ----------------------------
(***************************************************************************)
(* The updater process of a portable copy (src/app/portable_update.py):    *)
(* run_apply_cli waits for the old program, apply_portable_update swaps    *)
(* the shipped items of the program folder one by one with a backup        *)
(* folder, the outcome goes to a result file and the program is started    *)
(* again, whose window shows the outcome (src/app/main_window.py).         *)
(*                                                                         *)
(* The file system is modelled item by item: a rename takes effect or not, *)
(* a copy or a removal may also stop half way, and the process or the      *)
(* medium may disappear between any two of them.                           *)
(***************************************************************************)
EXTENDS Naturals

CONSTANTS
    Items,     \* number of items the release ships; an item is its sorted rank
    Existing,  \* the shipped items the old version has too
    Exe        \* the executable

ASSUME SwapAssumption ==
    /\ Items \in Nat
    /\ Existing \subseteq 1..Items
    /\ Exe \in Existing

VARIABLES
    app,      \* the old program: running, or exited
    pc,       \* where the updater is
    next,     \* the item its loop is at
    live,     \* the program folder: what is there of each item
    kept,     \* the backup folder
    moved,    \* the list of that name
    copied,   \* the list of that name
    errors,   \* rollback_errors is not empty
    report,   \* the outcome the updater arrived at
    file,     \* the result file
    shown     \* what the restarted program showed

vars == <<app, pc, next, live, kept, moved, copied, errors, report, file, shown>>
folders == <<live, kept>>
lists == <<moved, copied>>

Shipped == 1..Items
Contents == {"absent", "old", "new", "partial"}
Reports == {"none", "success", "refused", "reverted", "stuck"}
Places == {"wait", "validate", "move", "copy", "uncopy", "unmove", "cleanup",
           "write", "relaunch", "done", "crashed"}
Busy == Places \ {"done", "crashed"}

Init ==
    /\ app = "running"
    /\ pc = "wait"
    /\ next = 1
    /\ live = [i \in Shipped |-> IF i \in Existing THEN "old" ELSE "absent"]
    /\ kept = [i \in Shipped |-> "absent"]
    /\ moved = {} /\ copied = {}
    /\ errors = FALSE
    /\ report = "none" /\ file = "none" /\ shown = "none"

----------------------------------------------------------------------------
(* The old program closes its window, or does not.                         *)

OldExits ==
    /\ app = "running"
    /\ app' = "exited"
    /\ UNCHANGED <<pc, next, folders, lists, errors, report, file, shown>>

----------------------------------------------------------------------------
(* The updater.                                                            *)

\* WaitForSingleObject returns when the process ended or the limit is over;
\* the two are not told apart
WaitForExit ==
    /\ pc = "wait"
    /\ pc' = "validate"
    /\ UNCHANGED <<app, next, folders, lists, errors, report, file, shown>>

Refuse ==
    /\ pc' = "write"
    /\ report' = "refused"
    /\ UNCHANGED next

\* Payload, target and backup folder are checked before anything is touched.
Validate ==
    /\ pc = "validate"
    /\ \/ live[Exe] # "absent" /\ pc' = "move" /\ next' = 1 /\ UNCHANGED report
       \/ Refuse
    /\ UNCHANGED <<app, folders, lists, errors, file, shown>>

\* the next round of the loop the updater is in, or the place after it
Advance(place) ==
    IF next < Items THEN pc' = pc /\ next' = next + 1
                    ELSE pc' = place /\ next' = 1

Rollback == pc' = "uncopy" /\ next' = 1

\* Mutant of MoveAside: the list is written before the rename.
MoveAsideListedFirst ==
    /\ pc = "move"
    /\ \/ /\ live[next] = "absent"
          /\ Advance("copy")
          /\ UNCHANGED <<folders, moved>>
       \/ /\ live[next] # "absent"
          /\ live' = [live EXCEPT ![next] = "absent"]
          /\ kept' = [kept EXCEPT ![next] = live[next]]
          /\ moved' = moved \cup {next}
          /\ Advance("copy")
       \/ /\ live[next] # "absent"
          /\ Rollback
          /\ moved' = moved \cup {next}
          /\ UNCHANGED folders
    /\ UNCHANGED <<app, copied, errors, report, file, shown>>

\* first loop: what is there goes to the backup folder; a lock is waited for,
\* and may outlast the wait
MoveAside ==
    /\ pc = "move"
    /\ \/ /\ live[next] = "absent"
          /\ Advance("copy")
          /\ UNCHANGED <<folders, moved>>
       \/ /\ live[next] # "absent"
          /\ live' = [live EXCEPT ![next] = "absent"]
          /\ kept' = [kept EXCEPT ![next] = live[next]]
          /\ moved' = moved \cup {next}
          /\ Advance("copy")
       \/ /\ live[next] # "absent"
          /\ Rollback
          /\ UNCHANGED <<folders, moved>>
    /\ UNCHANGED <<app, copied, errors, report, file, shown>>

\* Mutant of CopyNew: a copy that stops half way counts as done.
CopyNewUnchecked ==
    /\ pc = "copy"
    /\ \E left \in {"new", "partial"} : live' = [live EXCEPT ![next] = left]
    /\ copied' = copied \cup {next}
    /\ Advance("cleanup")
    /\ UNCHANGED <<app, kept, moved, errors, report, file, shown>>

\* second loop: the shipped items are copied; a copy that fails may leave a part
CopyNew ==
    /\ pc = "copy"
    /\ \/ /\ live' = [live EXCEPT ![next] = "new"]
          /\ copied' = copied \cup {next}
          /\ Advance("cleanup")
       \/ /\ \E left \in {"absent", "partial"} : live' = [live EXCEPT ![next] = left]
          /\ Rollback
          /\ UNCHANGED copied
    /\ UNCHANGED <<app, kept, moved, errors, report, file, shown>>

\* roll back, first loop: remove what was copied
RemoveCopied ==
    /\ pc = "uncopy"
    /\ \/ next \notin copied /\ UNCHANGED <<live, errors>>
       \/ /\ next \in copied
          /\ live' = [live EXCEPT ![next] = "absent"]
          /\ UNCHANGED errors
       \/ /\ next \in copied
          /\ \E left \in {"new", "partial"} : live' = [live EXCEPT ![next] = left]
          /\ errors' = TRUE
    /\ Advance("unmove")
    /\ UNCHANGED <<app, kept, lists, report, file, shown>>

\* what can be left in a place that was to be cleared
Clearing == IF live[next] = "absent" THEN {"absent"} ELSE {"absent", "partial", live[next]}

\* roll back, second loop: clear the place and move the old item back; either
\* half may fail, and what does fail is noted
PutBack ==
    /\ pc = "unmove"
    /\ \/ next \notin moved /\ UNCHANGED <<folders, errors>>
       \/ /\ next \in moved
          /\ live' = [live EXCEPT ![next] = kept[next]]
          /\ kept' = [kept EXCEPT ![next] = "absent"]
          /\ UNCHANGED errors
       \/ /\ next \in moved
          /\ \E left \in Clearing : live' = [live EXCEPT ![next] = left]
          /\ errors' = TRUE
          /\ UNCHANGED kept
    /\ Advance("cleanup")
    /\ UNCHANGED <<app, lists, report, file, shown>>

\* the backup folder is removed, as far as that works, after a swap and after
\* a clean roll back, and stays when the roll back met an error
Cleanup ==
    /\ pc = "cleanup"
    /\ \/ /\ errors
          /\ report' = "stuck"
          /\ UNCHANGED kept
       \/ /\ ~errors
          /\ report' = IF copied = Shipped THEN "success" ELSE "reverted"
          /\ \E gone \in SUBSET Shipped :
                kept' = [i \in Shipped |-> IF i \in gone THEN "absent" ELSE kept[i]]
    /\ pc' = "write"
    /\ UNCHANGED <<app, next, live, lists, errors, file, shown>>

\* a result file that cannot be written is done without
WriteResult ==
    /\ pc = "write"
    /\ file' \in {file, report}
    /\ pc' = "relaunch"
    /\ UNCHANGED <<app, next, folders, lists, errors, report, shown>>

Relaunch ==
    /\ pc = "relaunch"
    /\ pc' = "done"
    /\ UNCHANGED <<app, next, folders, lists, errors, report, file, shown>>

----------------------------------------------------------------------------
(* The surroundings.                                                       *)

\* the process is killed, the medium pulled or the power lost
Crash ==
    /\ pc \in Busy \ {"wait"}
    /\ pc' = "crashed"
    /\ UNCHANGED <<app, next, folders, lists, errors, report, file, shown>>

\* The program is started, by the updater or by hand, reads the result file
\* once and removes it; only a whole executable starts.
StartProgram ==
    /\ pc \in {"done", "crashed"}
    /\ live[Exe] \in {"old", "new"}
    /\ file # "none"
    /\ shown' = file
    /\ file' \in {"none", file}
    /\ UNCHANGED <<app, pc, next, folders, lists, errors, report>>

Updater ==
    \/ WaitForExit \/ Validate
    \/ MoveAside \/ CopyNew
    \/ RemoveCopied \/ PutBack
    \/ Cleanup \/ WriteResult \/ Relaunch

Finished == pc \in {"done", "crashed"} /\ UNCHANGED vars

Next == OldExits \/ Updater \/ Crash \/ StartProgram \/ Finished

\* The updater keeps running, or is killed.
Spec == Init /\ [][Next]_vars /\ WF_vars(Updater)

----------------------------------------------------------------------------
(* Properties.                                                             *)

\* The variables have their types.
TypeOK ==
    /\ app \in {"running", "exited"}
    /\ pc \in Places
    /\ next \in 1..Items
    /\ live \in [Shipped -> Contents]
    /\ kept \in [Shipped -> {"absent", "old"}]
    /\ moved \subseteq Existing
    /\ copied \subseteq Shipped
    /\ errors \in BOOLEAN
    /\ report \in Reports /\ file \in Reports /\ shown \in Reports

WholeNew == \A i \in Shipped : live[i] = "new"
WholeOld == \A i \in Existing : live[i] = "old"

\* At every moment, a crash between two renames and a failed roll back included,
\* the new version is whole in the program folder or each item of the old one
\* still exists, in the program folder or in the backup folder.
OldVersionIsNeverLost ==
    WholeNew \/ \A i \in Existing : live[i] = "old" \/ kept[i] = "old"

\* What the updater reports is what is in the folder: a success is the whole
\* new version, a refused or reverted update the whole old one.
ReportIsTrue ==
    /\ report = "success" => WholeNew
    /\ report \in {"refused", "reverted"} => WholeOld

\* A program folder without the executable is never left behind by an update
\* that came to its end without calling it stuck.
ExecutableIsThere == (pc = "done" /\ report # "stuck") => live[Exe] \in {"old", "new"}

\* The result the restarted program shows is the result of that update, and a
\* success it shows stands for the whole new version.
ShownSuccessIsWhole == shown = "success" => WholeNew

\* The updater comes to its end, whatever fails and whether or not the old
\* program exits.
UpdaterEnds == <>(pc \in {"done", "crashed"})

\* The window that reports a failed update says the previous version was run
\* as it was (src/app/main_window.py:1013).
ShownFailureMeansOldVersion == shown \in {"refused", "reverted", "stuck"} => WholeOld

\* The updater waits for the old program to exit and then swaps the files
\* (src/app/portable_update.py:5).
SwapsAfterExit == pc \in {"move", "copy"} => app = "exited"
=============================================================================

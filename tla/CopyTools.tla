----------------------------- MODULE CopyTools -----------------------------
(***************************************************************************)
(* The SCP and TFTP clients: their tabs (ui/tabs/diagnostics/scp.py and    *)
(* tftp.py) and services (scp_client_service.py, tftp_service.py).  A tab  *)
(* runs one job at a time; the job talks to a device that may refuse, fall *)
(* silent or go away after every byte, and the user may stop it at any     *)
(* moment.  The results of the job are kept in the order in which the      *)
(* table shows them, so that the last one about a file can be compared     *)
(* with the file.                                                          *)
(***************************************************************************)
EXTENDS Naturals, Sequences, FiniteSets

CONSTANTS
    CopyNames,      \* file names, the same on both sides
    MaxCopyPaths,   \* bound: paths asked for in one job
    MaxCopyItems,   \* bound: protocol records a device sends for one path
    MaxCopyJobs     \* bound: jobs started in a behaviour

ASSUME CopyAssumption ==
    /\ MaxCopyPaths \in Nat \ {0} /\ MaxCopyItems \in Nat /\ MaxCopyJobs \in Nat
    /\ "none" \notin CopyNames

VARIABLES
    copyTool,   \* "scp" or "tftp": the tab in use
    copyTab,    \* the tab: busy, the cancel event of its job, the window closing
    copyWork,   \* the job and where it is
    copyRows,   \* its results, oldest first
    copyDisk    \* the files of both sides

copyVars == <<copyTool, copyTab, copyWork, copyRows, copyDisk>>

NoWork == [op |-> "none", st |-> "idle", paths |-> <<>>, at |-> 0, name |-> "none", items |-> 0,
           first |-> 0, outcome |-> "none"]

CopyInit ==
    /\ copyTool \in {"scp", "tftp"}
    /\ copyTab = [busy |-> FALSE, stop |-> FALSE, closing |-> FALSE, started |-> 0]
    /\ copyWork = NoWork
    /\ copyRows = <<>>
    /\ copyDisk = [side \in {"local", "remote"} |-> [f \in CopyNames |-> "none"]]

----------------------------------------------------------------------------
(* The tabs.                                                               *)

Paths == UNION {[1..n -> CopyNames] : n \in 1..MaxCopyPaths}

\* the table is emptied, a new cancel event is made and the worker started
StartCopy(tool, op, paths) ==
    /\ copyTool = tool
    /\ ~copyTab.busy /\ ~copyTab.closing /\ copyTab.started < MaxCopyJobs
    /\ copyTab' = [copyTab EXCEPT !.busy = TRUE, !.stop = FALSE, !.started = @ + 1]
    /\ copyWork' = [NoWork EXCEPT !.op = op, !.st = "new", !.paths = paths]
    /\ copyRows' = <<>>
    /\ UNCHANGED <<copyTool, copyDisk>>

UploadScpFiles == \E paths \in Paths : StartCopy("scp", "upload", paths)
DownloadScpFiles == \E paths \in Paths : StartCopy("scp", "download", paths)
StartTftpUpload == \E f \in CopyNames : StartCopy("tftp", "upload", <<f>>)
StartTftpDownload == \E f \in CopyNames : StartCopy("tftp", "download", <<f>>)

CancelCopy ==
    /\ copyTab.busy
    /\ copyTab' = [copyTab EXCEPT !.stop = TRUE]
    /\ UNCHANGED <<copyTool, copyWork, copyRows, copyDisk>>

\* result, error and finished all end in set_busy(False)
FinishCopy ==
    /\ copyWork.st = "posted"
    /\ copyTab' = [copyTab EXCEPT !.busy = FALSE]
    /\ copyWork' = [copyWork EXCEPT !.st = "idle"]
    /\ UNCHANGED <<copyTool, copyRows, copyDisk>>

----------------------------------------------------------------------------
(* Steps of the services.                                                  *)

At(op, st) == copyWork.op = op /\ copyWork.st = st
Path == copyWork.paths[copyWork.at]
Row(name, status) == [path |-> copyWork.at, name |-> name, status |-> status]
Put(side, name, what) == copyDisk' = [copyDisk EXCEPT ![side][name] = what]
Ends(outcome) == copyWork' = [copyWork EXCEPT !.st = "posted", !.outcome = outcome]
LastRowBecomes(status) == copyRows' = [copyRows EXCEPT ![Len(copyRows)].status = status]

\* connect, log in and, for an upload, start scp -t: the client is closed in every failure
OpenSshClient ==
    /\ copyTool = "scp" /\ copyWork.st = "new"
    /\ Ends("error") \/ copyWork' = [copyWork EXCEPT !.st = "next"]
    /\ UNCHANGED <<copyTool, copyTab, copyRows, copyDisk>>

\* upload_files: the event is looked at before every file; the file in flight has no final row
SendNextFile ==
    /\ At("upload", "next") /\ copyTool = "scp"
    /\ IF copyTab.stop
       THEN Ends("stopped") /\ UNCHANGED <<copyRows, copyDisk>>
       ELSE IF copyWork.at = Len(copyWork.paths)
       THEN Ends("result") /\ UNCHANGED <<copyRows, copyDisk>>
       ELSE \/ Ends("error") /\ UNCHANGED <<copyRows, copyDisk>>
            \/ /\ copyWork' = [copyWork EXCEPT !.st = "sending", !.at = @ + 1]
               /\ copyRows' = Append(copyRows, [path |-> copyWork.at + 1,
                                                name |-> copyWork.paths[copyWork.at + 1], status |-> "running"])
               /\ Put("remote", copyWork.paths[copyWork.at + 1], "part")
    /\ UNCHANGED <<copyTool, copyTab>>

SendFile ==
    /\ At("upload", "sending") /\ copyTool = "scp"
    /\ \/ copyTab.stop /\ Ends("stopped") /\ UNCHANGED <<copyRows, copyDisk>>
       \/ Ends("error") /\ UNCHANGED <<copyRows, copyDisk>>
       \/ /\ copyWork' = [copyWork EXCEPT !.st = "next"]
          /\ LastRowBecomes("done")
          /\ Put("remote", Path, "whole")
    /\ UNCHANGED <<copyTool, copyTab>>

\* download_files: the next path gets a channel of its own
NextSource ==
    /\ At("download", "next") /\ copyTool = "scp"
    /\ IF copyTab.stop
       THEN Ends("stopped")
       ELSE IF copyWork.at = Len(copyWork.paths)
       THEN Ends("result")
       ELSE copyWork' = [copyWork EXCEPT !.st = "source", !.at = @ + 1, !.items = 0, !.first = Len(copyRows) + 1]
    /\ UNCHANGED <<copyTool, copyTab, copyRows, copyDisk>>

\* any other exception of a path becomes a row of its own, and the next path is tried
SourceFails ==
    /\ At("download", "source") /\ copyTool = "scp"
    /\ copyRows' = Append(copyRows, Row("none", "failed"))
    /\ copyWork' = [copyWork EXCEPT !.st = "next"]
    /\ UNCHANGED <<copyTool, copyTab, copyDisk>>

Record == At("download", "source") /\ copyTool = "scp" /\ copyWork.items < MaxCopyItems

\* T, D and E are acknowledged; they only change what the next file is called
ReceiveControl ==
    /\ Record
    /\ copyWork' = [copyWork EXCEPT !.items = @ + 1]
    /\ UNCHANGED <<copyTool, copyTab, copyRows, copyDisk>>

\* 1 is a warning about one file, 2 ends the path
ReceiveError ==
    /\ Record
    /\ copyRows' = Append(copyRows, Row("none", "failed"))
    /\ \E ends \in BOOLEAN : copyWork' = [copyWork EXCEPT !.items = @ + 1, !.st = IF ends THEN "next" ELSE @]
    /\ UNCHANGED <<copyTool, copyTab, copyDisk>>

\* C: the row is there before the file is opened
ReceiveHeader ==
    /\ Record
    /\ \E f \in CopyNames :
           /\ copyRows' = Append(copyRows, Row(f, "running"))
           /\ Put("local", f, "part")
           /\ copyWork' = [copyWork EXCEPT !.items = @ + 1, !.st = "receiving", !.name = f]
    /\ UNCHANGED <<copyTool, copyTab>>

ReceiveWhole ==
    /\ At("download", "receiving") /\ copyTool = "scp"
    /\ LastRowBecomes("done") /\ Put("local", copyWork.name, "whole")
    /\ copyWork' = [copyWork EXCEPT !.st = "source"]
    /\ UNCHANGED <<copyTool, copyTab>>

\* Mutant of ReceiveFails: the exception leaves the file where it is.
ReceiveFailsKeepsFile ==
    /\ At("download", "receiving") /\ copyTool = "scp"
    /\ LastRowBecomes("failed") /\ UNCHANGED copyDisk
    /\ copyWork' = [copyWork EXCEPT !.st = "next"]
    /\ UNCHANGED <<copyTool, copyTab>>

\* _ReportedScpFailure: the file is removed, its row already says so, the path is over
ReceiveFails ==
    /\ At("download", "receiving") /\ copyTool = "scp"
    /\ LastRowBecomes("failed") /\ Put("local", copyWork.name, "none")
    /\ copyWork' = [copyWork EXCEPT !.st = "next"]
    /\ UNCHANGED <<copyTool, copyTab>>

\* the file cannot be removed: its row stays as it is and the path gets a row of its own, stopped or not
RemovalFails ==
    /\ At("download", "receiving") /\ copyTool = "scp"
    /\ copyRows' = Append(copyRows, Row("none", "failed"))
    /\ copyWork' = [copyWork EXCEPT !.st = "next"]
    /\ UNCHANGED <<copyTool, copyTab, copyDisk>>

ReceiveStops ==
    /\ At("download", "receiving") /\ copyTool = "scp" /\ copyTab.stop
    /\ LastRowBecomes("stopped") /\ Put("local", copyWork.name, "none")
    /\ Ends("stopped")
    /\ UNCHANGED <<copyTool, copyTab>>

\* the channel ends: a path that brought neither a file nor a warning has failed
SourceEnds ==
    /\ At("download", "source") /\ copyTool = "scp"
    /\ copyWork' = [copyWork EXCEPT !.st = "next"]
    /\ copyRows' = IF Len(copyRows) < copyWork.first THEN Append(copyRows, Row("none", "failed")) ELSE copyRows
    /\ UNCHANGED <<copyTool, copyTab, copyDisk>>

\* tftpy opens the local file, or asks the server to, before the first packet
StartTftp ==
    /\ copyTool = "tftp" /\ copyWork.st = "new"
    /\ LET side == IF copyWork.op = "download" THEN "local" ELSE "remote" IN
       \/ Ends("error") /\ UNCHANGED <<copyRows, copyDisk>>
       \/ /\ copyWork' = [copyWork EXCEPT !.st = "packets", !.at = 1]
          /\ copyRows' = <<[path |-> 1, name |-> copyWork.paths[1], status |-> "running"]>>
          /\ Put(side, copyWork.paths[1], "part")
    /\ UNCHANGED <<copyTool, copyTab>>

\* the event is only looked at when a packet comes; silence ends in an error after the retries
TftpDownload ==
    /\ copyTool = "tftp" /\ At("download", "packets")
    /\ \/ copyTab.stop /\ LastRowBecomes("stopped") /\ Put("local", Path, "none") /\ Ends("stopped")
       \/ LastRowBecomes("done") /\ Put("local", Path, "whole") /\ Ends("result")
       \/ Ends("error") /\ UNCHANGED <<copyRows, copyDisk>>
    /\ UNCHANGED <<copyTool, copyTab>>

TftpUpload ==
    /\ copyTool = "tftp" /\ At("upload", "packets")
    /\ \/ copyTab.stop /\ LastRowBecomes("stopped") /\ Ends("stopped") /\ UNCHANGED copyDisk
       \/ LastRowBecomes("done") /\ Put("remote", Path, "whole") /\ Ends("result")
       \/ Ends("error") /\ UNCHANGED <<copyRows, copyDisk>>
    /\ UNCHANGED <<copyTool, copyTab>>

\* shutdown sets the event of a job that runs
CopyShutdown ==
    /\ ~copyTab.closing
    /\ copyTab' = [copyTab EXCEPT !.closing = TRUE, !.stop = copyTab.busy \/ @]
    /\ UNCHANGED <<copyTool, copyWork, copyRows, copyDisk>>

----------------------------------------------------------------------------
CopyClicks == UploadScpFiles \/ DownloadScpFiles \/ StartTftpUpload \/ StartTftpDownload \/ CancelCopy \/ CopyShutdown

CopySteps ==
    \/ OpenSshClient \/ SendNextFile \/ SendFile
    \/ NextSource \/ SourceFails \/ ReceiveControl \/ ReceiveError \/ ReceiveHeader
    \/ ReceiveWhole \/ ReceiveFails \/ RemovalFails \/ ReceiveStops \/ SourceEnds
    \/ StartTftp \/ TftpDownload \/ TftpUpload

CopyNext == CopyClicks \/ CopySteps \/ FinishCopy

CopySpec == CopyInit /\ [][CopyNext]_copyVars

\* every wait of a service has a time-out, and a device sends a finite tree
CopyFairness == WF_copyVars(CopySteps \/ FinishCopy)

----------------------------------------------------------------------------
(* Properties.                                                             *)

Target == IF copyWork.op = "download" THEN "local" ELSE "remote"
About(f) == {i \in DOMAIN copyRows : copyRows[i].name = f}

\* The last row about a file tells what became of it: complete means whole; stopped or failed, for an
\* SCP download, means removed.  An earlier row about the same file may be overtaken: two paths with
\* the same last name land in one file (_receive_file, _send_file, download_file, upload_file).
LastRowTellsTheFile ==
    \A f \in CopyNames : About(f) # {} =>
        LET i == CHOOSE i \in About(f) : \A k \in About(f) : k <= i
            status == copyRows[i].status
        IN  /\ status = "done" => copyDisk[Target][f] = "whole"
            /\ status \in {"stopped", "failed"} /\ copyWork.op = "download" => copyDisk[Target][f] = "none"

\* A download that was not stopped has, for every path that was asked for, a row that says complete
\* or failed: one path that fails does not stop the rest (download_files, _receive_sources).
EveryPathReported ==
    (copyTool = "scp" /\ copyWork.op = "download" /\ copyWork.outcome = "result") =>
        \A p \in DOMAIN copyWork.paths :
            \E i \in DOMAIN copyRows : copyRows[i].path = p /\ copyRows[i].status \in {"done", "failed"}

\* What the rows say of a copy is true, and nothing asked for is passed over.
CopyReportIsTrue == LastRowTellsTheFile /\ EveryPathReported
=============================================================================

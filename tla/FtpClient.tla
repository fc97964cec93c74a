----------------------------- MODULE FtpClient -----------------------------
(***************************************************************************)
(* The FTP, FTPS and SFTP client: the tab (ui/tabs/diagnostics/ftp.py) and *)
(* the sessions of services/ftp_client_service.py.  Every click becomes a  *)
(* job of the thread pool; a job finds its session, waits for the          *)
(* session's lock, works and posts what became of it to the window.        *)
(*                                                                         *)
(* A session is named by the job that opened it.  What happens to a file   *)
(* is kept with the job that did it, so that a row can be compared with    *)
(* the file it speaks of.                                                  *)
(***************************************************************************)
EXTENDS Naturals, Sequences, FiniteSets

CONSTANTS
    FtpFiles,    \* names, the same on both sides
    MaxFtpJobs   \* bound: jobs started in a behaviour

ASSUME FtpAssumption == MaxFtpJobs \in Nat

VARIABLES
    ftpTab,    \* what the tab knows, and the habits of its user
    ftpJobs,   \* the jobs started so far
    ftpQueue,  \* jobs whose last signals wait for the window's thread
    ftpLinks,  \* the service: sessions registered, links open, lock holders
    ftpDisk    \* the files of both sides, and the list the tab shows

ftpVars == <<ftpTab, ftpJobs, ftpQueue, ftpLinks, ftpDisk>>

FtpJob == DOMAIN ftpJobs
Transfers == {"upload", "download"}
Changes == Transfers \cup {"mkdir", "rename", "delete"}
Unfinished == {j \in FtpJob : ftpJobs[j].st # "finished"}
Side(op) == IF op = "download" THEN "local" ELSE "remote"
Untouched == [what |-> "none", by |-> 0]

FtpInit ==
    /\ ftpTab \in [connected : {FALSE}, busy : {FALSE}, sid : {0}, cancels : {0}, closing : {FALSE},
                   patient : BOOLEAN, protocol : {"ftp", "sftp"}]
    /\ ftpJobs = <<>>
    /\ ftpQueue = <<>>
    /\ ftpLinks = [sessions |-> {}, open |-> {}, holder |-> [s \in 1..MaxFtpJobs |-> 0]]
    /\ ftpDisk \in [local : {[f \in FtpFiles |-> Untouched]},
                    remote : [FtpFiles -> {Untouched, [what |-> "old", by |-> 0], [what |-> "dir", by |-> 0]}],
                    shown : {[f \in FtpFiles |-> Untouched]}]

----------------------------------------------------------------------------
(* The window.                                                             *)

Room(op) ==
    Len(ftpJobs) + Cardinality({j \in Unfinished : ftpJobs[j].op \in Changes})
        + (IF op \in Changes THEN 2 ELSE 1) <= MaxFtpJobs

\* _start_worker: nothing is started any more once the window is closing
StartFtpJob(op, sid, todo) ==
    /\ ~ftpTab.closing
    /\ ftpJobs' = Append(ftpJobs,
           [op |-> op, sid |-> sid, st |-> "new", todo |-> todo, cancel |-> FALSE, outcome |-> "none",
            row |-> [f \in FtpFiles |-> "none"], seen |-> ftpDisk.shown])

Click(op, todo) ==
    /\ Room(op)
    /\ StartFtpJob(op, ftpTab.sid, todo)
    /\ ftpTab' = [ftpTab EXCEPT !.busy = TRUE,
                                !.cancels = IF op \in Transfers THEN Len(ftpJobs) + 1 ELSE @]
    /\ UNCHANGED <<ftpQueue, ftpLinks, ftpDisk>>

ConnectClick ==
    /\ ~ftpTab.busy /\ ~ftpTab.connected
    /\ Room("connect")
    /\ StartFtpJob("connect", 0, <<>>)
    /\ ftpTab' = [ftpTab EXCEPT !.busy = TRUE, !.cancels = 0]
    /\ UNCHANGED <<ftpQueue, ftpLinks, ftpDisk>>

\* the buttons of a connected and idle tab
ButtonsEnabled == ftpTab.connected /\ ~ftpTab.busy /\ ftpTab.sid # 0

\* the file dialog and the list give each name once
Pairs == {p \in FtpFiles \X FtpFiles : p[1] # p[2]}

DisconnectClick == ButtonsEnabled /\ Click("disconnect", <<>>)
RefreshClick == ButtonsEnabled /\ Click("list", <<>>)
UploadClick == ButtonsEnabled /\ \E fs \in {<<f>> : f \in FtpFiles} \cup {<<p[1], p[2]>> : p \in Pairs} :
                   Click("upload", fs)
DownloadClick == ButtonsEnabled /\ \E f, g \in {x \in FtpFiles : ftpDisk.shown[x].what # "none"} :
                   Click("download", IF f = g THEN <<f>> ELSE <<f, g>>)
FolderClick == ButtonsEnabled /\ \E f \in FtpFiles : Click("mkdir", <<f>>)
RenameClick == ButtonsEnabled /\ \E f, g \in FtpFiles :
                   ftpDisk.shown[f].what # "none" /\ Click("rename", <<f, g>>)
DeleteClick == ButtonsEnabled /\ \E f, g \in {x \in FtpFiles : ftpDisk.shown[x].what # "none"} :
                   Click("delete", IF f = g THEN <<f>> ELSE <<f, g>>)

\* the table of a connected tab is enabled while a job runs; a patient user waits
OpenFolder ==
    /\ ftpTab.connected
    /\ ftpTab.busy => ~ftpTab.patient
    /\ \E f \in FtpFiles : ftpDisk.shown[f].what = "dir"
    /\ Click("list", <<>>)

StopClick ==
    /\ ftpTab.busy /\ ftpTab.cancels # 0
    /\ ftpJobs' = [ftpJobs EXCEPT ![ftpTab.cancels].cancel = TRUE]
    /\ UNCHANGED <<ftpTab, ftpQueue, ftpLinks, ftpDisk>>

FtpShutdown ==
    /\ ~ftpTab.closing
    /\ ftpTab' = [ftpTab EXCEPT !.closing = TRUE]
    /\ ftpJobs' = IF ftpTab.cancels = 0 THEN ftpJobs ELSE [ftpJobs EXCEPT ![ftpTab.cancels].cancel = TRUE]
    /\ UNCHANGED <<ftpQueue, ftpLinks, ftpDisk>>

----------------------------------------------------------------------------
(* The service, in the job's thread.                                       *)

Working(j, ops) == j \in FtpJob /\ ftpJobs[j].op \in ops /\ ftpJobs[j].st = "working"

\* the worker emits its result or its error, and then finished
Post(j, outcome) ==
    /\ ftpJobs' = [ftpJobs EXCEPT ![j].st = "posted", ![j].outcome = outcome]
    /\ ftpQueue' = Append(ftpQueue, j)

PostAndUnlock(j, outcome) ==
    /\ Post(j, outcome)
    /\ ftpLinks' = [ftpLinks EXCEPT !.holder[ftpJobs[j].sid] = 0]

LinkUp(j) == ftpJobs[j].sid \in ftpLinks.open

\* connect: a link whose first listing fails is neither registered nor closed
ServiceConnect(j) ==
    /\ j \in FtpJob /\ ftpJobs[j].op = "connect" /\ ftpJobs[j].st = "new"
    /\ \/ /\ ftpLinks' = [ftpLinks EXCEPT !.sessions = @ \cup {j}, !.open = @ \cup {j}]
          /\ ftpJobs' = [ftpJobs EXCEPT ![j].st = "posted", ![j].outcome = "result", ![j].seen = ftpDisk.remote]
          /\ ftpQueue' = Append(ftpQueue, j)
       \/ Post(j, "error") /\ UNCHANGED ftpLinks
       \/ Post(j, "error") /\ ftpLinks' = [ftpLinks EXCEPT !.open = @ \cup {j}]
    /\ UNCHANGED <<ftpTab, ftpDisk>>

GetSession(j) ==
    /\ j \in FtpJob /\ ftpJobs[j].op \notin {"connect", "disconnect"} /\ ftpJobs[j].st = "new"
    /\ IF ftpJobs[j].sid \in ftpLinks.sessions
       THEN ftpJobs' = [ftpJobs EXCEPT ![j].st = "waiting"] /\ UNCHANGED ftpQueue
       ELSE Post(j, "error")
    /\ UNCHANGED <<ftpTab, ftpLinks, ftpDisk>>

PopSession(j) ==
    /\ j \in FtpJob /\ ftpJobs[j].op = "disconnect" /\ ftpJobs[j].st = "new"
    /\ IF ftpJobs[j].sid \in ftpLinks.sessions
       THEN /\ ftpJobs' = [ftpJobs EXCEPT ![j].st = "waiting"]
            /\ ftpLinks' = [ftpLinks EXCEPT !.sessions = @ \ {ftpJobs[j].sid}]
            /\ UNCHANGED ftpQueue
       ELSE Post(j, "error") /\ UNCHANGED ftpLinks
    /\ UNCHANGED <<ftpTab, ftpDisk>>

TakeLock(j) ==
    /\ j \in FtpJob /\ ftpJobs[j].st = "waiting" /\ ftpLinks.holder[ftpJobs[j].sid] = 0
    /\ ftpLinks' = [ftpLinks EXCEPT !.holder[ftpJobs[j].sid] = j]
    /\ ftpJobs' = [ftpJobs EXCEPT ![j].st = "working"]
    /\ UNCHANGED <<ftpTab, ftpQueue, ftpDisk>>

\* quit answers or the socket is closed; closing an SFTP channel may raise
CloseSession(j) ==
    /\ Working(j, {"disconnect"})
    /\ \E outcome \in IF ftpTab.protocol = "sftp" THEN {"result", "error"} ELSE {"result"} : Post(j, outcome)
    /\ ftpLinks' = [ftpLinks EXCEPT !.open = @ \ {ftpJobs[j].sid}, !.holder[ftpJobs[j].sid] = 0]
    /\ UNCHANGED <<ftpTab, ftpDisk>>

ListDirectory(j) ==
    /\ Working(j, {"list"}) /\ LinkUp(j)
    /\ ftpJobs' = [ftpJobs EXCEPT ![j].st = "posted", ![j].outcome = "result", ![j].seen = ftpDisk.remote]
    /\ ftpQueue' = Append(ftpQueue, j)
    /\ ftpLinks' = [ftpLinks EXCEPT !.holder[ftpJobs[j].sid] = 0]
    /\ UNCHANGED <<ftpTab, ftpDisk>>

\* Mutant of CommandFails: the lock is not given back by an exception.
CommandFailsLocked(j) ==
    /\ j \in FtpJob /\ ftpJobs[j].st \in {"working", "moving"} /\ ftpJobs[j].op # "disconnect"
    /\ Post(j, "error")
    /\ UNCHANGED <<ftpTab, ftpLinks, ftpDisk>>

\* any command may fail, and fails when the link is gone; the file and its row, if it has one,
\* are left as they are
CommandFails(j) ==
    /\ j \in FtpJob /\ ftpJobs[j].st \in {"working", "moving"} /\ ftpJobs[j].op # "disconnect"
    /\ PostAndUnlock(j, "error")
    /\ UNCHANGED <<ftpTab, ftpDisk>>

\* the file of the server that a download reads
Readable(j) ==
    ftpJobs[j].op = "download" =>
        LinkUp(j) /\ ftpDisk.remote[Head(ftpJobs[j].todo)].what \notin {"none", "dir"}

\* the loop of upload_files and download_files: opening the target empties it, and there is no row
\* yet. A download by FTP opens it before it asks for the file, one by SFTP afterwards.
NextFile(j) ==
    /\ Working(j, Transfers)
    /\ ftpJobs[j].todo # <<>> /\ ~ftpJobs[j].cancel
    /\ LET f == Head(ftpJobs[j].todo) side == Side(ftpJobs[j].op) IN
       /\ ftpJobs[j].op = "download" => ftpJobs[j].seen[f].what # "dir"
       /\ ftpJobs[j].op = "upload" => LinkUp(j)
       /\ ftpTab.protocol = "sftp" => Readable(j)
       /\ ftpDisk[side][f].what # "dir"
       /\ ftpDisk' = [ftpDisk EXCEPT ![side][f] = [what |-> "part", by |-> j]]
       /\ ftpJobs' = [ftpJobs EXCEPT ![j].st = "moving", ![j].row[f] = "none"]
    /\ UNCHANGED <<ftpTab, ftpQueue, ftpLinks>>

\* The row of the file that is being moved.
RowNow(j) == ftpJobs[j].row[Head(ftpJobs[j].todo)]

TransferEnds(j) ==
    /\ Working(j, Transfers)
    /\ ftpJobs[j].todo = <<>> \/ ftpJobs[j].cancel
    /\ PostAndUnlock(j, "result")
    /\ UNCHANGED <<ftpTab, ftpDisk>>

\* what is left of the target of a file given up half way
LeftOver(j, what) ==
    LET f == Head(ftpJobs[j].todo) side == Side(ftpJobs[j].op) IN
    ftpDisk' = [ftpDisk EXCEPT ![side][f] = [what |-> what, by |-> j]]

FileEnds(j, row) ==
    /\ ftpJobs' = [ftpJobs EXCEPT ![j].st = "working", ![j].todo = Tail(@), ![j].row[Head(ftpJobs[j].todo)] = row]
    /\ UNCHANGED <<ftpTab, ftpQueue, ftpLinks>>

Moving(j, op) == j \in FtpJob /\ ftpJobs[j].st = "moving" /\ ftpJobs[j].op = op

\* The first block that is through makes the row; the later ones change its numbers.
FirstBlock(j) ==
    /\ Moving(j, "upload") \/ Moving(j, "download")
    /\ LinkUp(j) /\ Readable(j) /\ RowNow(j) = "none"
    /\ ftpJobs' = [ftpJobs EXCEPT ![j].row[Head(ftpJobs[j].todo)] = "running"]
    /\ UNCHANGED <<ftpTab, ftpQueue, ftpLinks, ftpDisk>>

\* A stop posts nothing more. The signals hold the record itself, which now says "stopped": a row
\* whose last signal the window reads only after this shows that, any other stays as it was.
RowsOfStopped(j) == IF RowNow(j) = "running" THEN {"running", "stopped"} ELSE {RowNow(j)}

\* an empty file has no block
MoveWholeFile(j) ==
    /\ Moving(j, "upload") \/ Moving(j, "download")
    /\ LinkUp(j) /\ (RowNow(j) = "none" => Readable(j))
    /\ LeftOver(j, "new")
    /\ FileEnds(j, "done")

\* STOR is aborted after a block; what the server received stays there
StopFtpUpload(j) ==
    /\ Moving(j, "upload") /\ ftpTab.protocol = "ftp" /\ ftpJobs[j].cancel /\ RowNow(j) = "running"
    /\ LeftOver(j, "part")
    /\ \E row \in RowsOfStopped(j) : FileEnds(j, row)

\* the target is removed, unless the server refuses
StopSftpUpload(j) ==
    /\ Moving(j, "upload") /\ ftpTab.protocol = "sftp" /\ ftpJobs[j].cancel
    /\ \E what \in {"none", "part"} : LeftOver(j, what)
    /\ \E row \in RowsOfStopped(j) : FileEnds(j, row)

\* RETR looks at the event when a block arrives, SFTP before it asks for one
StopDownload(j) ==
    /\ Moving(j, "download") /\ ftpJobs[j].cancel
    /\ ftpTab.protocol = "ftp" /\ RowNow(j) = "none" => Readable(j)
    /\ LeftOver(j, "none")
    /\ \E row \in RowsOfStopped(j) : FileEnds(j, row)

MakeDirectory(j) ==
    /\ Working(j, {"mkdir"}) /\ LinkUp(j)
    /\ ftpDisk.remote[Head(ftpJobs[j].todo)].what = "none"
    /\ ftpDisk' = [ftpDisk EXCEPT !.remote[Head(ftpJobs[j].todo)] = [what |-> "dir", by |-> j]]
    /\ PostAndUnlock(j, "result")
    /\ UNCHANGED ftpTab

RenamePath(j) ==
    /\ Working(j, {"rename"}) /\ LinkUp(j)
    /\ LET from == ftpJobs[j].todo[1] to == ftpJobs[j].todo[2] IN
       /\ ftpDisk.remote[from].what # "none" /\ ftpDisk.remote[to].what = "none"
       /\ ftpDisk' = [ftpDisk EXCEPT !.remote[to] = [what |-> ftpDisk.remote[from].what, by |-> 0],
                                     !.remote[from] = Untouched]
    /\ PostAndUnlock(j, "result")
    /\ UNCHANGED ftpTab

\* one entry after the other: those before a failure are gone
DeleteEntry(j) ==
    /\ Working(j, {"delete"}) /\ LinkUp(j) /\ ftpJobs[j].todo # <<>>
    /\ ftpDisk.remote[Head(ftpJobs[j].todo)].what # "none"
    /\ ftpDisk' = [ftpDisk EXCEPT !.remote[Head(ftpJobs[j].todo)] = Untouched]
    /\ IF Len(ftpJobs[j].todo) = 1
       THEN PostAndUnlock(j, "result")
       ELSE ftpJobs' = [ftpJobs EXCEPT ![j].todo = Tail(@)] /\ UNCHANGED <<ftpQueue, ftpLinks>>
    /\ UNCHANGED ftpTab

----------------------------------------------------------------------------
(* What the window makes of it.                                            *)

Arrived(ops) == ftpQueue # <<>> /\ ftpJobs[Head(ftpQueue)].op \in ops
Succeeded == ftpJobs[Head(ftpQueue)].outcome = "result"
Retired == [ftpJobs EXCEPT ![Head(ftpQueue)].st = "finished"]

FinishConnect ==
    /\ Arrived({"connect"})
    /\ ftpTab' = IF Succeeded THEN [ftpTab EXCEPT !.connected = TRUE, !.sid = Head(ftpQueue), !.busy = FALSE]
                 ELSE [ftpTab EXCEPT !.busy = FALSE]
    /\ ftpDisk' = IF Succeeded THEN [ftpDisk EXCEPT !.shown = ftpJobs[Head(ftpQueue)].seen] ELSE ftpDisk
    /\ ftpJobs' = Retired /\ ftpQueue' = Tail(ftpQueue)
    /\ UNCHANGED ftpLinks

\* without a result the tab stays connected, to a session the service forgot
FinishDisconnect ==
    /\ Arrived({"disconnect"})
    /\ ftpTab' = IF Succeeded THEN [ftpTab EXCEPT !.connected = FALSE, !.sid = 0, !.busy = FALSE]
                 ELSE [ftpTab EXCEPT !.busy = FALSE]
    /\ ftpDisk' = IF Succeeded THEN [ftpDisk EXCEPT !.shown = [f \in FtpFiles |-> Untouched]] ELSE ftpDisk
    /\ ftpJobs' = Retired /\ ftpQueue' = Tail(ftpQueue)
    /\ UNCHANGED ftpLinks

FinishRefresh ==
    /\ Arrived({"list"})
    /\ ftpTab' = [ftpTab EXCEPT !.busy = FALSE]
    /\ ftpDisk' = IF Succeeded THEN [ftpDisk EXCEPT !.shown = ftpJobs[Head(ftpQueue)].seen] ELSE ftpDisk
    /\ ftpJobs' = Retired /\ ftpQueue' = Tail(ftpQueue)
    /\ UNCHANGED ftpLinks

Refreshed(again) ==
    /\ ftpTab' = [ftpTab EXCEPT !.busy = again]
    /\ ftpJobs' = IF again
                  THEN Append(Retired, [op |-> "list", sid |-> ftpTab.sid, st |-> "new", todo |-> <<>>,
                                        cancel |-> FALSE, outcome |-> "none",
                                        row |-> [f \in FtpFiles |-> "none"], seen |-> ftpDisk.shown])
                  ELSE Retired
    /\ ftpQueue' = Tail(ftpQueue)
    /\ UNCHANGED <<ftpLinks, ftpDisk>>

FinishWithRefresh ==
    Arrived(Changes) /\ Refreshed(~ftpTab.closing /\ ftpTab.connected /\ ftpTab.sid # 0)

----------------------------------------------------------------------------
FtpUser ==
    \/ ConnectClick \/ DisconnectClick \/ RefreshClick \/ UploadClick \/ DownloadClick
    \/ FolderClick \/ RenameClick \/ DeleteClick \/ OpenFolder \/ StopClick \/ FtpShutdown

FtpService(j) ==
    \/ ServiceConnect(j) \/ GetSession(j) \/ PopSession(j) \/ TakeLock(j)
    \/ CloseSession(j) \/ ListDirectory(j) \/ CommandFails(j)
    \/ NextFile(j) \/ FirstBlock(j) \/ TransferEnds(j) \/ MoveWholeFile(j)
    \/ StopFtpUpload(j) \/ StopSftpUpload(j) \/ StopDownload(j)
    \/ MakeDirectory(j) \/ RenamePath(j) \/ DeleteEntry(j)

FtpWindow == FinishConnect \/ FinishDisconnect \/ FinishRefresh \/ FinishWithRefresh

FtpNext == FtpUser \/ (\E j \in 1..MaxFtpJobs : FtpService(j)) \/ FtpWindow

FtpSpec == FtpInit /\ [][FtpNext]_ftpVars

----------------------------------------------------------------------------
(* Properties.                                                             *)

Ended(job) == job.st \in {"posted", "finished"}

\* A file is complete exactly when its row says so. Whatever else a job leaves behind has a reason
\* the user was told of: half a file is behind a job that ended with an error, with a row that says
\* it is still running or with none, or is the server's part of a stopped upload; and a row that
\* still runs after its job is that of an error or a stop (_ftp_download, _sftp_upload and their
\* siblings, _upsert_ftp_transfer_result).
FilesMatchTheReport ==
    /\ \A side \in {"local", "remote"}, f \in FtpFiles :
        LET cell == ftpDisk[side][f] IN
        cell.by # 0 /\ cell.what # "dir" =>
            LET job == ftpJobs[cell.by] IN
            /\ job.row[f] = "done" <=> cell.what = "new"
            /\ cell.what = "part" /\ Ended(job) => job.outcome = "error" \/ (job.op = "upload" /\ job.cancel)
    /\ \A j \in FtpJob, f \in FtpFiles :
        /\ ftpJobs[j].row[f] = "running" /\ Ended(ftpJobs[j]) => ftpJobs[j].outcome = "error" \/ ftpJobs[j].cancel
        /\ ftpJobs[j].row[f] = "stopped" => ftpJobs[j].cancel

\* With a user who waits, a connected tab at rest has read the list again after everything that
\* changed the server, failures half way included (_finish_ftp_job_with_refresh).
ShownListIsCurrent ==
    (ftpTab.patient /\ ftpTab.connected /\ ~ftpTab.closing /\ Unfinished = {}) =>
        LET last == ftpJobs[Len(ftpJobs)] IN
        /\ last.op \in {"connect", "list", "disconnect"}
        /\ (last.op # "disconnect" /\ last.outcome = "result") => ftpDisk.shown = ftpDisk.remote

\* With a user who waits, no registered session is forgotten: it is the tab's, or the answer that
\* brings it to the tab is on its way (connect, _finish_ftp_connect, disconnect).
SessionsAreReachable ==
    ftpTab.patient =>
        \A s \in ftpLinks.sessions : s = ftpTab.sid \/ ftpJobs[s].st = "posted"

\* The lock of a session is only held by a job that is still at work: an exception gives it back, and
\* the next job never waits for one that has ended (with session.lock, in every operation).
LockIsGivenBack ==
    \A s \in DOMAIN ftpLinks.holder : LET j == ftpLinks.holder[s] IN
        j # 0 => ftpJobs[j].sid = s /\ ftpJobs[j].st \in {"working", "moving"}

\* What the page says of files is true.
FtpPageIsTrue == FilesMatchTheReport /\ ShownListIsCurrent

\* Sessions are kept and given back.
FtpSessionsAreSafe == SessionsAreReachable /\ LockIsGivenBack

(* The page and its sessions over overlapping jobs (ftp.py,                  *)
(* ftp_client_service.py).                                                   *)
FtpIsRight == FtpPageIsTrue /\ FtpSessionsAreSafe
=============================================================================

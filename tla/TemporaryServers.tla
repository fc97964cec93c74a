-------------------------- MODULE TemporaryServers --------------------------
(***************************************************************************)
(* The temporary FTP, FTPS, SFTP, SCP and TFTP servers: the start and stop *)
(* buttons of the tabs (ui/tabs/diagnostics/ftp.py, scp.py, tftp.py), the  *)
(* job that binds, accepts and closes, and a thread for every session      *)
(* (ftp_server_service.py, scp_server_service.py, tftp_service.py).        *)
(*                                                                         *)
(* A run of the server is named by its number.  A behaviour uses one tool; *)
(* the program may be killed, which ends the run and leaves the files.     *)
(* The signals that only repaint labels and logs are left out.             *)
(***************************************************************************)
EXTENDS Naturals, Sequences, FiniteSets

CONSTANTS
    SrvClients,     \* threads that serve a client
    SrvFiles,       \* names below the shared root
    MaxServerRuns   \* bound: starts in a behaviour

ASSUME ServerAssumption == MaxServerRuns \in Nat

VARIABLES
    srvSetup,      \* what the user chose: tool and access
    srvTab,        \* the tab: running flag, cancel event it holds
    srvRuns,       \* every run so far
    srvWatch,      \* runs of the TFTP server whose watching thread still polls the stop event
    srvSessions,   \* the client threads
    srvQueue,      \* runs whose job has ended, with result or error, and the window not told yet
    srvTree,       \* the shared folder
    srvKeys        \* certificate and key files, by the generation they belong to

srvVars == <<srvSetup, srvTab, srvRuns, srvWatch, srvSessions, srvQueue, srvTree, srvKeys>>

Tools == {"ftp", "ftps", "sftp", "scp", "tftp"}
Run == DOMAIN srvRuns
NoSession == [run |-> 0, st |-> "none", file |-> "none"]

SrvInit ==
    /\ srvSetup \in [tool : Tools, readOnly : BOOLEAN]
    /\ srvTab = [running |-> FALSE, event |-> 0, closing |-> FALSE]
    /\ srvRuns = <<>> /\ srvWatch = {}
    /\ srvSessions = [s \in SrvClients |-> NoSession]
    /\ srvQueue = <<>>
    /\ srvTree = [f \in SrvFiles |-> "old"]
    /\ srvKeys \in {[cert |-> 0, key |-> 0]} \cup
                   (IF srvSetup.tool = "ftps" THEN {[cert |-> 1, key |-> 1], [cert |-> 1, key |-> 0]} ELSE {})

----------------------------------------------------------------------------
(* The tab.                                                                *)

StartServer ==
    /\ ~srvTab.running
    /\ Len(srvRuns) < MaxServerRuns /\ ~srvTab.closing
    /\ srvTab' = [srvTab EXCEPT !.running = TRUE, !.event = Len(srvRuns) + 1]
    /\ srvRuns' = Append(srvRuns, [st |-> "new", stop |-> FALSE, listening |-> FALSE])
    /\ UNCHANGED <<srvSetup, srvWatch, srvSessions, srvQueue, srvTree, srvKeys>>

StopServer ==
    /\ srvTab.running /\ srvTab.event # 0
    /\ srvRuns' = [srvRuns EXCEPT ![srvTab.event].stop = TRUE]
    /\ UNCHANGED <<srvSetup, srvWatch, srvTab, srvSessions, srvQueue, srvTree, srvKeys>>

SrvShutdown ==
    /\ ~srvTab.closing
    /\ srvTab' = [srvTab EXCEPT !.closing = TRUE]
    /\ srvRuns' = IF srvTab.event = 0 THEN srvRuns ELSE [srvRuns EXCEPT ![srvTab.event].stop = TRUE]
    /\ UNCHANGED <<srvSetup, srvWatch, srvSessions, srvQueue, srvTree, srvKeys>>

\* a result drops the event, an error does not; both clear the flag
FinishServer ==
    /\ srvQueue # <<>>
    /\ srvTab' = [srvTab EXCEPT !.running = FALSE, !.event = IF Head(srvQueue).kind = "result" THEN 0 ELSE @]
    /\ srvRuns' = [srvRuns EXCEPT ![Head(srvQueue).run].st = "finished"]
    /\ srvQueue' = Tail(srvQueue)
    /\ UNCHANGED <<srvSetup, srvWatch, srvSessions, srvTree, srvKeys>>

----------------------------------------------------------------------------
(* The job.                                                                *)

Now(r, st) == r \in Run /\ srvRuns[r].st = st

\* the worker emits its result or its error, and then finished
EndJob(r, kind) ==
    /\ srvRuns' = [srvRuns EXCEPT ![r].st = "posted", ![r].listening = FALSE]
    /\ srvQueue' = Append(srvQueue, [kind |-> kind, run |-> r])

\* Mutant of EnsureCertificate: either file is enough.
EnsureCertificateHalf(r) ==
    /\ Now(r, "new")
    /\ IF srvSetup.tool = "ftps" /\ srvKeys.cert = 0 /\ srvKeys.key = 0
       THEN srvKeys' = [srvKeys EXCEPT !.cert = r + 1] /\ srvRuns' = [srvRuns EXCEPT ![r].st = "certified"]
       ELSE UNCHANGED srvKeys /\ srvRuns' = [srvRuns EXCEPT ![r].st = "prepared"]
    /\ UNCHANGED <<srvSetup, srvWatch, srvTab, srvSessions, srvQueue, srvTree>>

\* ensure_ftps_certificate makes a new pair unless both files are there; the certificate is written first
EnsureCertificate(r) ==
    /\ Now(r, "new")
    /\ IF srvSetup.tool = "ftps" /\ (srvKeys.cert = 0 \/ srvKeys.key = 0)
       THEN srvKeys' = [srvKeys EXCEPT !.cert = r + 1] /\ srvRuns' = [srvRuns EXCEPT ![r].st = "certified"]
       ELSE UNCHANGED srvKeys /\ srvRuns' = [srvRuns EXCEPT ![r].st = "prepared"]
    /\ UNCHANGED <<srvSetup, srvWatch, srvTab, srvSessions, srvQueue, srvTree>>

WriteKey(r) ==
    /\ Now(r, "certified")
    /\ srvKeys' = [srvKeys EXCEPT !.key = srvKeys.cert]
    /\ srvRuns' = [srvRuns EXCEPT ![r].st = "prepared"]
    /\ UNCHANGED <<srvSetup, srvWatch, srvTab, srvSessions, srvQueue, srvTree>>

\* the port may be taken; the thread that watches a TFTP server starts before it and is left behind then
Bind(r) ==
    /\ Now(r, "prepared")
    /\ \/ EndJob(r, "error")
       \/ srvRuns' = [srvRuns EXCEPT ![r].st = "serving", ![r].listening = TRUE] /\ UNCHANGED srvQueue
    /\ srvWatch' = IF srvSetup.tool = "tftp" THEN srvWatch \cup {r} ELSE srvWatch
    /\ UNCHANGED <<srvSetup, srvTab, srvSessions, srvTree, srvKeys>>

Accept(s) ==
    /\ srvSessions[s].st = "none" /\ srvSetup.tool # "tftp"
    /\ \E r \in Run : /\ srvRuns[r].st = "serving"
                      /\ srvSessions' = [srvSessions EXCEPT ![s].run = r, ![s].st = "accepted"]
    /\ UNCHANGED <<srvSetup, srvWatch, srvTab, srvRuns, srvQueue, srvTree, srvKeys>>

\* the thread that watches the event tells its own server, which may never have listened
SeeStop(r) ==
    /\ r \in srvWatch /\ srvRuns[r].stop
    /\ srvWatch' = srvWatch \ {r}
    /\ UNCHANGED <<srvSetup, srvTab, srvRuns, srvSessions, srvQueue, srvTree, srvKeys>>

\* the loop sees the event, TFTP when it was told, or the FTP thread has died: the listener is closed
CloseListener(r) ==
    /\ Now(r, "serving") /\ r \notin srvWatch
    /\ srvRuns[r].stop \/ srvSetup.tool \in {"ftp", "ftps"}
    /\ srvRuns' = [srvRuns EXCEPT ![r].st = "joining", ![r].listening = FALSE]
    /\ UNCHANGED <<srvSetup, srvWatch, srvTab, srvSessions, srvQueue, srvTree, srvKeys>>

\* Mutant of JoinSessions: the threads are waited for without a limit.
JoinSessionsForever(r) ==
    /\ Now(r, "joining")
    /\ \A s \in SrvClients : srvSessions[s].run = r => srvSessions[s].st = "gone"
    /\ EndJob(r, "result")
    /\ UNCHANGED <<srvSetup, srvWatch, srvTab, srvSessions, srvTree, srvKeys>>

\* every thread is waited for 1.5 seconds: enough for one that looks at the event five times a second,
\* not for one that still negotiates or, with SCP, waits for its channel
JoinSessions(r) ==
    /\ Now(r, "joining")
    /\ srvSetup.tool = "scp" \/ \A s \in SrvClients : srvSessions[s].run = r => srvSessions[s].st # "open"
    /\ EndJob(r, "result")
    /\ UNCHANGED <<srvSetup, srvWatch, srvTab, srvSessions, srvTree, srvKeys>>

----------------------------------------------------------------------------
(* A session.                                                              *)

Is(s, st) == srvSessions[s].st = st
Owner(s) == srvSessions[s].run

\* log in, open the subsystem or wait for the scp command; the event is looked at first
OpenSession(s) ==
    /\ Is(s, "accepted")
    /\ LET run == srvRuns[Owner(s)]
           over == run.stop \/ (srvSetup.tool # "scp" /\ run.st # "serving")
       IN  srvSessions' = [srvSessions EXCEPT ![s].st = IF over THEN "gone" ELSE "open"]
    /\ UNCHANGED <<srvSetup, srvWatch, srvTab, srvRuns, srvQueue, srvTree, srvKeys>>

\* the peer hangs up or an error ends the thread
LeaveSession(s) ==
    /\ srvSessions[s].st \in {"accepted", "open", "receiving"}
    /\ srvSessions' = [srvSessions EXCEPT ![s].st = "gone"]
    /\ UNCHANGED <<srvSetup, srvWatch, srvTab, srvRuns, srvQueue, srvTree, srvKeys>>

\* the SFTP loop sees the event; close_all ends the FTP handlers
EndSession(s) ==
    /\ Is(s, "open") /\ srvSetup.tool # "scp" /\ srvRuns[Owner(s)].st = "joining"
    /\ srvSessions' = [srvSessions EXCEPT ![s].st = "gone"]
    /\ UNCHANGED <<srvSetup, srvWatch, srvTab, srvRuns, srvQueue, srvTree, srvKeys>>

Change(f, what) == srvTree' = [srvTree EXCEPT ![f] = what]
Writable == ~srvSetup.readOnly

Flags == {"WRONLY", "RDWR", "APPEND", "CREAT", "TRUNC"}

FlagsToMode(flags) ==
    CASE "RDWR" \in flags -> IF {"CREAT", "TRUNC"} \subseteq flags THEN "w+b" ELSE "r+b"
      [] "RDWR" \notin flags /\ "WRONLY" \in flags -> IF "APPEND" \in flags THEN "ab" ELSE "wb"
      [] OTHER -> "rb"

DenyIfReadonlyIfNeeded(flags) == srvSetup.readOnly /\ flags # {}

\* reading needs the file; the other modes truncate it, create it or let the client write
SftpOpen(s) ==
    /\ Is(s, "open") /\ srvSetup.tool = "sftp"
    /\ \E f \in SrvFiles, flags \in SUBSET Flags :
           /\ ~DenyIfReadonlyIfNeeded(flags)
           /\ LET mode == FlagsToMode(flags) IN
              /\ mode \in {"rb", "r+b"} => srvTree[f] # "none"
              /\ \/ mode = "rb" /\ UNCHANGED srvTree
                 \/ mode # "rb" /\ Change(f, "new")
    /\ UNCHANGED <<srvSetup, srvWatch, srvTab, srvRuns, srvSessions, srvQueue, srvKeys>>

\* remove and rmdir, rename and mkdir
SftpRemove(s) ==
    /\ Is(s, "open") /\ srvSetup.tool = "sftp" /\ Writable
    /\ \E f \in SrvFiles : srvTree[f] # "none" /\ Change(f, "none")
    /\ UNCHANGED <<srvSetup, srvWatch, srvTab, srvRuns, srvSessions, srvQueue, srvKeys>>

SftpRename(s) ==
    /\ Is(s, "open") /\ srvSetup.tool = "sftp" /\ Writable
    /\ \E f, g \in SrvFiles : f # g /\ srvTree[f] # "none"
                              /\ srvTree' = [srvTree EXCEPT ![g] = srvTree[f], ![f] = "none"]
    /\ UNCHANGED <<srvSetup, srvWatch, srvTab, srvRuns, srvSessions, srvQueue, srvKeys>>

SftpMkdir(s) ==
    /\ Is(s, "open") /\ srvSetup.tool = "sftp" /\ Writable
    /\ \E f \in SrvFiles : srvTree[f] = "none" /\ Change(f, "new")
    /\ UNCHANGED <<srvSetup, srvWatch, srvTab, srvRuns, srvSessions, srvQueue, srvKeys>>

\* pyftpdlib, with the permissions the authorizer was given
FtpStore(s) ==
    /\ Is(s, "open") /\ srvSetup.tool \in {"ftp", "ftps"} /\ Writable
    /\ \E f \in SrvFiles, what \in {"none", "new"} : Change(f, what)
    /\ UNCHANGED <<srvSetup, srvWatch, srvTab, srvRuns, srvSessions, srvQueue, srvKeys>>

\* SCP: the event is looked at between two files, not while the thread waits for a header or for data
ScpUploadBegins(s) ==
    /\ Is(s, "open") /\ srvSetup.tool = "scp" /\ Writable
    /\ \E f \in SrvFiles : Change(f, "new")
                           /\ srvSessions' = [srvSessions EXCEPT ![s].st = "receiving", ![s].file = f]
    /\ UNCHANGED <<srvSetup, srvWatch, srvTab, srvRuns, srvQueue, srvKeys>>

ScpUploadEnds(s) ==
    /\ Is(s, "receiving")
    /\ Change(srvSessions[s].file, "whole")
    /\ srvSessions' = [srvSessions EXCEPT ![s].st = IF srvRuns[Owner(s)].stop THEN "gone" ELSE "open"]
    /\ UNCHANGED <<srvSetup, srvWatch, srvTab, srvRuns, srvQueue, srvKeys>>

\* build_upload_handler: tftpy asks it for the file to write
TftpUploadOpen(r) ==
    /\ Now(r, "serving") /\ srvSetup.tool = "tftp" /\ Writable
    /\ \E f \in SrvFiles : Change(f, "new")
    /\ UNCHANGED <<srvSetup, srvWatch, srvTab, srvRuns, srvSessions, srvQueue, srvKeys>>

----------------------------------------------------------------------------
\* the program is killed and started again: only the files are left
KillProgram ==
    /\ srvRuns # <<>> /\ \E r \in Run : srvRuns[r].st # "finished"
    /\ srvTab' = [running |-> FALSE, event |-> 0, closing |-> FALSE]
    /\ srvRuns' = [r \in Run |-> [st |-> "finished", stop |-> FALSE, listening |-> FALSE]]
    /\ srvWatch' = {}
    /\ srvSessions' = [s \in SrvClients |-> NoSession]
    /\ srvQueue' = <<>>
    /\ UNCHANGED <<srvSetup, srvTree, srvKeys>>

SrvJob(r) ==
    \/ EnsureCertificate(r) \/ WriteKey(r) \/ Bind(r) \/ SeeStop(r) \/ CloseListener(r) \/ JoinSessions(r)
SrvSession(s) ==
    \/ Accept(s) \/ OpenSession(s) \/ LeaveSession(s) \/ EndSession(s)
    \/ SftpOpen(s) \/ SftpRemove(s) \/ SftpRename(s) \/ SftpMkdir(s) \/ FtpStore(s)
    \/ ScpUploadBegins(s) \/ ScpUploadEnds(s)

SrvNext ==
    \/ StartServer \/ StopServer \/ SrvShutdown \/ FinishServer \/ KillProgram
    \/ \E r \in 1..MaxServerRuns : SrvJob(r) \/ TftpUploadOpen(r)
    \/ \E s \in SrvClients : SrvSession(s)

SrvSpec == SrvInit /\ [][SrvNext]_srvVars

SrvJobs == FinishServer \/ (\E r \in 1..MaxServerRuns : SrvJob(r)) \/ (\E s \in SrvClients : EndSession(s))

\* the job's loops have time-outs of their own and the window's event loop runs; a client promises nothing
SrvFairness == WF_srvVars(SrvJobs)

----------------------------------------------------------------------------
(* Properties.                                                             *)

\* A port is only held by the run the tab shows as running, the latest one: the next start finds the
\* previous run's port closed (_start_*_server, run_temporary_server, on_finished).
PortHeldByTheShownRun ==
    \A r \in Run : srvRuns[r].listening => srvTab.running /\ r = Len(srvRuns)

\* Whatever a client sends, a read-only server leaves the shared folder as it was (the SFTP handlers,
\* the SCP upload request, the TFTP upload handler, the FTP permissions).
ReadOnlyTreeIsUntouched == srvSetup.readOnly => srvTree = [f \in SrvFiles |-> "old"]

\* FTPS is never served with a certificate and a key that do not belong together, also after the
\* program was killed between the two writes (ensure_ftps_certificate).
ServedPairMatches ==
    \A r \in Run : srvSetup.tool = "ftps" /\ srvRuns[r].st = "serving" =>
        srvKeys.cert = srvKeys.key /\ srvKeys.key # 0

\* A stopped server ends and can be started again, even if a client never hangs up.
StoppedServerEnds == (srvTab.running /\ srvTab.event # 0 /\ srvRuns[srvTab.event].stop) ~> ~srvTab.running

\* What is served is what the page shows and allows.
ServersAreRight == PortHeldByTheShownRun /\ ReadOnlyTreeIsUntouched /\ ServedPairMatches
=============================================================================

----------------------------- MODULE UpdateFlow -----------------------------
(***************************************************************************)
(* The update dialogue of the main window (src/app/main_window.py): a      *)
(* check, a download and, for a portable copy, a preparation run one after *)
(* the other as background jobs, each started by the result of the one     *)
(* before; at the end another process is launched and the window closes.   *)
(*                                                                         *)
(* A job's events reach the window's thread through one queue.  A message  *)
(* box runs a loop of its own: events, and the start-up timer, are handled *)
(* while the handler that opened it is suspended, so boxes can be stacked. *)
(***************************************************************************)
EXTENDS Naturals, Sequences, FiniteSets, SequencesExt

CONSTANTS
    MaxJobs,     \* bound: jobs started in a behaviour
    MaxLaunches  \* bound: processes launched in a behaviour

ASSUME UpdateAssumption == MaxJobs \in Nat /\ MaxLaunches \in Nat

VARIABLES
    program,  \* is it a portable copy; is update.check_on_startup set
    busy,     \* _update_busy; the button is disabled with it
    timer,    \* _startup_update_timer: armed or over
    jobs,     \* the jobs started so far, with what became of each
    queue,    \* events emitted and not handled yet
    boxes,    \* the message boxes on the screen, the last one on top
    window,   \* open or closed
    launched  \* updaters and installers started so far

updateVars == <<program, busy, timer, jobs, queue, boxes, window, launched>>

Job == DOMAIN jobs
Kinds == {"check", "download", "prepare"}
NextKind == [check |-> "download", download |-> "prepare", prepare |-> "none"]
Started(kind) == Cardinality({j \in Job : jobs[j].kind = kind})
Working == {j \in Job : jobs[j].state = "running"}

UpdateInit ==
    /\ program \in [portable : BOOLEAN, checkOnStartup : BOOLEAN]
    /\ busy = FALSE
    /\ timer = "armed"
    /\ jobs = <<>>
    /\ queue = <<>>
    /\ boxes = <<>>
    /\ window = "open"
    /\ launched = 0

----------------------------------------------------------------------------
(* Starting a job.                                                         *)

StartJob(kind, manual) ==
    /\ Len(jobs) < MaxJobs
    /\ jobs' = Append(jobs, [kind |-> kind, manual |-> manual, state |-> "running"])
    /\ busy' = TRUE

\* the button is disabled while busy, and under a message box
ClickCheck ==
    /\ window = "open" /\ boxes = <<>>
    /\ ~busy
    /\ StartJob("check", TRUE)
    /\ UNCHANGED <<timer, queue, boxes, window, launched>>

\* _maybe_check_updates_on_startup, message box or not; a busy window skips it
StartupTimer ==
    /\ window = "open" /\ timer = "armed"
    /\ timer' = "over"
    /\ IF program.checkOnStartup /\ ~busy THEN StartJob("check", FALSE) ELSE UNCHANGED <<jobs, busy>>
    /\ UNCHANGED <<queue, boxes, window, launched>>

----------------------------------------------------------------------------
(* The job's thread.                                                       *)

Emit(j, event) == queue' = Append(queue, [job |-> j, event |-> event])

\* the release is newer and can be verified; or it is not, or the channel is
\* not set up; or a request fails
CheckForUpdates == {"offer", "tell", "error"}

\* the file and its digest agree, or an exception says why they do not
DownloadUpdate == {"verified", "error"}

\* the digest still agrees and the zip holds a program, or an exception
PreparePortableUpdate == {"prepared", "error"}

Outcomes == [check |-> CheckForUpdates, download |-> DownloadUpdate,
             prepare |-> PreparePortableUpdate]

\* FunctionWorker.run: the function returns or raises
Answer(j) ==
    /\ jobs[j].state = "running"
    /\ jobs' = [jobs EXCEPT ![j].state = "answered"]
    /\ \E event \in Outcomes[jobs[j].kind] : Emit(j, event)
    /\ UNCHANGED <<busy, timer, boxes, window, launched>>

\* and, in any case, the finished event
Finish(j) ==
    /\ jobs[j].state = "answered"
    /\ jobs' = [jobs EXCEPT ![j].state = "ended"]
    /\ Emit(j, "finished")
    /\ UNCHANGED <<busy, timer, boxes, window, launched>>

----------------------------------------------------------------------------
(* The window's thread handles an event.                                   *)

Open(box, j) == boxes' = Append(boxes, [box |-> box, job |-> j])

Handle(event) ==
    /\ window = "open" /\ queue # <<>>
    /\ Head(queue).event = event
    /\ queue' = Tail(queue)

\* close(): the config builder may refuse, and the window stays
TryClose == window' \in {"open", "closed"}

\* Popen, then close(), or a warning when the process cannot be started
Launch(j, rest) ==
    \/ /\ launched < MaxLaunches
       /\ launched' = launched + 1
       /\ boxes' = rest
       /\ TryClose
    \/ /\ boxes' = Append(rest, [box |-> "notice", job |-> j])
       /\ UNCHANGED <<launched, window>>

\* Mutant of HandleFinished: the flag stays when a box is open.
HandleFinishedUnderBox ==
    /\ Handle("finished")
    /\ busy' = (boxes # <<>>)
    /\ UNCHANGED <<timer, jobs, boxes, window, launched>>

\* _finish_update_check
HandleFinished ==
    /\ Handle("finished")
    /\ busy' = FALSE
    /\ UNCHANGED <<timer, jobs, boxes, window, launched>>

\* _handle_update_error: only a check the user did not ask for is silent
HandleError ==
    /\ Handle("error")
    /\ IF jobs[Head(queue).job].manual THEN Open("notice", Head(queue).job)
                                       ELSE UNCHANGED boxes
    /\ UNCHANGED <<busy, timer, jobs, window, launched>>

\* _handle_update_check_result: an update that can be installed is offered,
\* anything else told only to the user who asked
HandleCheckResult ==
    /\ \/ Handle("offer") /\ Open("found", Head(queue).job)
       \/ Handle("tell") /\ IF jobs[Head(queue).job].manual
                              THEN Open("notice", Head(queue).job) ELSE UNCHANGED boxes
    /\ UNCHANGED <<busy, timer, jobs, window, launched>>

\* _handle_downloaded_update: ask before anything is replaced
HandleDownloaded ==
    /\ Handle("verified")
    /\ Open("confirm", Head(queue).job)
    /\ UNCHANGED <<busy, timer, jobs, window, launched>>

\* _launch_portable_update
HandlePrepared ==
    /\ Handle("prepared")
    /\ Launch(Head(queue).job, boxes)
    /\ UNCHANGED <<busy, timer, jobs>>

----------------------------------------------------------------------------
(* The user answers the box on top.                                        *)

Top == Last(boxes)

\* A box is not answered before the job it speaks of has ended, whose last two
\* events follow each other at once, and the finished event was handled.
Answerable ==
    /\ window = "open" /\ boxes # <<>>
    /\ jobs[Top.job].state = "ended"
    /\ \A i \in DOMAIN queue : queue[i].job # Top.job

\* a notice is closed, or the question answered with no
Dismiss ==
    /\ Answerable
    /\ boxes' = Front(boxes)
    /\ UNCHANGED <<busy, timer, jobs, queue, window, launched>>

\* Mutant of Proceed: the box can be answered again.
ProceedAgain ==
    /\ Answerable
    /\ \/ Top.box = "found"
       \/ Top.box = "confirm" /\ program.portable
    /\ StartJob(NextKind[jobs[Top.job].kind], TRUE)
    /\ UNCHANGED <<timer, queue, boxes, window, launched>>

\* yes: the next job of the chain
Proceed ==
    /\ Answerable
    /\ \/ Top.box = "found"
       \/ Top.box = "confirm" /\ program.portable
    /\ StartJob(NextKind[jobs[Top.job].kind], TRUE)
    /\ boxes' = Front(boxes)
    /\ UNCHANGED <<timer, queue, window, launched>>

\* yes to the installer
RunInstaller ==
    /\ Answerable
    /\ Top.box = "confirm" /\ ~program.portable
    /\ Launch(Top.job, Front(boxes))
    /\ UNCHANGED <<busy, timer, jobs, queue>>

CloseWindow ==
    /\ window = "open" /\ boxes = <<>>
    /\ TryClose
    /\ UNCHANGED <<busy, timer, jobs, queue, boxes, launched>>

----------------------------------------------------------------------------

JobSteps == \E j \in Job : Answer(j) \/ Finish(j)

EventSteps ==
    \/ HandleFinished \/ HandleError
    \/ HandleCheckResult \/ HandleDownloaded \/ HandlePrepared

UserSteps == ClickCheck \/ Dismiss \/ Proceed \/ RunInstaller \/ CloseWindow

UpdateNext ==
    /\ JobSteps \/ EventSteps \/ UserSteps \/ StartupTimer
    /\ UNCHANGED program

\* Jobs come to their end (each request has a timeout) and the window's thread
\* handles its events; the user does as he likes.
UpdateFairness ==
    /\ WF_updateVars(JobSteps /\ UNCHANGED program)
    /\ WF_updateVars(EventSteps /\ UNCHANGED program)

UpdateSpec == UpdateInit /\ [][UpdateNext]_updateVars /\ UpdateFairness

----------------------------------------------------------------------------
(* Properties.                                                             *)

\* While a job of the update is at work the window is busy, the button is off
\* and no second job starts.  It is not so when the program checks at start-up:
\* that check may start under the box of another one and run beside its download.
OneJobAtATime ==
    ~program.checkOnStartup =>
        /\ Cardinality(Working) <= 1
        /\ Working # {} => busy

\* A chain never forks: each result leads to at most one next job and, at the
\* end, to at most one process that replaces the program.
ChainsDoNotFork ==
    /\ Started("prepare") <= Started("download")
    /\ Started("download") <= Started("check")
    /\ launched <= Started(IF program.portable THEN "prepare" ELSE "download")

\* However the boxes are stacked and answered, there is one update at a time.
OneUpdateAtATime == OneJobAtATime /\ ChainsDoNotFork
=============================================================================

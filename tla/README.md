# NetOps Suite: TLA+ models and proofs

NetOps Suite (`src/`, Python and PySide6) is a desktop program for network
engineers on Windows: it inspects, backs up and sends command scripts to lists
of switches and routers, and bundles diagnostics, file transfer clients and
servers, a configuration generator and its own updater.  This directory holds the
models of its concurrent and failure-prone parts, the TLC runs that check them on
small instances, and theorems about them proved with TLAPS for every size.

Contents: [the system](#1-the-system), [the modules](#2-the-modules),
[the runs](#3-the-runs), [fairness](#4-fairness), [the proofs](#5-the-proofs),
[where code and documents disagree](#6-where-code-and-documents-disagree),
[what is left out](#7-what-is-left-out), [plan](#8-plan),
[how to run](#9-how-to-run).

## 1. The system

One process, one UI thread (the Qt event loop), a global `QThreadPool` for
background jobs, and per feature more threads (the inspector's
`ThreadPoolExecutor`, reader threads of child processes, server threads).  The UI
thread owns the state of the tabs; a job talks to it only through Qt signals,
which are queued and handled when the event loop, or the loop inside a message
box, gets to them.  A job is told to stop through a `threading.Event` it looks at
between its steps.

`PROJECT.json` lists every component with its files, what is modelled of it and
what is not; paths below are under `src/`.

| component | state it keeps | operations | what is hard | what makes it correct | modules |
|---|---|---|---|---|---|
| **Device session** `.../inspector_runtime/core/inspector.py` `_connect_to_device` | place in the conversation, retry count, open session, backup file, progress counters (shared) | connect, enable, inspect, run script, back up, retry with back-off | exceptions inside `except`, retries that repeat work, a cancel event looked at in some places only | a session that logged in is closed on every path, one that did not is bounded by the attempts; a script is neither reordered nor replayed in part; a stop request stops it; the row tells what was done | DeviceSession |
| **Device batch** same file, `inspect_devices`, `run_custom_commands`, `inspect_and_backup_devices` | futures, rows, counters | submit, collect in completion order, cancel what waits, sort | futures cancelled while threads take them up | one row per device, in inventory order; nothing runs after the return | InspectorBatch, BatchPromise |
| **Inspector service** `netops_suite/modules/inspector/service.py` | result workbook of a run, rules and profiles, lists | run, merge a retry, save; edit rules, try a profile, reload | the list changes between a run and its retry; a stop between two checks; a save that fails | a retry never loses or resurrects a row; a stopped run leaves no result | InspectorRun, RetryMerge, ProfileDialog, RunInputs, ProfileRules |
| **Inspector tab and dialogs** `app/ui/tabs/inspector_tab.py`, `app/ui/dialogs/` | running flag, cancel event, last request and result; drafts | check, run, retry failed, stop, shut down; edit lists and profiles | signals of one run delivered after another was started; files that change under modal boxes | what is shown is on disk and belongs to the run shown; what is saved is what was shown | InspectorRun, RunInputs, ProfileDialog |
| **Job runner** `app/ui/common/job_runner.py`, `app/utils/threading_utils.py` | live workers | start; the signals progress, result, error, finished | signals queued across a stop | result or error, then finished | as seen by InspectorRun, ToolRequests |
| **Vendor handlers** `inspector_runtime/vendors/` | the terminal's buffer | log in, enable, page, read an answer | no handler knows when a device is done talking | an answer belongs to its command | VendorSession |
| **Legacy SSH** `core/legacy_ssh*.py`, `ssh_compat.py` | set of endpoints (shared), helper process | choose the client, ask the helper, give it up | a late answer of the helper; two threads and one endpoint | an answer belongs to its request; no helper outlives its session | SshFallback |
| **Profiles and rules** `vendors/__init__.py`, `core/profile_resolver.py`, `core/settings.py` | `custom_rules.yaml` | load, merge, resolve, save | precedence, aliases, other programs that write the file | the sheet's columns are those the rules fill | ProfileRules |
| **Main window** `app/main_window.py` | busy flag, start-up timer, boxes; page, tool and result view | update: check, download, prepare, launch, close; navigation | modal boxes run a loop of their own; signals that call slots that send signals | one job at a time, no chain forks; list, stack and buttons agree | UpdateFlow, WindowPages |
| **Portable update** `app/portable_update.py` | program folder, backup folder, result file | wait, validate, move aside, copy, roll back, report | failure or power loss between any two file operations | the old version is never lost; the report is true | PortableSwap |
| **Application state** `app/app_state.py`, `app/utils/file_utils.py` | JSON files, pointer to the folder, data folder | load, save, move, take over old files, reset | a crash between any two file operations; memory that does not belong to the folder in use | nothing saved is lost; a reset is complete; results stay reachable | ConfigStore, DataFolder |
| **Config builder** `netops_suite/modules/config_builder/` | device table, undo stack, timers, live save; profile files | edit, undo, render, save, hand over; save and delete profiles | two timers and their guards; two writes and a roll back | what is handed over belongs to the row; a profile's text is never lost | DeviceTable, ProfileFiles |
| **Ping/TCP, process runner** `app/services/ping_service.py`, `tcp_check_service.py`, `app/utils/process_utils.py` | counts per target, child process, reader thread | run many targets, stop, time out | stop between rounds; output after the kill | the table counts what was seen | ReachChecks, ToolRequests |
| **DNS, trace, ARP, iperf** `app/ui/tabs/diagnostics/` | request number, last scan | ask, stream, scan | answers that come after the next question | what is shown answers what is on screen | ToolRequests |
| **OUI data, public servers** `app/services/oui_service.py`, `public_iperf_service.py` | memory and cache file | fetch, replace, fall back | overlapping fetches, one registry that fails | all registries or none; the last good list | ToolCaches |
| **Wireless, interfaces** `app/ui/tabs/wireless_tab.py`, `interface_tab.py` and services | table, selection, samples; adapter list | scan, refresh, window scan; change an address | timers and workers meet in one table; adapters unplugged under a box | the table belongs to the scan; a change goes to the adapter confirmed | WirelessPage, WindowScan, NetworkPage |
| **FTP, SCP, TFTP clients** `app/services/ftp_client_service.py`, `scp_client_service.py`, `tftp_service.py` and tabs | sessions and locks, half-written files, result rows | connect, list, transfer, stop | a stop in the middle of a file; jobs of a session that overlap | no half file passes for a whole one | FtpClient, CopyTools |
| **Temporary servers** `ftp_server_service.py`, `scp_server_service.py`, `tftp_service.py` | port, client threads, certificate | start, serve, stop | stop before the server listens; clients that write | the port is held by the run shown; the server stops | TemporaryServers |
| Backup compare, logging, guides, home, theme, scripts | little or none | presentation, one command each | layout | see section 7 | |

How the parts interact: the *tab* starts a *job*; the job runs
`InspectorService.run`, which calls a *batch* method, which runs one *session*
per device on pool threads; a session talks through a *vendor handler* or Netmiko,
over Paramiko or the *legacy helper*; sessions report phases to the batch's
counters, the batch reports devices to the service's progress callback, and the
job's signals carry progress, result, error and finished back to the tab.  What a
run is given comes from the *list editor*, the *profile dialog* and the *config
builder*.  The *update flow* uses the same jobs, and ends by starting the
*portable update* as another process and closing the window.

`PROJECT.json` lists under `hazards` what is hard to test here, at its line, with
the properties that would catch it going wrong.

## 2. The modules

    DeviceSession --extended by--> InspectorBatch --refines--> BatchPromise
                                                                   :
    RetryMerge  --extended by----> InspectorRun . . takes over . . :

    VendorSession  SshFallback  ProfileDialog        beside a session
    RunInputs  ProfileRules                          what a run is given
    UpdateFlow . . launches . . PortableSwap         the update
    WindowPages  DeviceTable  ProfileFiles           the rest of the window
    ConfigStore  DataFolder                          what is on disk
    NetworkPage  WirelessPage  WindowScan            this computer's network
    ReachChecks  ToolRequests  ToolCaches            diagnostics
    FtpClient  CopyTools  TemporaryServers           transfers

A proof module holds the theorems of the modules it extends, an MC module gives
the constants their values:

| MC module | composes | proof module |
|---|---|---|
| MCDeviceSession | DeviceSession, RunInputs, ProfileRules | DeviceSession_proofs |
| (InspectorBatch itself) | InspectorBatch | InspectorBatch_proofs |
| MCInspectorRun | InspectorRun | InspectorRun_proofs |
| MCInspector | VendorSession, SshFallback, ProfileDialog, MCRetryMerge | Inspector_proofs, InspectorRun_proofs |
| MCSettings | ConfigStore, DataFolder, NetworkPage, WirelessPage, WindowScan | Settings_proofs |
| MCDesktop | DeviceTable, ProfileFiles, UpdateFlow, PortableSwap, WindowPages | Desktop_proofs |
| MCTools | ReachChecks, ToolRequests, ToolCaches | Tools_proofs |
| MCTransfers | FtpClient, CopyTools, TemporaryServers | Transfers_proofs |

The parts that an MC module puts together share no state.  A behaviour
chooses one `part` at its start and stays with it, so that the run's state space is
the sum and not the product of the parts.

**DeviceSession** is `_connect_to_device` and the four wrappers
(`_inspect_device`, `_backup_device`, `_run_custom_commands_device`,
`_inspect_and_backup_device`).  `pc[d]` is the place in the function, `after[d]`
remembers where a `return` or an exception is heading while `finally` (handler
path) or the `with` of Netmiko (the other path) closes the session, `held[d]` is
the session.  The paths differ in the order of closing and backing off, in what a
failed command does, and in who counts a failed attempt; each is kept.  A handler that
raises after it opened a connection, in its login or while it disconnects, leaves the
connection to the garbage collector (`handler_connected` is still `False`, and
`finally` skips `disconnect`): `loose[d]` counts those, for a device of `VendorPath`
may be any of the handlers.
`inspectionDone`, `backupTotal` and `backupDone` are the closure counters of
`inspect_and_backup_devices`.  `sent` and `late` are history variables.  What a
device answers is a choice: an answer, an exception that is retried, or one that
is not (`LegacySSHError`, `IncompatiblePeer`).

**InspectorBatch** adds the job thread and the executor around the sessions.
The executor is a library and is modelled from how it is used: a first-in
first-out queue, `MaxWorkers` threads, a cancelled future is only reported by
`as_completed` once a thread takes it out of the queue.  `Return` leaves the
`with` block and sorts.  **BatchPromise** is the contract of the three batch
methods as the service sees it.  `PromiseKept` states that the batch implements it,
with the state of a future mapped to *waiting*, *active* or *over*.

**RetryMerge** is `merge_retry_results` as an operator; `MCRetryMerge` has the
reference definition (`IsMergeOf`) that says what it is for without its steps.
**InspectorRun** composes the tab, the job and the service.  `signals` is the
queue between the worker and the UI thread; `job` is where `InspectorService.run`
is; `excel` holds the result file of each run (named by the run's stamp, which a
retry takes over); `inventory` is the file on disk, edited by the tab or by
somebody else.  The batch is taken at its promise: rows in any order, then
sorted, complete unless stopped.  A row remembers the `run` that made it.

**VendorSession** is one handler on one device.  Thirteen handlers are one record of
traits each (how it logs in, enables, pages, when it stops reading), so that the
differences between their code are the rows of a table, and the device's output
arrives in chunks, perhaps late.  **SshFallback** is the choice between Paramiko
and the helper process, the pipe to the helper with its reader thread and queue,
and the shared set of endpoints.  **ProfileDialog** is the dialog that makes a
profile: its text boxes are written through or not, its preview waits on a timer,
the trial's signals come in under open questions.

**RunInputs** is the list and the commands of a run, from the editor to what the
run reads, while other programs change the files.  **ProfileRules** is the rule
files with their merging, the profile resolved for a device, the columns of the
sheet and which of them an answer fills.

**UpdateFlow** is the update dialogue.  A message box is an element of a stack:
while it is open its handler is suspended and the queue and the start-up timer
go on.  Whether the copy is portable and whether it checks at start-up is chosen
in `Init`.  **PortableSwap** is the updater process, file item by file item, in the
sorted order the code uses.  A rename happens or not; a copy or a removal can stop
half way; `Crash` may come between any two.  `StartProgram` is the next start of the
program, which reads the result file.  **WindowPages** is the navigation: one
operator per slot, an action is the whole chain of slots a click runs through.
**DeviceTable** is the table editor with its undo stack, rendering and live-save
timers and the ways a row's CLI leaves it; **ProfileFiles** the saving of its
profiles, whose two writes may stop anywhere and whose roll back may fail as well (`stuck`).

**ConfigStore** is the settings on disk: `reload_config_files`, `save_path_settings`,
`reset_all_settings`, `load_json`, `save_json`, `ensure_runtime_files`,
`migrate_config_directory` and what the window saves when it closes.
`app_config.json` and `ip_profiles.json` stand for all files, the second because
it takes over `vendor_presets.json` of older versions.  A file is absent, broken
or whole and holds a set of the user's entries; reading it may fail, and saving
it, copying it, or making a missing one.  `Crash` may come between any two steps and
cut a copy short, `DamageFile` is an edit by hand.  The history variable `owned`
holds what the user saved and did not delete; `unread` and `skipped` what the file
in use is known to have and memory not.  A save goes over those; `owned` gives them
up, and nothing else.  **DataFolder** is the choice of the folder and what a start
moves or imports into it.

**NetworkPage** changes the addresses of adapters that may be unplugged under its
box.  **WirelessPage** has two timers and three workers that fill one table,
**WindowScan** the samples of a scan over a time window and its report.

**ReachChecks** is a ping or TCP job with one thread per target; the two summary lines
of `tcping`, which replace what was counted, are read one by one, and a stop may come
between them.  **ToolRequests** has the pages that ask one question at a time; a scan is
known by the text it was started with (`SubnetTexts`), for that is the key of the history
of scans, and two texts may name one subnet.  **ToolCaches** is what the pages keep.

**FtpClient** names a session by the job that opened it and keeps with each job
what it did to a file, so that a row can be compared with the file it speaks of.
`NextFile` opens, and so empties, the target; the row comes with `FirstBlock`, as the
code emits it from the callback of a block, and a stop emits nothing more
(`RowsOfStopped`: the row stays "in progress", unless the window reads a queued signal
so late that the record it carries already says "stopped").
**CopyTools** is SCP and TFTP, **TemporaryServers** the five servers: a run of a
server is a number, and the program may be killed.  The TFTP server's watching thread
(`srvWatch`) is a step of its own; a server that could not listen leaves it behind.

Definitions named as *mutants* in their comments are deliberately wrong versions
of the definition after them; no specification uses them.  `PROJECT.json`
pairs each property with one that must break it, so that no property holds for
lack of a way to fail.

## 3. The runs

| run | instance | what it shows |
|---|---|---|
| `session_script` | one handler and one Netmiko device, 2 commands, 2 attempts | every session that logged in is closed on every path, and what failed logins leave open stays within the attempts; the retry loop never falls through its condition; the script arrives in order, a handler never replays part of it, and a stop request lets at most the command in flight through |
| `session_combined` | the same devices, inspection and backup, 3 attempts; one list file, two addresses, two editor rows; one save, one foreign write of the rules | rows tell the truth about the backup; the progress line fills up; a run gets what was checked, or checks again; columns are those the rules fill |
| `batch_backup` | 3 devices, one of them with a handler, 2 workers, backup, 1 attempt | the list is right, nothing outlives the batch; it returns, and implements `BatchPromise` |
| `run_lifecycle` | 2 devices, 3 runs | run, retry, retry of the retry, with stops, edits of the list, failing saves and a closing window between any two steps; the tab is released after every run |
| `inspector` | eleven handlers, 2 commands, 2 pages; 2 sessions, 1 endpoint; a dialog with 4 edits; every pair of row lists over 3 devices, merged twice | answers on time belong to their commands; helpers are safe; what is saved is what was shown; the merge is right; a session returns |
| `settings` | 2 folders, 1 option, 1 profile, 1 damaged file; 2 adapters; 2 access points; 2 old places, 3 starts | nothing saved is lost, a reset is complete, the three pages act on what they show, results stay reachable |
| `desktop` | 2 tables of at most 2 rows and 4 edits; 3 profile ids over 2 file names; 3 jobs, 1 launch; 4 items; 4 pages, 5 tools | table, profile files, update, swap and window |
| `tools` | 2 targets, 1 probe each, 2 checks; 3 requests, scans and jobs of each tool | answers shown are current, caches are whole, stopped jobs end |
| `transfers` | 2 names a side, 4 FTP jobs, one copy of 2 paths, 2 server starts, 2 clients | rows tell the truth of files, servers hold what they show and stop |
| `cisco_pager`, `sent_rows`, `config_kept` | parts of the above | three statements of the repository's texts that do not hold, section 6 |

Why the bounds are enough.  *Devices*: the sessions share only the cancel event
and the counters; two devices give both paths and every order of two counters,
and in the batch three devices with two workers give a full pool with a device
waiting, the smallest case where cancelling, starting and finishing overlap.
*Attempts*: two are needed for a retry, three for a retry after a retry whose
first failure was counted twice.  *Commands*: two tell "before" from "after" in a
script.  *Runs*: three, for a retry of a retry.  *Pages of output*: two, so that
the pager is seen once in what was just read and once only in all that was read.
*Update jobs*: three are one whole chain of a portable copy, or the start-up check
beside another one.  *Items*: two suffice for "before" and "after" an item; the
instance has an item the old version lacks and the executable in the middle.
*Settings*: an entry is lost or kept by itself, and a file is read and saved as a
whole, so one entry a file is enough; two folders are the old and the new one;
moves, crashes and failures are not bounded, broken files are (`MaxDamage`).
*Table*: two rows for swapping and for duplicate addresses; four edits reach an undo
over a reload.  *Requests*: three, so that an answer can be late by two.  *Transfers*: four jobs are a connection, a transfer,
a listing and a disconnect that overlap; two paths tell the one that failed from
the one that follows.  The guards that hold counters below their bounds only end
behaviours.  The theorems of section 5 remove the bounds for most safety
properties.

`CHECK_DEADLOCK FALSE` stands in the configurations of MCDesktop, MCInspector,
MCSettings, MCTools and MCTransfers: a behaviour may come to where every job has
ended, the window is closed and no bound leaves another start.  The other modules
have an explicit stuttering action for the end.

## 4. Fairness

* Session threads (`Fairness`, `BatchFairness`): weak fairness of each thread.
  Every socket operation of the code has a timeout (`settings.py`), the back-off
  waits at most `2 ** retry_count` seconds and the cooldown is a constant, so a
  thread that can go on does.  The *outcome* of a step is not fair: a device may
  fail each attempt.
* The job thread and the pool: weak fairness of the disjunction of their steps,
  as threads of the operating system.
* `InspectorRun`: weak fairness of the event loop and of the worker; none of the
  user.  `EditInventoryFile` can happen forever without stopping either.
* `VendorSession`: the handler's own steps, the end of its waits, and the delivery of
  output already sent.  A device may break off at any time.
* `UpdateFlow`: weak fairness of the jobs (each request has a timeout) and of the
  event loop; none of the user, of the timer, or of answering a box.
* `PortableSwap`: weak fairness of the updater.  It waits at most 60 seconds for
  the old program and 20 seconds for a locked file.
* `ReachFairness`, `StreamFairness`: each child process is read with a deadline and
  the window handles its queue.
* `SrvFairness`: the accept loops poll with a time-out, the TFTP watching thread every 0.2
  seconds.  A client is never fair.
* `BatchPromise` asks only that the method returns once it may.

## 5. The proofs

`tlapm` checks eight modules; each theorem holds for every value of the constants
that satisfies the named assumptions of the modules (`DevicesAssumption`,
`BoundsAssumption`, `BatchAssumption`, `RunAssumption`, `SwapAssumption`, ...; TLC
evaluates them in every run).  They say that bounds are natural numbers and that
sets of devices are finite; `CopyAssumption` besides that no file is called
`"none"`, the value that stands for no file.  Where a constant is a set of lists the
assumption is that they are lists of devices (`OutsideAssumption`), and of profiles, rule
files and settings that they have the shape the loaders let through
(`RulesAssumption`).  It also says that aliases of columns do not chain, a name for a name
for a name: the code applies them once here and twice there, the model once.  Settings may
hold such a chain (`_normalize_column_aliases`); it is outside what is modelled, and no
step of a proof uses its absence.  No theorem assumes anything of what the program does.

A theorem about one part says so by naming the part's initial state and step; the
parts of a composition share no state, so that a step of the whole is a step or a
stutter of each (`StepsAreOfOnePart`), and `DesktopAlwaysRight`, `SettingsAlwaysRight`,
`SurroundingsAlwaysRight`, `TransfersAlwaysRight` and `RunIsAlwaysGivenWhatIsRight`
then state of the specification the run checks what was proved of its parts.

**DeviceSession_proofs.**  `TypeCorrect`, with one lemma per control helper
(`Unwind`, `Leave`, `HandlerFails`, ...).  `SessionsStayBounded` and
`RetryLoopNeverFallsThrough` share the invariant `SessionInv`: the places where
no session that logged in can be open, and that a thread which may still try again *has an
attempt left*, also while it is closing or cooling down on its way there.  The
second part is what the loop property needs: the property itself speaks of the
loop's head only and is not inductive.  `LooseInv` adds that forgotten connections are
never more than the attempts counted, one attempt in progress excepted; that needs to
know at which places an attempt is already counted, for a handler may count one twice.  `StopIsHeeded` needs `StopInv`: a thread
about to send has sent nothing late, for every send is preceded by a look at the
cancel event.  `ScriptInOrder` and `HandlerReplay` see a session through nine kinds of move
(`StepIsScriptMove`) and prove `ScriptInv` of those: how often each command was
sent as a function of the attempts made and of the place in the script.
`RowsTellTheTruth` uses `RowInv` (an answer is given once, on the way out, and an
answer that is no error comes from the last step of the work) and `WholeScript`.
`ProgressStaysWithinTotals` and `ProgressCompletes` use `CountersInv`, which says
what each counter counts: the devices whose phase was reported, those that failed,
those that ended.  `InputsAlwaysRight` is about RunInputs.  `InputsInv` ties the mark
"checked" to what it was made from on every path that changes the page, and says of
a task what it had read when it was confirmed; that a run contacts only devices that
fit then follows from what it reads anew, never from the check.  `SavedIsAccepted` is
the action property of the editor.  `ProfilesAlwaysRight` is about ProfileRules, for any
profiles, rule files, settings and lists.  `RulesInv` says what a run remembers: while it
goes on, what is loaded is what the file held when it began, whoever writes the file;
each device done was sent the commands of its profile, and what it filled is named by the
rule of such a command, or comes from code, and is not left out (`DeviceOK`); the columns'
order is the one computed at the start.  `RunFollows` and `SheetTells` derive the
properties from that.  Lists are picked from and joined, never folded, so that the lemmas
`ChosenTells` (the picked positions can be numbered; the rank of a position is a count),
`OnlyTells`, `OnceTells`, `Joined` and `FlattenTells` need no induction over data; where one
is needed, over the items of a rule and the flattened lists, it is a least counterexample
(`UpTo`).  `OrderTells` says that the order of the user survives picking, joining and
removing repetitions.  `SaveTouchesOne` is the action property of a save.

**InspectorBatch_proofs.**  `BatchStepIsSessionStep` lets every theorem about
sessions be used in the batch (`BatchSessionsBehave`).  `PoolInv` ties futures to
sessions and bounds the pool.  `LateBound` is the inductive form of "one command
per worker": in a cancelled run no device joins those that were sent something
late or are sending.  `ListInv` gives `NoDuplicates` and `ListIsRight`, and with
`PoolInv` `NothingIsLeftRunning`.  `TakenUpInOrder` is inductive with `PoolInv`.
`BatchKeepsPromise` is the safety half of the refinement: the initial state maps
to the promise's, every step to a step or a stutter.

**InspectorRun_proofs.**  `MergeIsRightForAll` says of every two row lists and every
order what `MergeIsRight` says of those over three devices.  The merge sorts, and
induction over the lists is out of reach; so the sorted list is defined as the one
whose k-th element has k - 1 before it, and the lemmas count instead.  Of the run,
`RunInv` says for each place of the worker and each content of the signal queue
what the tab can believe: which run is on screen, whether its file is written, what
a retry took over.  `RunningAlwaysCovers`, `SuccessNeverRunAgain`,
`StoppedRunNeverLeavesAnything` and `ShownResultAlwaysRight` follow from it.

**Inspector_proofs.**  `SshInv` numbers the requests of a session: what is in the
pipe, with the helper and in the queue are answers to requests up to the last, and
a session that has given its helper up reads nothing more.  `DialogInv` follows the
profile dialog through its boxes: which text was in the boxes when the question was
asked (`AskedWith`), and that writing the boxes through twice is the same as once
(`PersistTwice`), for both the question and the answer write them.  `VendorInv` says
of a session of a handler that some wait of it ended too early or that it is `OnTime`:
for each point where a handler may stand, where the device may be and what it has said
that is not yet read (`Place`).  While a command is read, what was read and what is
pending make up the pages shown so far, each once and in order (`PagesOf`); so what is
selected from it when the handler stops is the whole text (`TextInOrder`).  The text is
taken out of what was read by counting positions, where a fold or `SelectSeq` would
have needed an induction.  This covers all thirteen handlers, also the one whose run
finds a session that never ends; for that one the invariant allows the device to page,
since a login that meets "#" leaves paging on and the handler answers the pager
(`RestGoesOn`: the commands may begin with a device that pages if the handler reads to
the end of the pages).

**Desktop_proofs.**  `SwapInv` describes, for each loop of the updater, the
items it has passed and those still before it, in both folders; without it
"never lost" is not inductive, because whether an item may be removed depends on
where the loop that moved it stood.  `NothingIsLost`, `ReportsAreTrue` and
`ShownSuccesses` follow.  `ExecutableStays` needs one fact more
(`DoneIsReported`): an updater that is done has arrived at an outcome.
`OneUpdateAlways` counts the jobs, events and suspended handlers that belong to one
chain; `ProfileFilesAlwaysSafe` follows the backup and the two writes of a save, and what a roll
back that failed itself leaves: the old text in the backup.
`WindowAlwaysConsistent` goes through the chain of slots of each click: `WinOK` is what
every operator of the chain hands to the next, and `PagesInv` adds what the previous
start has saved.  `TableInv` is the property with types, one of which is that every snapshot of
the undo and redo stacks carries the number of this document; the lemmas say what
each edit owes (`StepKeeps`: a rendering or a timer for it, a save or the mark "dirty").

**Settings_proofs.**  `SavedIsNeverLost` needs to know when memory stands for a
file (`Loaded`): from its reading until the process ends, through a move, and for
the profiles also while a reload reads the first file, since its failure falls
back to them.  `SaveIsSafe` says that then what is owned of the file in use is in
memory, in a copy of the damaged file, or among what a save is known to go over;
`PresetsTakenOver` orders the save of the presets before the removal of their
file.  Two lemmas then cover every action: one that takes nothing from any file
(`KeepingLosesNothing`), one that saves a file (`SavingLosesNothing`).
`ResetAlwaysComplete` needs to know, for each step of a reset and of the start after a
crash in it, which files are already empty (`ResetInv`).  The two action
properties of the data folder need little (`DataInv`: a copy that was worked with has
settings of its own and never imports); their work is in what each step does to names
that are taken.  Of the pages, `ScanInv` ties samples, cap and report, `WifiInv` adds
that the scan's answer replaces its text before the scan is over and that timers wait
for the first show, and `NicInv` says which of the jobs is the change that the
mark stands for (`OneOfAKind`, `FlagsFit`), in what order lists reach the page, and what
each command has done so far to an adapter nobody unplugged (`AddressIsOn`).

**Tools_proofs.**  The request number on screen bounds those of all answers under
way.  For the scans the invariant says that the history holds, for each text, what the last
scan of that text that found anything has seen.
`VendorDataAlwaysWhole` is the reason why a fetch that fails in the middle leaves
no mixture.  `ToolsKeepCachesRight` maps the composition's steps to the caches'.

**Transfers_proofs.**  `SrvInv`, `CopyInv` and `FtpInv` are conjunctions of named
parts with one lemma per action.  The servers: a run holds the port only between its
bind and its close, and certificate and key are written as one pair.  The copies
(`LastRowsAreTrue`, `FlightHasItsRow`, `PathsAreTold`): a file that is being written
has its row, and the last row about it says what became of it.  FTP: jobs wait on
the session's lock (`LocksFit`); a file that is neither untouched nor whole is the one its
job is moving, or the job has ended with an error, or it was stopped (`HalfWay`, `Fits`,
`CellsFit`), and every step of another job keeps that (`Follows`); a user who waits for each answer has one job at a
time (`Patience`), and for her the list on screen is the server's and a session she
opened can be reached.

Model-checked only.  Liveness (`BatchReturns`, `FollowedRunsEnd`, `SessionReturns`,
`UpdateEnds`, `StoppedJobsEnd`, `StoppedServerEnds`, and the fairness half of
`PromiseKept`), which the prover does not handle.

## 6. Where code and documents disagree

Three runs must find a violation:

* `cisco_pager`.  The old Cisco handler tests for `--More--` in all it has read, not
  in what it just read (`vendors/cisco.py:353`), so that a command whose output pages
  never ends; the guard against an endless loop is a size it need not reach.
* `sent_rows`.  "A row whose CLI cannot be made because of an error is not sent"
  (`docs/user/ko/config-builder.md:99`).  An edit that widens the table returns before it
  starts the rendering timer (`desktop_impl.py:3410`), and the CLI of the row's former
  profile is handed over.
* `config_kept`.  A move to a folder which holds files of the same names preserves
  them (`docs/user/ko/settings.md:92`).  The copying does; but the new folder is in use
  at once and is not read (`app/app_state.py:252`), so that the next edit or the closing
  of the window saves memory over the preserved files.

Other disagreements met while modelling, each of which the models reproduce or
name, without a run of its own:

* *Update.*  When an update fails the window says that the previous version was run
  as it was (`app/main_window.py:1013-1018`); when an item could not be put back the
  same text is shown over a mixed folder (`ShownFailureMeansOldVersion` does not hold;
  `OldVersionIsNeverLost` does).  The updater "waits for the old program and then
  swaps" (`app/portable_update.py:5`); the wait gives up after 60 seconds (`:213`), and the
  program may refuse to close (`SwapsAfterExit` does not hold).  Of the two
  ways into an update job only the check looks at `_update_busy` (`main_window.py:1028`);
  `_download_update` (`:1135`) does not, so that a check by hand whose box is answered while
  the start-up check is under way puts a download beside it; no text promises otherwise, so `OneUpdateAtATime` speaks of one job only for programs that
  do not check at start-up, and of chains that do not fork for all.
* *Settings.*  A reset leaves `vendor_presets.json`; one that is still there is taken over
  again by the reload at the reset's end (`ResetIsComplete` leaves the case out).  The import of
  an installed copy's settings is not resumed after a crash once `app_config.json` exists
  (`README.md:143`).  A result skipped because of a name collision is moved by the next,
  outer move although `file_utils.py:516-517` says it stays.
* *Sessions left open.*  A handler that raises out of its login does not close the Telnet
  connection it opened (`vendors/axgate.py:186-194`, `ubiquoss.py:431-439`,
  `nexg.py:310-318`; `cisco.py:267-278` and `alcatel_lucent.py:398-408` while they write the
  session log), and `inspector.py:856` skips `disconnect` since `handler_connected` is still
  `False`; an exception inside `disconnect` does the same.  Each retry opens another one.
  `docs/user/ko/inspector.md:184` warns of devices that limit their sessions;
  `SessionsAreBounded` says what holds: one per attempt at most.
* *Cisco over Telnet.*  A device that shows "#" after the return key is used without
  `terminal length 0` (`cisco.py:291-294`; it is sent at `:317` only after the enable
  dialogue), so that its output pages, which `cisco_pager` is about.
* *Profile files.*  "If the verification fails, the existing file is restored"
  (`docs/user/ko/config-builder.md:115`).  The roll back may raise itself
  (`authoring.py:738`, `:740`); the unverified text then stays under an error.  The old one
  is in the `.bak`, until the next save of the profile writes the unverified text over it;
  `SaveIsAllOrNothing` says so.
* *ARP scan.*  A conflict is said to be a difference "from the previous scan"
  (`app/resources/guides/content/ko/diagnostics.md:98`).  The history is kept by the text of
  the box (`tools.py:586`, `:649-650`, `:690-691`) while several texts are one subnet for
  `ip_network(strict=False)` (`:559`): a scan of the same subnet spelt otherwise is compared
  with none, or with an older one.
* *tcping.*  The summary replaces the counts, line by line
  (`tcp_check_service.py:170-179`, `:217-224`).  A stop after its first line shows N sent, none
  answered and none failed, whatever was counted.
* *Device table.*  The live save does not always follow an edit (`config-builder.md:81`
  against `desktop_impl.py:3405-3416`; `LiveSaveReflectsEdits` does not hold).
* *Legacy SSH.*  "Must not trigger automatic retries" (`legacy_ssh.py:17`); a driver that
  swallows the error does (`vendors/axgate.py:352-363`).
* *FTP, SCP, TFTP.*  A download opens, and so empties, its local file before it asks the
  server for the data (`ftp_client_service.py:477`, `:489`), and its row comes with the
  first block: a refused one leaves an emptied file and no row at all, only the error of the
  job.  The record of a stopped file says so (`:448-450`, `:497-499`, `:533-535`, `:573-575`) but
  is not emitted, so that its row stays "in progress".  The running tasks the window asks for before it closes are said to
  include all that await completion (`diagnostics/core.py:313`); the listing that follows a
  finished FTP job runs after the tab is no longer busy (`ftp.py:1218`).  A server reports
  that it has stopped when the threads of its clients had 1.5 seconds to end, whether they
  did or not (`scp_server_service.py:189-194`).  TFTP shows "running" before it has bound
  (`tftp_service.py:253-256`).
* *Inspector inputs.*  A sample saved over the list already checked does not undo the check
  (`inspector_tab.py:1131`); the editor accepts characters that `prepare_custom_commands`
  later refuses; the duplicate check does not strip spaces, the run does.
* *Profiles.*  Saving a profile for a shipped vendor and OS cannot remove shipped commands
  (`_merge_inspection_commands` appends); generating profile files writes an empty one for
  kinds that come only from reference files; copying a profile in the dialog drops column
  groups and other fields it does not show; a broken `custom_rules.yaml` hides all user
  profiles until it is repaired.
* *Handlers.*  Some return the text of an exception as the result; some type a password
  without looking at the prompt; a handler past its deadline shifts what comes late to the
  next command (`vendors/base.py:259`), which is why `OnTimeSessionIsExact` speaks of output on
  time.
* *Network.*  The DHCP fallback script reports success when nothing was applied; a refresh
  asked for after a change is dropped while one runs (`interface.md:54`); a cancelled window
  scan counts an empty sample, so that every access point is "unstable".

## 7. What is left out

Within the modelled parts: what commands print and how it is parsed; file names
and folders below a run's stamp; styling of the workbook; log lines and wording.  A
crash of the whole program during an inspector run is not modelled: it keeps
nothing on disk but the workbook, which is written in place.  The run's stamp has a
resolution of one second; two runs within a second are excluded by the confirmation
dialogue before each run.  VendorSession assumes of the device that no line of output
looks like its prompt and that a handler which neither switches paging off nor looks
for a pager serves devices that do not page; handlers that only wrap Netmiko are the
library's channel and not modelled.  The file transfer protocols, Qt's event loop,
`ThreadPoolExecutor`, Paramiko and the file system are external and modelled from how
the code uses them.

Not modelled: presentation (theme, home, guides, help, widgets), parsers of command
output, logging configuration, the backup compare view, build and QA scripts.  They
keep no state across steps, so there is nothing for a model checker that a unit test
does not do better.  `PROJECT.json` says for each component that is partly modelled
what is missing.

## 8. Plan

Done, in this order: the device session (the heart of the program's risk: it
touches other people's switches), the batch with its contract, the merge, the run
as the user drives it, the updater and the dialogue that launches it, the settings
on disk; then transfers, diagnostics, handlers and the helper, the pages and dialogs;
then the proofs of section 5.

Next, most important first:

1. `JobRunner` on its own, as the abstract specification `InspectorRun` and
   `UpdateFlow` share, and the order in which the window shuts its tabs down.
2. The forms of the settings, the quick bar and result dock of the diagnostics tab.

## 9. How to run

    tlc -workers 2 -config DeviceSession_script.cfg MCDeviceSession
    tlc -workers 2 -config InspectorBatch_backup.cfg InspectorBatch
    tlc -workers 2 -config MCInspectorRun.cfg MCInspectorRun
    tlapm InspectorBatch_proofs.tla

and likewise for the other configurations; `PROJECT.json` names the module of
each run, the lines each definition models (`map`) and the theorems.

----------------------------- MODULE RunInputs ------------------------------
(* What a run of the inspector is given (app/ui/tabs/inspector_tab.py,       *)
(* app/ui/dialogs/inventory_editor_dialog.py, and the service behind them):  *)
(* the list of devices, made in a table, as a sample, or by another program; *)
(* the commands, typed, in a file, or sent by the config builder; the check  *)
(* of both, the confirmation with its preview, and what the run then reads.  *)
(* The boxes and dialogs are modal, but files change under them.             *)
EXTENDS Naturals, Sequences, SequencesExt, FiniteSets

CONSTANTS
    ListFiles,     \* files a list of devices may be in
    Outside,       \* lists other programs write: sequences of Device
    Typed, Filed,  \* commands that are typed, and that a command file may hold
    MaxAddress,    \* addresses are 1 .. MaxAddress
    MaxEditorRows  \* bound: rows of the editor

ASSUME InputsAssumption ==
    /\ {MaxAddress, MaxEditorRows} \subseteq Nat /\ MaxAddress >= 2
    /\ Typed \cup Filed \subseteq {"", "plain", "variable", "broken"}

VARIABLES
    lists,     \* the list in each file, empty where there is none
    script,    \* the commands in the command file
    prep,      \* the page
    editor,    \* the table editor
    task        \* the box, and the run

prepVars == <<lists, script, prep, editor, task>>

Blank == 0
Vendors == {"known", "new"}

\* a row: the address, the kind of device, and whether it has a value for the
\* variable that commands may use
Device == [ip : Blank .. MaxAddress, vendor : Vendors, filled : BOOLEAN]
NoList == "none"    \* no file, nothing shown

ASSUME OutsideAssumption == Outside \subseteq Seq(Device)

Closed == [open |-> FALSE, lines |-> <<>>, needs |-> FALSE]
NoTask == [st |-> "idle"]

InputsInit ==
    /\ lists = [l \in ListFiles |-> <<>>]
    /\ script \in Filed
    /\ prep = [list |-> NoList, account |-> 0, mode |-> "inspection", source |-> "inline", typed |-> "",
               received |-> {}, first |-> FALSE, ok |-> FALSE, checked |-> <<>>, seen |-> <<>>, preview |-> Blank,
               profiles |-> {"known"}, missing |-> "", result |-> NoList]
    /\ editor = Closed
    /\ task = NoTask

----------------------------------------------------------------------------
(* The check (_validate_inventory): validate_dataframe and                   *)
(* prepare_custom_commands, or validate_device_commands.                     *)
Custom(p) == p.mode = "custom"
ByDevice(p) == Custom(p) /\ p.source = "device"
ScriptOf(p) == IF p.source = "inline" THEN p.typed ELSE script

\* _sample_command_variables
UsesVariable(p) == Custom(p) /\ ~ByDevice(p) /\ ScriptOf(p) = "variable"

\* read_excel_file
ReadList(p) == lists[p.list]

Addresses(devices) == {devices[i].ip : i \in DOMAIN devices}
Distinct(devices) == \A i, j \in DOMAIN devices : devices[i].ip = devices[j].ip => i = j

ValidList(devices, profiles) ==
    /\ devices # <<>> /\ Blank \notin Addresses(devices) /\ Distinct(devices)
    /\ \A i \in DOMAIN devices : devices[i].vendor \in profiles

ValidCommands(devices, p) ==
    /\ ByDevice(p) => Addresses(devices) \cap p.received # {}
    /\ (Custom(p) /\ ~ByDevice(p)) => ScriptOf(p) \notin {"", "broken"}
    /\ UsesVariable(p) => \A i \in DOMAIN devices : devices[i].filled

\* the devices the run is for, by their place in the list
Wanted(devices, p) == {i \in DOMAIN devices : ByDevice(p) => devices[i].ip \in p.received}

\* what the check and the request are made from
Inputs(p) == <<p.list, p.account, p.mode,
               IF ~Custom(p) THEN "" ELSE p.source,
               IF ~Custom(p) THEN "" ELSE IF p.source = "inline" THEN p.typed ELSE "",
               IF ByDevice(p) THEN p.received ELSE {}>>

HasInput(p) ==
    /\ p.list # NoList
    /\ Custom(p) /\ p.source = "inline" => p.typed # ""
    /\ p.account # 1    \* a common account without its password

Unchecked(p) == [p EXCEPT !.ok = FALSE, !.checked = <<>>, !.seen = <<>>, !.preview = Blank]

Checked(p) ==
    LET devices == ReadList(p)
        new == {devices[i].vendor : i \in DOMAIN devices} \ p.profiles IN
    IF ValidList(devices, p.profiles) /\ ValidCommands(devices, p)
    THEN [p EXCEPT !.ok = TRUE, !.checked = Inputs(p), !.seen = <<devices, ScriptOf(p)>>, !.missing = "",
                   !.preview = IF Custom(p) THEN devices[Min(Wanted(devices, p))].ip ELSE Blank]
    ELSE [Unchecked(p) EXCEPT !.preview = p.preview, !.missing = IF new = {} THEN "" ELSE CHOOSE v \in new : TRUE]

----------------------------------------------------------------------------
(* The page.  Its controls are locked while a run is on.                     *)
Free == task.st = "idle" /\ ~editor.open
Page == UNCHANGED <<lists, script, editor, task>>

\* _handle_inventory_changed: what was shown of the last list goes too
ListChanged(p, l) == [Unchecked(p) EXCEPT !.list = l, !.missing = "", !.result = NoList]

\* the signal comes only when the text is another one
PathSet(p, l) == IF l = p.list THEN p ELSE ListChanged(p, l)

PickInventory(l) == Free /\ Page /\ prep' = PathSet(prep, l)

\* the common account: off, on without a password, on; the password of the file is alike
SetAccount(a) == Free /\ Page /\ a # prep.account /\ prep' = [Unchecked(prep) EXCEPT !.account = a]

SetMode(m) == Free /\ Page /\ m # prep.mode /\ prep' = [Unchecked(prep) EXCEPT !.mode = m]

\* _handle_command_changed
TypeCommands(s) ==
    Free /\ Page /\ s # prep.typed /\ prep' = [Unchecked(prep) EXCEPT !.typed = s]

\* _handle_command_source_changed
SetSource(s) ==
    /\ Free /\ Page /\ Custom(prep) /\ s # prep.source
    /\ s = "device" => prep.received # {}
    /\ prep' = [Unchecked(prep) EXCEPT !.source = s]

ToggleFirst == Free /\ Page /\ prep' = [prep EXCEPT !.first = ~@]

\* receive_device_commands, refused while a run is on; a trial on one device is proposed
ReceiveDeviceCommands(ips) ==
    /\ Free /\ Page
    /\ prep' = [Unchecked(prep) EXCEPT !.received = ips, !.mode = "custom", !.source = "device", !.first = TRUE]

ClearDeviceCommands ==
    /\ Free /\ Page /\ Custom(prep) /\ prep.source = "device"
    /\ prep' = [Unchecked(prep) EXCEPT !.received = {}, !.source = "inline"]

\* _open_profile_editor, from the list of profiles or for the one that is missing
OpenProfileEditor ==
    /\ Free /\ Page
    /\ \E more \in SUBSET {v \in Vendors : v = prep.missing} :
         prep' = [Unchecked(prep) EXCEPT !.profiles = @ \cup more]

ValidateInventory == Free /\ Page /\ HasInput(prep) /\ prep' = Checked(prep)

----------------------------------------------------------------------------
(* Lists from elsewhere: other programs, and the sample.                     *)
WriteList(l, devices) ==
    /\ Len(devices) > 0
    /\ lists' = [lists EXCEPT ![l] = devices]

ChangeOutside ==
    /\ \/ \E l \in ListFiles, devices \in Outside : WriteList(l, devices) /\ UNCHANGED script
       \/ script' \in Filed \ {script} /\ UNCHANGED lists
    /\ UNCHANGED <<prep, editor, task>>

\* _create_sample_inventory: two devices, with the variables the commands use
Sample(p) == [i \in 1 .. 2 |-> [ip |-> i, vendor |-> "known", filled |-> UsesVariable(p)]]

CreateSampleInventory(l) ==
    /\ Free
    /\ lists' = [lists EXCEPT ![l] = Sample(prep)]
    /\ prep' = PathSet(prep, l)
    /\ UNCHANGED <<script, editor, task>>

----------------------------------------------------------------------------
(* The editor (InventoryEditorDialog).                                       *)
NewLine == [ip |-> Blank, vendor |-> "known", filled |-> FALSE]
Table == UNCHANGED <<lists, script, prep, task>>
Edit(lines) == editor.open /\ Table /\ editor' = [editor EXCEPT !.lines = lines]

OpenInventoryEditor ==
    /\ Free
    /\ LET found == IF prep.list = NoList THEN <<>> ELSE ReadList(prep) IN
       editor' = [open |-> TRUE, needs |-> UsesVariable(prep),
                  lines |-> IF found = <<>> THEN <<NewLine>> ELSE found]
    /\ UNCHANGED <<lists, script, prep, task>>

\* _row_defaults: like the row above, but for the address and the variables
LineBelow(lines) == [NewLine EXCEPT !.vendor = lines[Len(lines)].vendor]

AddRow == Len(editor.lines) < MaxEditorRows /\ Edit(Append(editor.lines, LineBelow(editor.lines)))

\* _next_ip; a row without an address has none after it
Bumped(ip) == IF ip = Blank \/ ip = MaxAddress THEN Blank ELSE ip + 1

DuplicateRow(i) ==
    /\ Len(editor.lines) < MaxEditorRows
    /\ Edit(Append(editor.lines, [editor.lines[i] EXCEPT !.ip = Bumped(@)]))

DeleteRow(i) ==
    LET left == RemoveAt(editor.lines, i) IN Edit(IF left = <<>> THEN <<NewLine>> ELSE left)

\* one cell at a time
EditCell(i, line) ==
    /\ Cardinality({f \in DOMAIN line : line[f] # editor.lines[i][f]}) = 1
    /\ Edit([editor.lines EXCEPT ![i] = line])

\* paste_clipboard: a column of addresses, on rows that are added as needed
PasteAddresses(i, n) ==
    LET last == IF i + n - 1 > Len(editor.lines) THEN i + n - 1 ELSE Len(editor.lines) IN
    /\ last <= MaxEditorRows /\ n <= MaxAddress
    /\ Edit([k \in 1 .. last |->
                LET line == IF k <= Len(editor.lines) THEN editor.lines[k] ELSE LineBelow(editor.lines) IN
                IF k \in i .. i + n - 1 THEN [line EXCEPT !.ip = k - i + 1] ELSE line])

NoProblems ==
    /\ Blank \notin Addresses(editor.lines) /\ Distinct(editor.lines)
    /\ editor.needs => \A i \in DOMAIN editor.lines : editor.lines[i].filled

\* save: nothing with problems, and what cannot be written leaves the dialog open
SaveEditor(l) ==
    /\ editor.open /\ NoProblems
    /\ lists' = [lists EXCEPT ![l] = editor.lines]
    /\ editor' = Closed
    /\ prep' = ListChanged(prep, l)
    /\ UNCHANGED <<script, task>>

CancelEditor == editor.open /\ Table /\ editor' = Closed

----------------------------------------------------------------------------
(* The run (_run_inspector): checked first if it was not since the last      *)
(* change, and started if the box is confirmed.                              *)
AskToRun ==
    /\ Free /\ HasInput(prep)
    /\ prep' = IF prep.ok THEN prep ELSE Checked(prep)
    /\ task' = IF prep'.ok THEN [st |-> "box", as |-> prep'] ELSE task
    /\ UNCHANGED <<lists, script, editor>>

DeclineRun == task.st = "box" /\ task' = NoTask /\ UNCHANGED <<lists, script, prep, editor>>

ConfirmRun ==
    /\ task.st = "box"
    /\ task' = [task EXCEPT !.st = "start"]
    /\ prep' = [prep EXCEPT !.result = NoList]
    /\ UNCHANGED <<lists, script, editor>>

\* run reads the list and the command file again, and what it reads is checked like before
RunOf(p) ==
    LET read == ReadList(p)
        wanted == Wanted(read, p)
        devices == [i \in IF p.first THEN {Min(wanted)} ELSE wanted |-> read[i]] IN
    IF ~ValidList(read, p.profiles) \/ wanted = {} THEN [st |-> "error", as |-> p, seen |-> <<read, ScriptOf(p)>>]
    ELSE IF ~ValidCommands(devices, p) THEN [st |-> "error", as |-> p, seen |-> <<read, ScriptOf(p)>>]
    ELSE [st |-> "run", as |-> p, devices |-> devices, seen |-> <<read, ScriptOf(p)>>]

ReadInputs ==
    /\ task.st = "start"
    /\ task' = RunOf(task.as)
    /\ UNCHANGED <<lists, script, prep, editor>>

EndTask ==
    /\ task.st \in {"run", "error"}
    /\ prep' = [prep EXCEPT !.result = IF task.st = "run" THEN task.as.list ELSE NoList]
    /\ task' = NoTask
    /\ UNCHANGED <<lists, script, editor>>

InputsNext ==
    \/ \E l \in ListFiles : PickInventory(l) \/ PickInventory(NoList) \/ CreateSampleInventory(l) \/ SaveEditor(l)
    \/ \E a \in 0 .. 2 : SetAccount(a)
    \/ \E m \in {"inspection", "custom"} : SetMode(m)
    \/ \E s \in Typed : TypeCommands(s)
    \/ \E s \in {"inline", "file", "device"} : SetSource(s)
    \/ \E ips \in SUBSET (1 .. MaxAddress) \ {{}} : ReceiveDeviceCommands(ips)
    \/ ToggleFirst \/ ClearDeviceCommands \/ OpenProfileEditor \/ ValidateInventory \/ ChangeOutside
    \/ OpenInventoryEditor \/ AddRow \/ CancelEditor
    \/ \E i \in DOMAIN editor.lines :
         \/ DuplicateRow(i) \/ DeleteRow(i) \/ \E line \in Device : EditCell(i, line)
         \/ \E n \in 1 .. 2 : PasteAddresses(i, n)
    \/ AskToRun \/ DeclineRun \/ ConfirmRun \/ ReadInputs \/ EndTask

----------------------------------------------------------------------------
(* The mark that spares the check before a run stands only while everything  *)
(* the check was made from is still what the page shows, and so do the       *)
(* results: whatever path of the page changed it.                            *)
CheckIsOfWhatIsShown ==
    /\ prep.ok => prep.checked = Inputs(prep)
    /\ prep.result # NoList => prep.result = prep.list

(* However old the check is, and whatever became of the files since, a run   *)
(* connects only to devices that have a profile and, for commands, all they  *)
(* need.  If the files are still the same it does not fail, and a trial      *)
(* connects to the one device whose commands the confirmation showed.        *)
RunsOnlyWhatFits ==
    /\ task.st = "run" =>
        /\ Distinct(task.devices)
        /\ \A i \in DOMAIN task.devices :
              /\ task.devices[i].ip # Blank /\ task.devices[i].vendor \in prep.profiles
              /\ ByDevice(task.as) => task.devices[i].ip \in task.as.received
              /\ (Custom(task.as) /\ task.seen[2] = "variable") => ByDevice(task.as) \/ task.devices[i].filled
        /\ task.as.first => Cardinality(DOMAIN task.devices) = 1
        /\ (Custom(task.as) /\ task.seen = task.as.seen) =>
              task.devices[Min(DOMAIN task.devices)].ip = task.as.preview
    /\ task.st = "error" => task.seen # task.as.seen

(* A list that was saved from the editor passes the check of the page it     *)
(* goes back to, but for devices that have no profile yet and for commands   *)
(* that are wrong themselves, or were changed meanwhile.                     *)
EditedListIsAccepted ==
    [][(editor.open /\ ~editor'.open) =>
          \A l \in ListFiles : lists'[l] # lists[l] =>
              /\ prep'.list = l /\ ValidList(lists'[l], Vendors)
              /\ (UsesVariable(prep) /\ editor.needs) => \A i \in DOMAIN lists'[l] : lists'[l][i].filled]_prepVars

(* A run is given what was checked and confirmed.                            *)
RunInputsAreRight == [](CheckIsOfWhatIsShown /\ RunsOnlyWhatFits) /\ EditedListIsAccepted
=============================================================================

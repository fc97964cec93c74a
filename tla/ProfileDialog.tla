---------------------------- MODULE ProfileDialog ----------------------------
(***************************************************************************)
(* The dialog that makes an inspection profile                             *)
(* (app/ui/dialogs/inspector_profile_dialog.py): the commands with sample  *)
(* outputs, the columns that take values out of them, the preview behind a *)
(* timer, the trial on a device, and the save.  Its questions run a nested *)
(* event loop: the timer and the trial's signals come in while one is      *)
(* open, the user's edits do not.                                          *)
(*                                                                         *)
(* The edit fields are written through to the state at each change; the    *)
(* box that holds a column's command is not, and is a variable of its own. *)
(***************************************************************************)
EXTENDS Naturals, Sequences, FiniteSets, SequencesExt

CONSTANTS
    Texts,            \* command texts
    ProfileChoices,   \* profiles to copy from: [texts, columns]
    MaxCommands,      \* bound: rows of each list
    MaxDialogEdits    \* bound: clicks and edits

ASSUME DialogAssumption ==
    /\ {MaxCommands, MaxDialogEdits} \subseteq Nat
    /\ \A p \in ProfileChoices : p.texts \in Seq(Texts) /\ p.columns \in Seq(Texts)

VARIABLES
    draft,     \* state: commands [text, sample: the command it is the output of], columns [command, rule], form (the other fields)
    view,      \* selected rows (0 for none), the column's command box, suggestions, dirty, timer
    preview,   \* latest_yaml_text, and whether the save button is enabled
    saved,     \* the profile in the rules file
    trial,     \* a trial or a probe: window side and worker side
    dialog,    \* "open", the question that is open, or "closed"
    dialogEdits

dialogVars == <<draft, view, preview, saved, trial, dialog, dialogEdits>>

NoText == "blank"
NoProfile == [texts |-> <<>>, columns |-> <<>>, form |-> 0]
NoTrial == [running |-> FALSE, cancelled |-> FALSE, work |-> "none", todo |-> <<>>, outputs |-> {}, fill |-> FALSE]

Texts_(d) == [i \in DOMAIN d.commands |-> d.commands[i].text]

\* _commands: what is not blank
CommandTexts(d) == SelectSeq(Texts_(d), LAMBDA t : t # NoText)

\* _refresh_column_commands: the box keeps its text when it is still a command, else the first one
BoxAfter(d, v) ==
    LET c == CommandTexts(d) IN
    IF v.box \in ToSet(c) THEN v.box ELSE IF c = <<>> THEN NoText ELSE c[1]

\* _load_column: a command that is not in the list leaves the box as it is
BoxOfColumn(d, v, row) ==
    IF row > 0 /\ d.columns[row].command \in ToSet(CommandTexts(d)) THEN d.columns[row].command ELSE v.box

\* _persist_column
ColumnPersisted(d, v) ==
    IF v.column = 0 THEN d ELSE [d EXCEPT !.columns[v.column].command = v.box]

\* _schedule_preview
Scheduled(v) == [v EXCEPT !.dirty = TRUE, !.timer = TRUE]

\* _refresh_column_list: the row is selected without the signal of a selection
ColumnSelected(d, v, row) == [v EXCEPT !.column = row, !.box = BoxOfColumn(d, v, row)]

\* build_simple_custom_rules_yaml: what the file is made of; samples are not
YamlOf(d) ==
    [texts |-> CommandTexts(d),
     columns |-> [i \in DOMAIN d.columns |-> [command |-> d.columns[i].command, rule |-> d.columns[i].rule]],
     form |-> d.form]

\* _validation_issues
Valid(d) ==
    /\ d.form > 0
    /\ d.commands # <<>>
    /\ \A i \in DOMAIN d.commands : d.commands[i].text # NoText
    /\ \A i, j \in DOMAIN d.commands : d.commands[i].text = d.commands[j].text => i = j
    /\ \A i \in DOMAIN d.columns : d.columns[i].command \in ToSet(CommandTexts(d))

\* refresh_preview
PreviewOf(d) == [yaml |-> YamlOf(d), button |-> Valid(d)]

RowsOf(profile, d) ==
    [d EXCEPT !.commands = IF profile.texts = <<>> THEN @
                           ELSE [i \in 1 .. Len(profile.texts) |-> [text |-> profile.texts[i], sample |-> NoText]],
              !.columns = IF profile.columns = <<>> THEN @
                          ELSE [i \in 1 .. Len(profile.columns) |-> [command |-> profile.columns[i], rule |-> 0]]]

\* _load_state: the first rows are selected
Loaded(d, v) ==
    LET w == [v EXCEPT !.command = 1, !.box = BoxAfter(d, v)] IN
    ColumnSelected(d, w, 1)

DialogInit ==
    /\ \E p \in ProfileChoices :
         /\ p.texts # <<>> /\ p.columns # <<>>
         /\ draft = RowsOf(p, [commands |-> <<>>, columns |-> <<>>, form |-> 0])
    /\ view = Loaded(draft, [command |-> 1, column |-> 1, box |-> NoText, picked |-> 0, dirty |-> FALSE, timer |-> FALSE])
    /\ preview = PreviewOf(draft)
    /\ saved = NoProfile
    /\ trial = NoTrial
    /\ dialog = "open"
    /\ dialogEdits = 0

----------------------------------------------------------------------------
(* Edits.                                                                  *)

\* a click or a key of the user, while no question is open
MayEdit ==
    /\ dialog = "open"
    /\ dialogEdits < MaxDialogEdits /\ dialogEdits' = dialogEdits + 1
    /\ UNCHANGED <<preview, saved, trial, dialog>>

\* _on_command_changed: the text or the sample of the selected command
ChangeCommand ==
    /\ MayEdit
    /\ view.command > 0
    /\ \E t \in Texts \cup {NoText} :
         /\ t # draft.commands[view.command].text
         /\ draft' = [draft EXCEPT !.commands[view.command].text = t]
    /\ view' = Scheduled([view EXCEPT !.box = BoxAfter(draft', view)])

SelectCommand ==
    /\ MayEdit
    /\ \E row \in 1 .. Len(draft.commands) :
         /\ row # view.command
         /\ view' = Scheduled([view EXCEPT !.command = row, !.box = BoxAfter(draft, view)])
    /\ UNCHANGED draft

\* _add_command: a preset text
AddCommand ==
    /\ MayEdit
    /\ Len(draft.commands) < MaxCommands
    /\ \E t \in Texts : draft' = [draft EXCEPT !.commands = Append(@, [text |-> t, sample |-> NoText])]
    /\ view' = Scheduled([view EXCEPT !.command = Len(draft'.commands), !.box = BoxAfter(draft', view)])

\* _remove_command: refused while a column takes its value from the command; the list is never empty
RemoveCommand ==
    /\ MayEdit
    /\ view.command > 0
    /\ ~\E i \in 1 .. Len(draft.columns) : draft.columns[i].command = draft.commands[view.command].text
    /\ LET rest == RemoveAt(draft.commands, view.command) IN
       draft' \in {[draft EXCEPT !.commands = IF rest = <<>> THEN <<[text |-> t, sample |-> NoText]>> ELSE rest] : t \in Texts}
    /\ view' = Scheduled([view EXCEPT !.command = IF @ > 1 THEN @ - 1 ELSE 1, !.box = BoxAfter(draft', view)])

\* _on_column_selected
SelectColumn ==
    /\ MayEdit
    /\ \E row \in 1 .. Len(draft.columns) :
         /\ row # view.column
         /\ draft' = ColumnPersisted(draft, view)
         /\ view' = Scheduled([ColumnSelected(draft', view, row) EXCEPT !.picked = 0])

\* _on_column_changed: another command in the box, or another rule
ChangeColumn ==
    /\ MayEdit
    /\ view.column > 0
    /\ \/ \E t \in ToSet(CommandTexts(draft)) \ {view.box} :
            /\ view' = Scheduled([view EXCEPT !.box = t])
            /\ draft' = ColumnPersisted(draft, view')
       \/ /\ draft' = [ColumnPersisted(draft, view) EXCEPT !.columns[view.column].rule = 1]
          /\ draft' # draft
          /\ view' = Scheduled(view)

AddColumn ==
    /\ MayEdit
    /\ Len(draft.columns) < MaxCommands
    /\ LET c == CommandTexts(draft)
           d == ColumnPersisted(draft, view) IN
       draft' = [d EXCEPT !.columns = Append(@, [command |-> IF c = <<>> THEN NoText ELSE c[1], rule |-> 0])]
    /\ view' = Scheduled(ColumnSelected(draft', view, Len(draft'.columns)))

\* _create_column_from_selection: of the output shown, with more than one way to find the value
PickValue ==
    /\ MayEdit
    /\ Len(draft.columns) < MaxCommands /\ view.box # NoText
    /\ \E i \in 1 .. Len(draft.commands) : draft.commands[i].text = view.box /\ draft.commands[i].sample # NoText
    /\ draft' = [ColumnPersisted(draft, view) EXCEPT !.columns = Append(@, [command |-> view.box, rule |-> 2])]
    /\ view' = Scheduled([ColumnSelected(draft', view, Len(draft'.columns)) EXCEPT !.picked = Len(draft'.columns)])

\* _apply_selected_suggestion: another way to find it, for the column selected now
ApplySuggestion ==
    /\ MayEdit
    /\ view.picked > 0 /\ view.column > 0
    /\ \E r \in {2, 3} \ {draft.columns[view.column].rule} :
         draft' = [draft EXCEPT !.columns[view.column].rule = r]
    /\ view' = Scheduled([view EXCEPT !.box = BoxOfColumn(draft', view, view.column)])

\* _remove_column: a last column is replaced by a new one; what was picked stays offered
RemoveColumn ==
    /\ MayEdit
    /\ view.column > 0
    /\ LET rest == RemoveAt(draft.columns, view.column)
           c == CommandTexts(draft) IN
       draft' = [draft EXCEPT !.columns = IF rest = <<>> THEN <<[command |-> IF c = <<>> THEN NoText ELSE c[1], rule |-> 0]>>
                                          ELSE rest]
    /\ view' = Scheduled(ColumnSelected(draft', view, IF view.column > 1 THEN view.column - 1 ELSE 1))

\* the other fields: incomplete (0) or one of two contents
ChangeForm ==
    /\ MayEdit
    /\ \E f \in {0, 1, 2} \ {draft.form} : draft' = [draft EXCEPT !.form = f]
    /\ view' = Scheduled(view)

\* _copy_selected_profile, confirmed when there are edits; a profile without rules keeps the columns
CopySelectedProfile ==
    /\ MayEdit
    /\ \E p \in ProfileChoices : draft' = [RowsOf(p, draft) EXCEPT !.form = 1]
    /\ view' = Scheduled(Loaded(draft', view))

----------------------------------------------------------------------------
(* Preview and save.                                                       *)

\* refresh_preview, also while a question is open
RefreshPreview ==
    /\ view.timer /\ dialog # "closed"
    /\ draft' = ColumnPersisted(draft, view)
    /\ preview' = PreviewOf(draft')
    /\ view' = [view EXCEPT !.timer = FALSE]
    /\ UNCHANGED <<saved, trial, dialog, dialogEdits>>

Click == dialog = "open" /\ dialogEdits < MaxDialogEdits /\ dialogEdits' = dialogEdits + 1

\* Mutant of SaveDialog: the preview the button shows is taken as it is.
SaveDialogAsShown ==
    /\ Click
    /\ dialog' \in {"overwrite", "merge"}
    /\ preview.button
    /\ UNCHANGED <<draft, view, preview, saved, trial>>

\* _save_profile: the preview is made again; without issues a profile that exists is asked for
SaveDialog ==
    /\ Click
    /\ draft' = ColumnPersisted(draft, view)
    /\ preview' = PreviewOf(draft')
    /\ dialog' \in IF preview'.button THEN {"overwrite", "merge"} ELSE {"open"}
    /\ UNCHANGED <<view, saved, trial>>

\* the answer is no
KeepExisting ==
    /\ dialog = "overwrite"
    /\ dialog' = "open"
    /\ UNCHANGED <<draft, view, preview, saved, trial, dialogEdits>>

\* merge_custom_profile_rules_text of the text there is now; it may be refused
MergeProfile ==
    /\ dialog \in {"overwrite", "merge"}
    /\ dialog' = "open"
    /\ \/ saved' = preview.yaml /\ view' = [view EXCEPT !.dirty = FALSE]
       \/ UNCHANGED <<saved, view>>
    /\ UNCHANGED <<draft, preview, trial, dialogEdits>>

----------------------------------------------------------------------------
(* The trial on a device.                                                  *)

\* _start_profile_trial: the state is collected, the commands taken, and the run confirmed
AskForTrial ==
    /\ Click
    /\ ~trial.running
    /\ draft' = ColumnPersisted(draft, view)
    /\ IF draft.form > 0 /\ CommandTexts(draft) # <<>>
       THEN /\ dialog' = "trial"
            /\ \E fill \in BOOLEAN : trial' = [NoTrial EXCEPT !.todo = CommandTexts(draft), !.fill = fill]
       ELSE UNCHANGED <<dialog, trial>>
    /\ UNCHANGED <<view, preview, saved>>

AnswerTrial ==
    /\ dialog = "trial"
    /\ dialog' = "open"
    /\ trial' \in {NoTrial, [trial EXCEPT !.running = TRUE, !.work = "login"]}
    /\ UNCHANGED <<draft, view, preview, saved, dialogEdits>>

\* _start_ssh_probe: has no stop
StartProbe ==
    /\ Click
    /\ ~trial.running
    /\ trial' = [NoTrial EXCEPT !.running = TRUE, !.work = "probe"]
    /\ UNCHANGED <<draft, view, preview, saved, dialog>>

StopTrial ==
    /\ Click
    /\ trial.running /\ trial.work # "probe" /\ ~trial.cancelled
    /\ trial' = [trial EXCEPT !.cancelled = TRUE]
    /\ UNCHANGED <<draft, view, preview, saved, dialog>>

TrialStep(t) == trial' = t /\ UNCHANGED <<draft, view, preview, saved, dialog, dialogEdits>>

\* run_profile_trial on the worker: the probe, the login, then the commands; an error, or a stop
\* that is seen before the next command, ends it with no outputs
RunTrial ==
    \/ trial.work = "login" /\ TrialStep([trial EXCEPT !.work = "run"])
    \/ /\ trial.work = "run" /\ ~trial.cancelled /\ trial.todo # <<>>
       /\ TrialStep([trial EXCEPT !.todo = Tail(@), !.outputs = @ \cup {Head(trial.todo)}])
    \/ trial.work = "run" /\ trial.todo = <<>> /\ TrialStep([trial EXCEPT !.work = "result"])
    \/ trial.work \in {"login", "run"} /\ TrialStep([trial EXCEPT !.work = "failed", !.outputs = {}])
    \/ trial.work = "probe" /\ TrialStep([trial EXCEPT !.work = "failed"])

\* _show_trial_result, _apply_trial_outputs: a command still in the list gets its output as sample
ShowTrialResult ==
    /\ trial.work = "result" /\ dialog # "closed"
    /\ IF trial.fill
       THEN /\ draft' = [draft EXCEPT !.commands =
                           [i \in DOMAIN draft.commands |->
                               LET c == draft.commands[i] IN
                               IF c.text \in trial.outputs THEN [c EXCEPT !.sample = c.text] ELSE c]]
            /\ view' = Scheduled(view)
       ELSE UNCHANGED <<draft, view>>
    /\ trial' = [trial EXCEPT !.work = "finished", !.outputs = {}]
    /\ UNCHANGED <<preview, saved, dialog, dialogEdits>>

\* _finish_profile_trial, after the result or the error
FinishTrial ==
    /\ trial.work \in {"finished", "failed"}
    /\ TrialStep(NoTrial)

----------------------------------------------------------------------------
(* Closing.                                                                *)

\* _request_close, closeEvent: a trial is stopped and the dialog stays; edits are confirmed
RequestClose ==
    /\ Click
    /\ IF trial.running
       THEN trial' = [trial EXCEPT !.cancelled = trial.work # "probe"] /\ dialog' = "wait"
       ELSE UNCHANGED trial /\ dialog' \in IF view.dirty THEN {"open", "closed"} ELSE {"closed"}
    /\ UNCHANGED <<draft, view, preview, saved>>

Acknowledge ==
    /\ dialog = "wait"
    /\ dialog' = "open"
    /\ UNCHANGED <<draft, view, preview, saved, trial, dialogEdits>>

DialogNext ==
    \/ ChangeCommand \/ SelectCommand \/ AddCommand \/ RemoveCommand
    \/ SelectColumn \/ ChangeColumn \/ AddColumn \/ PickValue \/ ApplySuggestion \/ RemoveColumn
    \/ ChangeForm \/ CopySelectedProfile
    \/ RefreshPreview \/ SaveDialog \/ KeepExisting \/ MergeProfile
    \/ AskForTrial \/ AnswerTrial \/ StartProbe \/ StopTrial \/ RunTrial \/ ShowTrialResult \/ FinishTrial
    \/ RequestClose \/ Acknowledge

----------------------------------------------------------------------------

\* A dialog that would close without a question holds exactly the profile of the file, and
\* no file is ever written whose columns name a command it does not run: whatever the
\* preview timer, a trial's result or the box of a column bring in after the last edit.
SavedProfileIsTheShownOne ==
    /\ ~view.dirty /\ saved # NoProfile => saved = YamlOf(ColumnPersisted(draft, view))
    /\ \A i \in DOMAIN saved.columns : saved.columns[i].command \in ToSet(saved.texts)
=============================================================================

---------------------------- MODULE DeviceTable ----------------------------
(***************************************************************************)
(* The table editor of the configuration builder (switch_configurator/     *)
(* desktop_impl.py): rows of device values, the CLI rendered from them, the*)
(* undo stack, the two timers that follow an edit, the live save of the    *)
(* open file and the ways the CLI leaves the editor.                       *)
(*                                                                         *)
(* A row is a device's name (its identity and address), whether its other  *)
(* cells are valid, and the profile it uses; the columns kept are those of *)
(* whole profiles.  Selection, filter, sorting and colours are left out.   *)
(***************************************************************************)
EXTENDS Naturals, Sequences, FiniteSets, SequencesExt

CONSTANTS
    TableFiles,       \* files the user opens and saves to
    ConfigProfiles,   \* configuration profiles
    DeviceNames,      \* what identifies a device
    MaxRows,          \* bound: rows of the table
    UndoDepth,        \* snapshots kept (60 in the code)
    MaxEdits          \* bound: things the user does in a behaviour

NoTableFile == "no file"
Blank == "blank"
NoCli == [name |-> Blank, profile |-> Blank, short |-> FALSE]
Unreadable == <<[name |-> Blank, ok |-> FALSE, profile |-> Blank]>>    \* no file, or none that can be read

ASSUME DeviceTableAssumption ==
    MaxEdits \in Nat /\ UndoDepth \in Nat \ {0} /\ NoTableFile \notin TableFiles /\ Blank \notin DeviceNames

VARIABLES
    table,      \* [rows, columns]
    rendered,   \* the CLI of each row at the last rendering
    timers,     \* the timers running: "render" (220 ms), "save" (900 ms)
    doc,        \* the open document: its file and what the editor believes of it
    undoRedo,   \* [undo, redo], each a sequence of snapshots
    profiles,   \* the profiles that exist, and those with a block switched off
    options,    \* the two check boxes of the live save
    tableDisk,  \* [files, backups]
    sent,       \* what the last copy, save or hand-over of CLI gave out
    edits       \* things the user did so far; closed when the window is gone

tableVars == <<table, rendered, timers, doc, undoRedo, profiles, options, tableDisk, sent, edits>>

TableRows == [name : DeviceNames, ok : BOOLEAN, profile : ConfigProfiles]
StoredTables == {Unreadable} \cup {<<r>> : r \in {x \in TableRows : x.ok}}

----------------------------------------------------------------------------
(* Rendering.                                                              *)

Duplicated(rs, i) == \E j \in DOMAIN rs \ {i} : rs[j].name = rs[i].name

\* the CLI of row i, if nothing is wrong with it
CliOf(rs, i, ps) ==
    IF rs[i].name # Blank /\ rs[i].ok /\ rs[i].profile \in ps.known /\ ~Duplicated(rs, i)
    THEN [name |-> rs[i].name, profile |-> rs[i].profile, short |-> rs[i].profile \in ps.blockOff]
    ELSE NoCli

Render(rs, ps) == [i \in DOMAIN rs |-> CliOf(rs, i, ps)]

\* rows that hold a save back: a row without values is no error, nor is any row without profiles
SaveBlocked(rs, ps) ==
    ps.known # {} /\ \E i \in DOMAIN rs : rs[i].name # Blank /\ CliOf(rs, i, ps) = NoCli

Referenced(rs) == {rs[i].profile : i \in DOMAIN rs} \cap profiles.known
Extended(t) == t.columns \cup Referenced(t.rows)
Obsolete(t) == IF Referenced(t.rows) = {} THEN {}
               ELSE (t.columns \cap profiles.known) \ Referenced(t.rows)

RefreshRenderState(rs, ps) == rendered' = Render(rs, ps)

----------------------------------------------------------------------------
(* One thing the user does.                                                *)

TableInit ==
    /\ table = [rows |-> <<>>, columns |-> {}]
    /\ rendered = <<>>
    /\ timers = {}
    /\ doc = [file |-> NoTableFile, dirty |-> FALSE, quiet |-> FALSE, extended |-> FALSE,
              dismissed |-> {}, number |-> 0]
    /\ undoRedo = [undo |-> <<>>, redo |-> <<>>]
    /\ profiles = [known |-> ConfigProfiles, blockOff |-> {}]
    /\ options \in [live : BOOLEAN, evenErrors : BOOLEAN]
    /\ tableDisk \in [files : [TableFiles -> StoredTables], backups : {{}}]
    /\ sent = {}
    /\ edits = [done |-> 0, closed |-> FALSE]

User == ~edits.closed /\ edits.done < MaxEdits /\ edits' = [edits EXCEPT !.done = @ + 1]

LiveSaveOf(d) == options.live /\ d.file # NoTableFile

Snapshot == [table |-> table, of |-> doc.number]

\* _capture_history_snapshot
Captured ==
    IF undoRedo.undo # <<>> /\ Last(undoRedo.undo) = Snapshot THEN undoRedo
    ELSE LET longer == Append(undoRedo.undo, Snapshot)
         IN  [undo |-> IF Len(longer) > UndoDepth THEN Tail(longer) ELSE longer, redo |-> <<>>]

\* on_table_changed, for the table t: the columns grow, or are offered for removal, or the timers start
OnTableChanged(t) ==
    LET changed == [doc EXCEPT !.dirty = TRUE]
        started(d) == IF LiveSaveOf(d) THEN {"save"} ELSE {}
        obsolete == Obsolete(t)
    IN  \/ /\ Extended(t) # t.columns
           /\ table' = [t EXCEPT !.columns = Extended(t)]
           /\ doc' = [changed EXCEPT !.extended = TRUE]
           /\ UNCHANGED <<rendered, timers>>
        \/ /\ Extended(t) = t.columns /\ obsolete # {} /\ obsolete # doc.dismissed
           /\ table' = [t EXCEPT !.columns = @ \ obsolete]
           /\ doc' = [changed EXCEPT !.dismissed = {}, !.extended = FALSE]
           /\ RefreshRenderState(t.rows, profiles)
           /\ timers' = timers \cup started(doc)
        \/ /\ Extended(t) = t.columns
           /\ table' = t
           /\ doc' = [changed EXCEPT !.dismissed = obsolete]
           /\ timers' = timers \cup {"render"} \cup started(doc)
           /\ UNCHANGED rendered

\* an edit through the table model
Edit(t) ==
    /\ User
    /\ undoRedo' = Captured
    /\ OnTableChanged(t)
    /\ sent' = {}
    /\ UNCHANGED <<profiles, options, tableDisk>>

SetCell == \E i \in DOMAIN table.rows, n \in DeviceNames \cup {Blank}, b \in BOOLEAN :
    (n = Blank => ~b) /\ Edit([table EXCEPT !.rows[i].name = n, !.rows[i].ok = b])

\* another profile asks for other values: the row may lack them, or lack none any more
SetProfile == \E i \in DOMAIN table.rows, p \in ConfigProfiles, b \in BOOLEAN :
    (table.rows[i].name = Blank => ~b) /\ Edit([table EXCEPT !.rows[i].profile = p, !.rows[i].ok = b])

\* the new row's columns are there before the row is
AddRow == \E p \in profiles.known :
    /\ Len(table.rows) < MaxRows
    /\ User
    /\ LET wide == [table EXCEPT !.columns = @ \cup {p}]
           snap == [table |-> wide, of |-> doc.number]
       IN  /\ undoRedo' = IF undoRedo.undo # <<>> /\ Last(undoRedo.undo) = snap THEN undoRedo
                          ELSE [undo |-> LET longer == Append(undoRedo.undo, snap)
                                         IN  IF Len(longer) > UndoDepth THEN Tail(longer) ELSE longer,
                                redo |-> <<>>]
           /\ OnTableChanged([wide EXCEPT !.rows = Append(@, [name |-> Blank, ok |-> FALSE, profile |-> p])])
    /\ sent' = {}
    /\ UNCHANGED <<profiles, options, tableDisk>>

DuplicateRow == \E i \in DOMAIN table.rows :
    /\ Len(table.rows) < MaxRows
    /\ Edit([table EXCEPT !.rows = InsertAt(@, i + 1, table.rows[i])])

DeleteRow == \E i \in DOMAIN table.rows :
    Edit([table EXCEPT !.rows = RemoveAt(@, i)])

\* move_row: the target counts the rows as they were
MoveRow == \E i, j \in DOMAIN table.rows :
    /\ i # j
    /\ Edit([table EXCEPT !.rows = InsertAt(RemoveAt(@, i), IF j > i THEN j - 1 ELSE j, table.rows[i])])

\* duplicate_selected_rows_with_increment, _replace_table_rows: no table change is signalled
IncrementCopy == \E i \in DOMAIN table.rows, n \in DeviceNames :
    /\ Len(table.rows) < MaxRows
    /\ User
    /\ table.rows[i].profile \in profiles.known
    /\ undoRedo' = Captured
    /\ table' = [table EXCEPT !.rows = InsertAt(@, i + 1, [table.rows[i] EXCEPT !.name = n])]
    /\ RefreshRenderState(table'.rows, profiles)
    /\ doc' = [doc EXCEPT !.quiet = TRUE, !.extended = FALSE]
    /\ sent' = {}
    /\ UNCHANGED <<timers, profiles, options, tableDisk>>

\* _restore_history_snapshot: no table change is signalled
Restore(s) ==
    /\ table' = s.table
    /\ RefreshRenderState(s.table.rows, profiles)
    /\ doc' = [doc EXCEPT !.quiet = TRUE, !.extended = FALSE]
    /\ sent' = {}
    /\ UNCHANGED <<timers, profiles, options, tableDisk>>

UndoLastChange ==
    /\ User
    /\ undoRedo.undo # <<>>
    /\ undoRedo' = [undo |-> Front(undoRedo.undo), redo |-> Append(undoRedo.redo, Snapshot)]
    /\ Restore(Last(undoRedo.undo))

RedoLastChange ==
    /\ User
    /\ undoRedo.redo # <<>>
    /\ undoRedo' = [undo |-> Append(undoRedo.undo, Snapshot), redo |-> Front(undoRedo.redo)]
    /\ Restore(Last(undoRedo.redo))

----------------------------------------------------------------------------
(* The document: opening, saving, closing.                                 *)

\* the table, the history and the marks of a document give way to another's
Replaced(rs, f, dirty) ==
    /\ table' = [rows |-> rs, columns |-> Extended([rows |-> rs, columns |-> {}])]
    /\ doc' = [file |-> f, dirty |-> dirty, quiet |-> FALSE, extended |-> FALSE,
               dismissed |-> doc.dismissed, number |-> doc.number + 1]
    /\ undoRedo' = [undo |-> <<>>, redo |-> <<>>]
    /\ RefreshRenderState(rs, profiles)
    /\ sent' = {}
    /\ UNCHANGED <<timers, profiles, options, tableDisk>>

\* the user is asked only of a dirty table, and may say yes: a no changes nothing
LoadDeviceFile == \E f \in TableFiles :
    /\ User
    /\ tableDisk.files[f] # Unreadable
    /\ Replaced(tableDisk.files[f], f, FALSE)

StartSample == \E p \in profiles.known, n \in DeviceNames :
    /\ User
    /\ Replaced(<<[name |-> n, ok |-> TRUE, profile |-> p]>>, NoTableFile, TRUE)

\* Mutant of Write: a write that failed is taken for a save.
WriteBlindly(f) ==
    /\ \/ tableDisk' = [tableDisk EXCEPT !.files[f] = table.rows]
       \/ tableDisk' = [tableDisk EXCEPT !.files[f] = Unreadable]
    /\ doc' = [doc EXCEPT !.file = f, !.dirty = FALSE, !.quiet = FALSE, !.extended = FALSE]

\* _save_to_path, past the blockers: the file is written in place
Write(f) ==
    \/ /\ tableDisk' = [tableDisk EXCEPT !.files[f] = table.rows]
       /\ doc' = [doc EXCEPT !.file = f, !.dirty = FALSE, !.quiet = FALSE, !.extended = FALSE]
    \/ /\ \E after \in {Unreadable, tableDisk.files[f]} : tableDisk' = [tableDisk EXCEPT !.files[f] = after]
       /\ doc' = [doc EXCEPT !.extended = FALSE]

\* a manual save asks about errors and copies the file it replaces
SaveCurrentFileAs == \E f \in TableFiles :
    /\ User
    /\ RefreshRenderState(table.rows, profiles)
    /\ LET kept == tableDisk.backups \cup ({tableDisk.files[f]} \ {Unreadable})
       IN  \/ /\ tableDisk' = [files |-> [tableDisk.files EXCEPT ![f] = table.rows], backups |-> kept]
              /\ doc' = [doc EXCEPT !.file = f, !.dirty = FALSE, !.quiet = FALSE, !.extended = FALSE]
           \/ /\ \E after \in {Unreadable, tableDisk.files[f]} :
                    tableDisk' = [files |-> [tableDisk.files EXCEPT ![f] = after], backups |-> kept]
              /\ doc' = [doc EXCEPT !.extended = FALSE]
    /\ sent' = {}
    /\ UNCHANGED <<table, timers, undoRedo, profiles, options>>

SaveHeld == SaveBlocked(table.rows, profiles) /\ ~options.evenErrors

\* the live save: only of a dirty table; an error row holds it back
AutoSave ==
    /\ RefreshRenderState(table.rows, profiles)
    /\ IF SaveHeld THEN doc' = [doc EXCEPT !.extended = FALSE] /\ UNCHANGED tableDisk ELSE Write(doc.file)

AutoSaveTimer ==
    /\ "save" \in timers /\ ~edits.closed
    /\ timers' = timers \ {"save"}
    /\ IF LiveSaveOf(doc) /\ doc.dirty THEN AutoSave ELSE UNCHANGED <<rendered, doc, tableDisk>>
    /\ UNCHANGED <<table, undoRedo, profiles, options, sent, edits>>

RenderTimer ==
    /\ "render" \in timers /\ ~edits.closed
    /\ timers' = timers \ {"render"}
    /\ RefreshRenderState(table.rows, profiles)
    /\ doc' = [doc EXCEPT !.extended = FALSE]
    /\ UNCHANGED <<table, undoRedo, profiles, options, tableDisk, sent, edits>>

SwitchLiveSave ==
    /\ User
    /\ options' \in {[options EXCEPT !.live = ~@], [options EXCEPT !.evenErrors = ~@]}
    /\ timers' = IF ~options.live /\ options'.live /\ doc.file # NoTableFile /\ doc.dirty
                 THEN timers \cup {"save"} ELSE timers
    /\ UNCHANGED <<table, rendered, doc, undoRedo, profiles, tableDisk, sent>>

\* a last live save; when nothing was saved and the table is dirty, the user lets it go
PrepareClose ==
    /\ ~edits.closed /\ edits.done < MaxEdits
    /\ IF LiveSaveOf(doc) /\ doc.dirty THEN AutoSave ELSE UNCHANGED <<rendered, doc, tableDisk>>
    /\ edits' = [edits EXCEPT !.done = @ + 1, !.closed = TRUE]
    /\ timers' = {} /\ sent' = {}
    /\ UNCHANGED <<table, undoRedo, profiles, options>>

----------------------------------------------------------------------------
(* Profiles and blocks change under the rows.                              *)

ReloadProfiles(known) ==
    /\ profiles' = [profiles EXCEPT !.known = known]
    /\ table' = [table EXCEPT !.columns = @ \cup ({table.rows[i].profile : i \in DOMAIN table.rows} \cap known)]
    /\ RefreshRenderState(table.rows, profiles')
    /\ doc' = [doc EXCEPT !.extended = FALSE]
    /\ sent' = {}
    /\ UNCHANGED <<timers, undoRedo, options, tableDisk>>

DeleteProfile == User /\ \E p \in profiles.known : ReloadProfiles(profiles.known \ {p})
SaveProfile == User /\ \E p \in ConfigProfiles : ReloadProfiles(profiles.known \cup {p})

ToggleBlock == \E p \in profiles.known :
    /\ User
    /\ profiles' = [profiles EXCEPT !.blockOff = IF p \in @ THEN @ \ {p} ELSE @ \cup {p}]
    /\ timers' = timers \cup {"render"}
    /\ UNCHANGED <<table, rendered, doc, undoRedo, options, tableDisk, sent>>

----------------------------------------------------------------------------
(* The CLI leaves the editor, taken from the last rendering by row number. *)

NameOf(i) == IF i \in DOMAIN table.rows THEN table.rows[i].name ELSE Blank

\* what is given out for row i, beside what the row as it stands would give
Given(i, to) == [to |-> to, name |-> NameOf(i),
                 cli |-> rendered[i],
                 due |-> IF i \in DOMAIN table.rows THEN CliOf(table.rows, i, profiles) ELSE NoCli]

CopyRowCli == \E i \in DOMAIN table.rows \cap DOMAIN rendered :
    /\ User
    /\ rendered[i] # NoCli
    /\ sent' = {Given(i, "clipboard")}
    /\ UNCHANGED <<table, rendered, timers, doc, undoRedo, profiles, options, tableDisk>>

\* rows without an address are left out; two rows with one address stop the hand-over
SendToInspector ==
    /\ User
    /\ LET chosen == {i \in DOMAIN rendered : rendered[i] # NoCli /\ NameOf(i) # Blank}
       IN  /\ chosen # {}
           /\ \A i, j \in chosen : NameOf(i) = NameOf(j) => i = j
           /\ sent' = {Given(i, "inspector") : i \in chosen}
    /\ UNCHANGED <<table, rendered, timers, doc, undoRedo, profiles, options, tableDisk>>

TableEdits == SetCell \/ SetProfile \/ AddRow \/ DuplicateRow \/ DeleteRow \/ MoveRow \/ IncrementCopy
TableHistory == UndoLastChange \/ RedoLastChange
TableDocument == LoadDeviceFile \/ StartSample \/ SaveCurrentFileAs \/ SwitchLiveSave \/ PrepareClose
TableTimers == AutoSaveTimer \/ RenderTimer
TableProfiles == DeleteProfile \/ SaveProfile \/ ToggleBlock
TableOutput == CopyRowCli \/ SendToInspector

TableNext == TableEdits \/ TableHistory \/ TableDocument \/ TableTimers \/ TableProfiles \/ TableOutput

----------------------------------------------------------------------------

\* A table the editor believes saved is what its file holds, or a backup does when a
\* save by hand tore the file; unless a change came by undo, redo or the increment
\* copy.  Another document or the end of the window then takes nothing unsaved away
\* without a question (_confirm_discard_changes, prepare_close, _create_backup).
CleanMeansSaved ==
    doc.file # NoTableFile /\ ~doc.dirty /\ ~doc.quiet =>
        \/ tableDisk.files[doc.file] = table.rows
        \/ tableDisk.files[doc.file] = Unreadable /\ table.rows \in tableDisk.backups

\* The CLI shown is that of the rows as they are, but for the 220 ms after an edit
\* and after an edit that made the table wider: each of the other ways to change
\* rows, profiles or blocks renders anew.
ShownCliIsCurrent ==
    "render" \notin timers /\ ~doc.extended /\ ~edits.closed => rendered = Render(table.rows, profiles)

\* Undo and redo stay in the document: no snapshot of another file is ever put
\* into the table of this one.
HistoryIsOfThisDocument ==
    \A s \in Range(undoRedo.undo) \cup Range(undoRedo.redo) : s.of = doc.number

\* Nothing typed is lost with another document, nothing of another document comes back
\* into this one, and what is shown is what the rows give.
TableIsRight == CleanMeansSaved /\ HistoryIsOfThisDocument /\ ShownCliIsCurrent

\* What the guide says of the live save: edits reach the open file.  With it on,
\* no row in error, no timer running and no write failed, the file holds the rows.
LiveSaveReflectsEdits ==
    options.live /\ doc.file # NoTableFile /\ timers = {} /\ ~SaveBlocked(table.rows, profiles)
        /\ tableDisk.files[doc.file] # Unreadable
        => tableDisk.files[doc.file] = table.rows

\* What the guide says of the hand-over to the inspector: a row that cannot give a CLI
\* because it is in error is not sent.  No rendering is due any more.
RowsInErrorAreNotSent == timers = {} => \A g \in sent : g.to = "inspector" => g.due # NoCli
=============================================================================

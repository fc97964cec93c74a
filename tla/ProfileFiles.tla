---------------------------- MODULE ProfileFiles ----------------------------
(***************************************************************************)
(* The profile files of the configuration builder: the dialog that writes  *)
(* them (switch_configurator/profile_builder_dialog.py), the save with one *)
(* backup and a roll back (authoring.py) and the reading of the folder     *)
(* (io_utils.py).  Somebody may put files into the folder meanwhile, the   *)
(* dialog waits on its questions, and the program may die at any step.     *)
(*                                                                         *)
(* A file is its name without case and extension.  Its text is a profile   *)
(* id (without case) and a version, or a text that does not parse.         *)
(***************************************************************************)
EXTENDS Naturals, FiniteSets

CONSTANTS
    ProfileIds,
    FileNames,
    FileNameOf,    \* the name a new profile's file gets: two ids may come to the same
    MaxProfileOps  \* bound: saves, deletions and files put there from outside

ASSUME ProfileFilesAssumption == MaxProfileOps \in Nat /\ FileNameOf \in [ProfileIds -> FileNames]

VARIABLES
    folder,    \* [file, bak: name -> text]; temporary files are never read
    saving,    \* the dialog and the save it runs
    foreign,   \* files that last came from outside
    profileOps

profileVars == <<folder, saving, foreign, profileOps>>

NoProfileText == [id |-> "none", version |-> 0]
Unparsable == [id |-> "broken", version |-> 0]
Has(name) == folder.file[name] # NoProfileText

Idle == [st |-> "idle", id |-> "none", name |-> "none", new |-> FALSE, existed |-> FALSE, allow |-> FALSE,
         text |-> NoProfileText, before |-> NoProfileText]

ProfileInit ==
    /\ folder = [file |-> [n \in FileNames |-> NoProfileText], bak |-> [n \in FileNames |-> NoProfileText]]
    /\ saving = Idle
    /\ foreign = {}
    /\ profileOps = 0

Act == profileOps < MaxProfileOps /\ profileOps' = profileOps + 1

\* what a load of the folder takes in: one file for each id, the first by name
LoadedProfiles == {n \in FileNames : Has(n) /\ folder.file[n] # Unparsable}

\* inspect_profile_save_target: no other file may hold the id; a new profile may only
\* take a file of its own id, and one that cannot be read is not touched
MayTake(s) ==
    /\ \A n \in LoadedProfiles \ {s.name} : folder.file[n].id # s.id
    /\ s.new => (Has(s.name) => folder.file[s.name].id = s.id)

----------------------------------------------------------------------------
(* The dialog.                                                             *)

\* a new profile, or one whose file is edited and whose id may change
OpenProfileDialog ==
    /\ saving.st = "idle" /\ Act
    /\ \E id \in ProfileIds :
         \/ saving' = [Idle EXCEPT !.st = "dialog", !.id = id, !.name = FileNameOf[id], !.new = TRUE,
                                   !.text = [id |-> id, version |-> profileOps']]
         \/ \E n \in LoadedProfiles :
              saving' = [Idle EXCEPT !.st = "dialog", !.id = id, !.name = n,
                                     !.text = [id |-> id, version |-> profileOps']]
    /\ UNCHANGED <<folder, foreign>>

\* save_profile: the target is looked at, and overwriting it is asked for
AskToSave ==
    /\ saving.st = "dialog"
    /\ saving' = IF MayTake(saving) THEN [saving EXCEPT !.st = "asked", !.allow = Has(saving.name)] ELSE Idle
    /\ UNCHANGED <<folder, foreign, profileOps>>

\* the answer is no
GiveUpSaving ==
    /\ saving.st = "asked" /\ saving.allow
    /\ saving' = Idle
    /\ UNCHANGED <<folder, foreign, profileOps>>

\* save_profile_yaml_to_directory: the target is looked at again, and a file that has
\* come since needs a new question; then the text goes into a temporary file
BeginSave ==
    /\ saving.st = "asked"
    /\ IF MayTake(saving) /\ (Has(saving.name) => saving.allow)
       THEN saving' \in {Idle, [saving EXCEPT !.st = IF Has(saving.name) THEN "backup" ELSE "replace",
                                              !.existed = Has(saving.name),
                                              !.before = folder.file[saving.name]]}
       ELSE saving' = Idle
    /\ UNCHANGED <<folder, foreign, profileOps>>

\* the copy of the old file takes the place of the last backup; a copy that fails ends the save
KeepBackup ==
    /\ saving.st = "backup"
    /\ \/ /\ folder' = [folder EXCEPT !.bak[saving.name] = folder.file[saving.name]]
          /\ saving' = [saving EXCEPT !.st = "replace"]
       \/ saving' = Idle /\ UNCHANGED folder
    /\ UNCHANGED <<foreign, profileOps>>

ReplaceTarget ==
    /\ saving.st = "replace"
    /\ \/ /\ folder' = [folder EXCEPT !.file[saving.name] = saving.text]
          /\ saving' = [saving EXCEPT !.st = "verify"]
       \/ saving' = Idle /\ UNCHANGED folder
    /\ UNCHANGED <<foreign, profileOps>>

\* Mutant of RolledBack: the file written is kept.
RolledBackNot == folder

\* the backup goes back into place, or the new file away
RolledBack ==
    IF saving.existed
    THEN [file |-> [folder.file EXCEPT ![saving.name] = folder.bak[saving.name]],
          bak |-> [folder.bak EXCEPT ![saving.name] = NoProfileText]]
    ELSE [folder EXCEPT !.file[saving.name] = NoProfileText]

\* the file is read again and validated: anything wrong and the save is undone, unless
\* the replace or unlink that would undo it raises too (the file is in use): then what
\* was written stays.  Both show an error.
VerifySaved ==
    /\ saving.st = "verify"
    /\ \/ saving' = Idle /\ foreign' = foreign \ {saving.name} /\ UNCHANGED folder
       \/ saving' = [saving EXCEPT !.st = "refused"] /\ folder' = RolledBack /\ UNCHANGED foreign
       \/ saving' = [saving EXCEPT !.st = "stuck"] /\ UNCHANGED <<folder, foreign>>
    /\ UNCHANGED profileOps

ShowSaveError ==
    /\ saving.st \in {"refused", "stuck"}
    /\ saving' = Idle
    /\ UNCHANGED <<folder, foreign, profileOps>>

\* delete_current_profile_dialog; the backup stays
DeleteProfileFile ==
    /\ saving.st = "idle" /\ Act
    /\ \E n \in LoadedProfiles : folder' = [folder EXCEPT !.file[n] = NoProfileText]
    /\ UNCHANGED <<saving, foreign>>

----------------------------------------------------------------------------
(* The surroundings.                                                       *)

\* somebody puts a file into the folder, while the dialog waits or none is open
PutFile ==
    /\ saving.st \in {"idle", "dialog", "asked"} /\ Act
    /\ \E n \in FileNames, id \in ProfileIds :
         /\ folder' \in {[folder EXCEPT !.file[n] = Unparsable],
                         [folder EXCEPT !.file[n] = [id |-> id, version |-> profileOps']]}
         /\ foreign' = foreign \cup {n}
    /\ UNCHANGED saving

\* the program dies; what it wrote stays
DieWhileSaving ==
    /\ saving.st \notin {"idle", "dead"}
    /\ saving' = [saving EXCEPT !.st = "dead"]
    /\ UNCHANGED <<folder, foreign, profileOps>>

StartAgain ==
    /\ saving.st = "dead"
    /\ saving' = Idle
    /\ UNCHANGED <<folder, foreign, profileOps>>

ProfileNext ==
    \/ OpenProfileDialog \/ AskToSave \/ GiveUpSaving \/ BeginSave \/ KeepBackup \/ ReplaceTarget
    \/ VerifySaved \/ ShowSaveError \/ DeleteProfileFile \/ PutFile \/ DieWhileSaving \/ StartAgain

ProfileSpec == ProfileInit /\ [][ProfileNext]_profileVars

----------------------------------------------------------------------------

\* Wherever a save stops, with an error or with the program's death, the profile's
\* file is the old text or the new one, and the old one is in the file or in the
\* backup.  A save that reported an error has left the old one, or no file where there
\* was none; only when undoing it failed as well does the text that was not verified
\* stay under the error, and then the old one is in the backup.
SaveIsAllOrNothing ==
    /\ saving.before # NoProfileText =>
         /\ folder.file[saving.name] \in {saving.before, saving.text}
         /\ saving.before \in {folder.file[saving.name], folder.bak[saving.name]}
    /\ saving.st = "refused" => folder.file[saving.name] = saving.before
    /\ saving.st = "stuck" /\ saving.existed => folder.bak[saving.name] = saving.before

\* The program never makes two files of one profile id, whatever is edited, renamed
\* or deleted in the dialogs and however long their questions stay open.
OneFileForEachId ==
    \A m, n \in LoadedProfiles \ foreign : folder.file[m].id = folder.file[n].id => m = n

\* A profile is never lost or doubled by a save, wherever the save stops.
ProfileFilesAreSafe == SaveIsAllOrNothing /\ OneFileForEachId
=============================================================================

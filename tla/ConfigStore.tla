----------------------------- MODULE ConfigStore -----------------------------
(***************************************************************************)
(* The settings of the program on disk (src/app/app_state.py and           *)
(* src/app/utils/file_utils.py): reading them at a start, saving them,     *)
(* moving their folder, resetting them, and closing the window, with       *)
(* failures and crashes at any point.                                      *)
(*                                                                         *)
(* Two files stand for all: app_config.json, which every closing window    *)
(* writes, and ip_profiles.json, which also takes over what an older       *)
(* version left in vendor_presets.json.  What a file holds is the set of   *)
(* the user's own entries in it; a default file holds none.                *)
(***************************************************************************)
EXTENDS Naturals, FiniteSets, Sequences

CONSTANTS
    Folders,    \* the folders settings are ever kept in
    Home,       \* the default one, <data folder>/config
    Options,    \* what a user can set in app_config.json
    Profiles,   \* the profiles a user can have
    MaxDamage   \* bound: files damaged from outside or cut short by a copy

ASSUME StoreAssumption == Home \in Folders /\ MaxDamage \in Nat

Stored == {"app_config", "ip_profiles"}
Files == Stored \cup {"vendor_presets"}
Entries == Options \cup Profiles

VARIABLES
    disk,      \* the files of each folder
    pointer,   \* the config_dir of path_settings.json
    pc,        \* what the program is doing; "off" when it is not running
    booting,   \* it has not shown its window yet
    active,    \* AppPaths.config_dir
    mem,       \* AppState.app_config and ip_profiles
    target,    \* save_path_settings: where the folder moves to
    item,      \* and the file it copies next
    pending,   \* settings_reset_pending_restart
    backups,   \* the entries in the copies load_json made of damaged files
    damages,   \* files damaged so far
    owned,     \* history: the entries the user saved and did not delete, without
               \* those a save went over while memory did not have them
    unread,    \* history: entries of a file in use that could not be read
    skipped,   \* history: entries a move found in the new folder
    reset      \* history: settings were reset without an error, with no old
               \* presets left to take over, and nothing done to them since

volatile == <<active, mem, target, item, pending>>
history == <<owned, unread, skipped, reset>>
storeVars == <<disk, pointer, pc, booting, volatile, backups, damages, history>>

Absent == [state |-> "absent", has |-> {}]
Broken(entries) == [state |-> "broken", has |-> entries]
Torn == Broken({})
Whole(entries) == [state |-> "whole", has |-> entries]

There(d, f) == disk[d][f].state # "absent"
Empty == [f \in Stored |-> {}]

StoreInit ==
    /\ disk \in [Folders -> [Files -> {Absent, Whole(Profiles)}]]
    /\ \A d \in Folders, f \in Files : There(d, f) => d = Home /\ f = "vendor_presets"
    /\ pointer = Home
    /\ pc = "off" /\ booting = FALSE
    /\ active = Home /\ mem = Empty
    /\ target = Home /\ item = 1
    /\ pending = FALSE
    /\ backups = {}
    /\ damages = 0
    /\ owned = [f \in Stored |-> IF f = "ip_profiles" THEN disk[Home]["vendor_presets"].has
                                                     ELSE {}]
    /\ unread = Empty /\ skipped = Empty
    /\ reset = FALSE

----------------------------------------------------------------------------
(* load_json and save_json.                                                *)

\* What reading a file may come to: its entries; the default when it is not
\* there, is damaged (a copy is made first, if that works) or cannot be read.
Reads(d, f) ==
    LET file == disk[d][f]
        default(ok, copied) == [ok |-> ok, has |-> {}, copied |-> copied]
    IN  CASE file.state = "absent" -> {default(TRUE, {})}
          [] file.state = "whole"  -> {[ok |-> TRUE, has |-> file.has, copied |-> {}],
                                       default(FALSE, {})}
          [] OTHER -> {default(TRUE, file.has), default(FALSE, {})}

Replace(d, f, entries) == disk' = [disk EXCEPT ![d][f] = Whole(entries)]

\* save_json, when it succeeds: a temporary file takes the place of the old one
SaveJson(f, entries) == Replace(active, f, entries)

\* and when it fails: the old file stays
SaveFails == UNCHANGED disk

\* what a save of the file goes over though memory does not have it
Unseen(f) == unread[f] \cup skipped[f]

\* an exception: the program does not start, or the window tells it
Raise == pc' = IF booting THEN "failed" ELSE "run"

\* the window is open: the end of a start or of a reload
Opens == booting' = (booting /\ pc' # "run")

\* the process is gone, with all it had in memory
Gone ==
    /\ pc' = "off" /\ booting' = FALSE
    /\ active' = Home /\ mem' = Empty /\ target' = Home /\ item' = 1 /\ pending' = FALSE
    /\ unread' = Empty /\ skipped' = Empty

----------------------------------------------------------------------------
(* A start.                                                                *)

\* build_app_paths: a folder that cannot be used (a drive that is not there)
\* is replaced by the default one for this session
Start ==
    /\ pc = "off"
    /\ pc' = "ensure" /\ booting' = TRUE
    /\ active' \in {pointer, Home}
    /\ UNCHANGED <<disk, pointer, mem, target, item, pending, backups, damages, history>>

\* the files ensure_runtime_files has made when it ends, or fails
Ensured(d, made) ==
    disk' = [disk EXCEPT ![d] = [f \in Files |-> IF f \in made THEN Whole({}) ELSE @[f]]]
Missing(d) == {f \in Stored : ~There(d, f)}

EnsureRuntimeFiles ==
    /\ pc = "ensure"
    /\ \E made \in SUBSET Missing(active) :
        /\ Ensured(active, made)
        /\ \/ made = Missing(active) /\ pc' = "load_app"
           \/ made # Missing(active) /\ Raise
    /\ UNCHANGED <<pointer, booting, volatile, backups, damages, history>>

\* reload_config_files, first half: anything but a whole file is replaced by
\* the default at once
LoadAppConfig ==
    /\ pc = "load_app"
    /\ \E r \in Reads(active, "app_config") :
        LET whole == r.ok /\ disk[active]["app_config"].state = "whole"
            lost == IF r.ok THEN {} ELSE disk[active]["app_config"].has
        IN  /\ mem' = [mem EXCEPT !["app_config"] = r.has]
            /\ backups' = backups \cup r.copied
            /\ skipped' = [skipped EXCEPT !["app_config"] = {}]
            /\ \/ /\ whole
                  /\ pc' = "load_profiles"
                  /\ unread' = [unread EXCEPT !["app_config"] = {}]
                  /\ UNCHANGED <<disk, owned>>
               \/ /\ ~whole
                  /\ pc' = "load_profiles"
                  /\ Replace(active, "app_config", {})
                  /\ unread' = [unread EXCEPT !["app_config"] = {}]
                  /\ owned' = [owned EXCEPT !["app_config"] = @ \ lost]
               \/ /\ ~whole
                  /\ Raise
                  /\ unread' = [unread EXCEPT !["app_config"] = lost]
                  /\ SaveFails
                  /\ UNCHANGED owned
    /\ reset' = (reset /\ pc' # "run")
    /\ UNCHANGED <<pointer, booting, active, target, item, pending, damages>>

\* Mutant of LoadProfiles: the old file is removed before its presets are saved.
LoadProfilesUnlinksFirst ==
    /\ pc = "load_profiles"
    /\ \E r \in Reads(active, "ip_profiles"), q \in Reads(active, "vendor_presets") :
        /\ mem' = [mem EXCEPT !["ip_profiles"] = r.has \cup q.has]
        /\ disk' = [disk EXCEPT ![active]["vendor_presets"] =
                        IF q.has = {} THEN @ ELSE Absent]
        /\ pc' = IF q.has # {} THEN "merge" ELSE "run"
    /\ Opens
    /\ UNCHANGED <<pointer, active, target, item, pending, backups, damages, history>>

\* second half: the profiles, and what vendor_presets.json still holds
LoadProfiles ==
    /\ pc = "load_profiles"
    /\ \E r \in Reads(active, "ip_profiles"), q \in Reads(active, "vendor_presets") :
        LET list == q.ok /\ disk[active]["vendor_presets"].state = "whole"
        IN  /\ mem' = [mem EXCEPT !["ip_profiles"] = r.has \cup q.has]
            /\ backups' = backups \cup r.copied \cup q.copied
            /\ unread' = [unread EXCEPT !["ip_profiles"] =
                             IF r.ok THEN {} ELSE disk[active]["ip_profiles"].has]
            /\ skipped' = [skipped EXCEPT !["ip_profiles"] = {}]
            /\ pc' = IF q.has # {} THEN "merge" ELSE IF list THEN "unlink" ELSE "run"
    /\ Opens
    /\ UNCHANGED <<disk, pointer, active, target, item, pending, damages, owned, reset>>

\* the presets are saved with the profiles
MergePresets ==
    /\ pc = "merge"
    /\ \/ /\ SaveJson("ip_profiles", mem["ip_profiles"])
          /\ pc' = "unlink"
          /\ owned' = [owned EXCEPT !["ip_profiles"] = @ \ Unseen("ip_profiles")]
       \/ /\ SaveFails
          /\ Raise
          /\ UNCHANGED owned
    /\ reset' = (reset /\ pc' # "run")
    /\ UNCHANGED <<pointer, booting, volatile, backups, damages, unread, skipped>>

\* and their file is removed, if that works
UnlinkPresets ==
    /\ pc = "unlink"
    /\ \E left \in {Absent, disk[active]["vendor_presets"]} :
            disk' = [disk EXCEPT ![active]["vendor_presets"] = left]
    /\ pc' = "run"
    /\ Opens
    /\ UNCHANGED <<pointer, volatile, backups, damages, history>>

----------------------------------------------------------------------------
(* The window is open.                                                     *)

\* The user changes what a file is to hold.  Memory changes first; what was
\* taken out is given up, what was put in counts once it is saved.
Change(f, entries) ==
    LET given == mem[f] \ entries
    IN  /\ pc = "run"
        /\ mem' = [mem EXCEPT ![f] = entries]
        /\ \/ /\ SaveJson(f, entries)
              /\ owned' = [owned EXCEPT ![f] =
                              (@ \ (given \cup Unseen(f))) \cup (entries \ mem[f])]
           \/ /\ SaveFails
              /\ owned' = [owned EXCEPT ![f] = @ \ given]
        /\ reset' = FALSE
        /\ UNCHANGED <<pointer, pc, booting, active, target, item, pending, backups,
                       damages, unread, skipped>>

\* save_app_config
SaveAppConfig == \E entries \in SUBSET Options : Change("app_config", entries)

\* save_ip_profiles: one profile is added or deleted
SaveIpProfiles ==
    \E p \in Profiles :
        \/ Change("ip_profiles", mem["ip_profiles"] \cup {p})
        \/ Change("ip_profiles", mem["ip_profiles"] \ {p})

\* the button that reads the files again
ReloadConfigFiles ==
    /\ pc = "run"
    /\ pc' = "load_app"
    /\ UNCHANGED <<disk, pointer, booting, volatile, backups, damages, history>>

\* Mutant of CloseWindow: the window saves its state after a reset too.
CloseWindowAlwaysSaves ==
    /\ pc = "run"
    /\ Gone
    /\ \E kept \in SUBSET Options : SaveJson("app_config", kept)
    /\ UNCHANGED <<pointer, backups, damages, owned, reset>>

\* closeEvent and _save_ui_state: what is in memory goes to app_config.json,
\* unless the settings were just reset
CloseWindow ==
    /\ pc = "run"
    /\ Gone
    /\ \/ /\ ~pending
          /\ SaveJson("app_config", mem["app_config"])
          /\ owned' = [owned EXCEPT !["app_config"] = @ \ Unseen("app_config")]
       \/ /\ SaveFails
          /\ UNCHANGED owned
    /\ UNCHANGED <<pointer, backups, damages, reset>>

----------------------------------------------------------------------------
(* Moving the folder: save_path_settings.                                  *)

CopyOrder == <<"app_config", "ip_profiles", "vendor_presets">>
Copied == CopyOrder[item]

NextCopy == IF item < Len(CopyOrder) THEN pc' = pc /\ item' = item + 1
                                     ELSE pc' = "ensure_target" /\ item' = 1

MoveFolder ==
    /\ pc = "run"
    /\ pc' = "copy"
    /\ target' \in Folders \ {active}
    /\ UNCHANGED <<disk, pointer, booting, active, mem, item, pending, backups, damages, history>>

\* a copy that ends in the middle
CutShort ==
    /\ damages < MaxDamage
    /\ damages' = damages + 1
    /\ disk' = [disk EXCEPT ![target][Copied] = Torn]

\* migrate_config_directory, file by file: what is there is left alone; a copy
\* that fails is removed again, if that works, and ends the move
CopyFile ==
    /\ pc = "copy"
    /\ \/ /\ ~There(active, Copied) \/ There(target, Copied)
          /\ NextCopy
          /\ UNCHANGED <<disk, target, damages>>
       \/ /\ There(active, Copied) /\ ~There(target, Copied)
          /\ disk' = [disk EXCEPT ![target][Copied] = disk[active][Copied]]
          /\ NextCopy
          /\ UNCHANGED <<target, damages>>
       \/ /\ There(active, Copied) /\ ~There(target, Copied)
          /\ UNCHANGED <<disk, damages>> \/ CutShort
          /\ pc' = "run" /\ target' = Home /\ item' = 1
    /\ UNCHANGED <<pointer, booting, active, mem, pending, backups, history>>

\* the missing ones are made
EnsureTarget ==
    /\ pc = "ensure_target"
    /\ \E made \in SUBSET Missing(target) :
        /\ Ensured(target, made)
        /\ \/ made = Missing(target) /\ pc' = "point" /\ UNCHANGED target
           \/ made # Missing(target) /\ pc' = "run" /\ target' = Home
    /\ UNCHANGED <<pointer, booting, active, mem, item, pending, backups, damages, history>>

\* path_settings.json is saved, and the new folder is in use at once; nothing
\* is read from it
Point ==
    /\ pc = "point"
    /\ pc' = "run" /\ target' = Home
    /\ \/ /\ pointer' = target /\ active' = target
          /\ skipped' = [f \in Stored |-> disk[target][f].has \ mem[f]]
          /\ unread' = Empty
          /\ reset' = FALSE
       \/ UNCHANGED <<pointer, active, skipped, unread, reset>>
    /\ UNCHANGED <<disk, booting, mem, item, pending, backups, damages, owned>>

----------------------------------------------------------------------------
(* reset_all_settings.                                                     *)

\* the folders and files it writes, in order
ResetOrder == <<<<active, "app_config">>, <<active, "ip_profiles">>,
                <<Home, "app_config">>, <<Home, "ip_profiles">>>>
ResetUpTo(n, made) ==
    disk' = [d \in Folders |-> [f \in Files |->
                IF (d = Home /\ f \in made) \/ \E i \in 1..n : ResetOrder[i] = <<d, f>>
                THEN Whole({}) ELSE disk[d][f]]]

\* The missing ones of the default folder are made, then the files are replaced
\* one after the other, until one cannot be; the user has given up what they
\* held.
ResetFiles ==
    /\ pc = "run"
    /\ \E n \in 0..Len(ResetOrder), made \in SUBSET Missing(Home) :
        /\ n > 0 => made = Missing(Home)
        /\ ResetUpTo(n, made)
        /\ pc' = IF n = Len(ResetOrder) THEN "reset" ELSE "run"
    /\ owned' = Empty /\ unread' = Empty /\ skipped' = Empty
    /\ UNCHANGED <<pointer, booting, volatile, backups, damages, reset>>

\* path_settings.json last, then everything is read again
ResetPoint ==
    /\ pc = "reset"
    /\ \/ /\ pointer' = Home /\ active' = Home
          /\ pending' = TRUE
          /\ reset' = ~There(Home, "vendor_presets")
          /\ pc' = "load_app"
       \/ /\ pc' = "run"
          /\ UNCHANGED <<pointer, active, pending, reset>>
    /\ UNCHANGED <<disk, booting, mem, target, item, backups, damages, owned, unread,
                   skipped>>

----------------------------------------------------------------------------
(* The surroundings.                                                       *)

\* the process is killed, or ends since it could not start; a copy may be half
\* written
Crash ==
    /\ pc # "off"
    /\ Gone
    /\ \/ UNCHANGED <<disk, damages>>
       \/ pc = "copy" /\ There(active, Copied) /\ ~There(target, Copied) /\ CutShort
    /\ UNCHANGED <<pointer, backups, owned, reset>>

\* a file that holds something is edited by hand and is no JSON any more (one
\* that holds nothing would be no other than a copy cut short)
DamageFile ==
    /\ damages < MaxDamage
    /\ damages' = damages + 1
    /\ \E d \in Folders, f \in Files :
        /\ disk[d][f].state = "whole" /\ disk[d][f].has # {}
        /\ disk' = [disk EXCEPT ![d][f] = Broken(@.has)]
    /\ UNCHANGED <<pointer, pc, booting, volatile, backups, history>>

StoreNext ==
    \/ Start \/ EnsureRuntimeFiles \/ LoadAppConfig \/ LoadProfiles
    \/ MergePresets \/ UnlinkPresets
    \/ SaveAppConfig \/ SaveIpProfiles \/ ReloadConfigFiles \/ CloseWindow
    \/ MoveFolder \/ CopyFile \/ EnsureTarget \/ Point
    \/ ResetFiles \/ ResetPoint
    \/ Crash \/ DamageFile

StoreSpec == StoreInit /\ [][StoreNext]_storeVars

----------------------------------------------------------------------------
(* Properties.                                                             *)

Places == {"off", "ensure", "load_app", "load_profiles", "merge", "unlink", "failed", "run",
           "copy", "ensure_target", "point", "reset"}
Docs == {Absent} \cup [state : {"whole", "broken"}, has : SUBSET Entries]

\* The variables have their types.
TypeOK ==
    /\ disk \in [Folders -> [Files -> Docs]]
    /\ {pointer, active, target} \subseteq Folders
    /\ pc \in Places
    /\ item \in DOMAIN CopyOrder
    /\ {booting, pending, reset} \subseteq BOOLEAN
    /\ {mem, owned, unread, skipped} \subseteq [Stored -> SUBSET Entries]
    /\ backups \subseteq Entries
    /\ damages \in 0..MaxDamage

\* The files an entry may be in, and whether it can still be found.
KeptIn(f) == IF f = "ip_profiles" THEN {f, "vendor_presets"} ELSE {f}
Found(f, entry) ==
    entry \in backups \/ \E d \in Folders, g \in KeptIn(f) : entry \in disk[d][g].has

\* What the user saved and did not delete is never lost, through crashes, failed
\* saves, damaged files, the take-over of old presets, moves and partial resets,
\* unless the program saved over a file whose entries it had not read.
NothingSavedIsLost == \A f \in Stored : \A entry \in owned[f] : Found(f, entry)

\* Once the settings are reset, nothing the user had comes back, neither in this
\* session nor by its end nor at the next start.  (A reset with the presets of an
\* older version still in the default folder is not meant: it takes them over.)
ResetIsComplete ==
    (reset /\ pc = "run") =>
        \A f \in Stored : mem[f] = {} /\ disk[active][f].has = {}

\* A move preserves the files it finds in the new folder: their entries are
\* there when they are read (docs/user/ko/settings.md:92).
TargetFilesArePreserved ==
    pc = "run" => \A f \in Stored : skipped[f] \subseteq disk[active][f].has
=============================================================================

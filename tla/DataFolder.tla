---------------------------- MODULE DataFolder ----------------------------
(* What a start does to the folder the program keeps its data in             *)
(* (app/utils/file_utils.py, called by AppState): it finds the folder, takes *)
(* over the settings of an installed copy into a fresh one, and moves the    *)
(* results of older versions to where they are kept now.  One file name      *)
(* stands for all: places are folders, and two results collide when they     *)
(* meet in one.                                                              *)
EXTENDS Naturals, Sequences

CONSTANTS
    OldPlaces,    \* folders of older versions that hold a result at first, or later
    MaxStarts     \* bound: starts

ASSUME DataAssumption ==
    /\ OldPlaces \subseteq {"runs/results", "runs", "outputs/backups", "outputs", "logs/exports"}
    /\ MaxStarts \in Nat

VARIABLES
    results,     \* the results: by place, a number and whether the file is whole
    config,      \* the settings of the portable folder, and what a start does with them
    boot         \* the start that is under way

dataVars == <<results, config, boot>>

----------------------------------------------------------------------------
\* the folder of results is the one in the data folder, or one of the user's
Bases == {"results", "custom"}
OldFolders == {"old"} \X OldPlaces
Complete(n) == [of |-> n, whole |-> TRUE]
BrokenOff(n) == [of |-> n, whole |-> FALSE]

(* migrate_legacy_data_layout: folder by folder, each with what is below it. *)
(* A file that was in the way of its move is met again below the next one.   *)
Moves == << <<"runs/results", "">>, <<"runs", "">>, <<"runs/results", "results">>,
            <<"outputs/backups", "backup">>, <<"outputs", "">>, <<"outputs/backups", "backups">>,
            <<"logs/exports", "">> >>

\* settings in the order they are copied in; the last is outside the folder of settings
Copies == <<"app_config", "ip_profiles", "rules">>
MadeAtStart == {"app_config", "ip_profiles"}

\* the results of older versions, numbered by their folder
Numbers == <<"runs/results", "runs", "outputs/backups", "outputs", "logs/exports">>
NumberOf(p) == CHOOSE k \in DOMAIN Numbers : Numbers[k] = p
Newer == Len(Numbers) + 1

\* an older version that left results has left its settings too
DataInit ==
    \E has \in SUBSET OldPlaces, saved \in {"", "logs/exports", "custom"} :
        /\ results = [p \in {"old"} \X has |-> Complete(NumberOf(p[2]))]
        /\ config = [file \in {Copies[i] : i \in DOMAIN Copies} |-> IF has = {} THEN "none" ELSE "own"]
        /\ boot = [st |-> "off", base |-> "results", next |-> 1, saved |-> IF has = {} THEN "" ELSE saved,
                   starts |-> 0, ran |-> has # {}]

----------------------------------------------------------------------------
(* build_app_paths, detect_data_root: a program folder that cannot be        *)
(* written, or is protected, sends the session to the user's folder; one     *)
(* path of the settings that is not available sends all to their defaults.   *)
StartElsewhere ==
    /\ boot.st = "off" /\ boot.starts < MaxStarts
    /\ boot' = [boot EXCEPT !.starts = @ + 1, !.st = "elsewhere"]
    /\ UNCHANGED <<results, config>>

\* import_installed_settings: only into a folder without settings
ImportOrMoves(conf) == IF conf["app_config"] = "none" THEN "import" ELSE "upgrade"

StartHere ==
    /\ boot.st = "off" /\ boot.starts < MaxStarts
    /\ \E available \in BOOLEAN :
         boot' = [boot EXCEPT !.starts = @ + 1, !.next = 1, !.st = ImportOrMoves(config),
                              !.base = IF boot.saved = "custom" /\ available THEN "custom" ELSE "results"]
    /\ UNCHANGED <<results, config>>

(* migrate_config_directory, and shutil.copy2 for what is not in the folder  *)
(* of settings: never over a file; an error takes away what it had begun and *)
(* leaves out the rest of the folder.                                        *)
Skipped(i) == IF Copies[i] \in MadeAtStart THEN 3 ELSE Len(Copies) + 1

ImportFile ==
    /\ boot.st = "import" /\ boot.next <= Len(Copies)
    /\ \/ /\ config' = [config EXCEPT ![Copies[boot.next]] = IF @ = "none" THEN "installed" ELSE @]
          /\ boot' = [boot EXCEPT !.next = @ + 1]
       \/ /\ config[Copies[boot.next]] = "none"
          /\ boot' = [boot EXCEPT !.next = Skipped(boot.next)]
          /\ UNCHANGED config
    /\ UNCHANGED results

\* killed in the middle of a file
ImportKilled ==
    /\ boot.st = "import" /\ boot.next <= Len(Copies)
    /\ config[Copies[boot.next]] = "none"
    /\ config' = [config EXCEPT ![Copies[boot.next]] = "torn"]
    /\ boot' = [boot EXCEPT !.st = "off"]
    /\ UNCHANGED results

ImportEnds ==
    /\ boot.st = "import" /\ boot.next > Len(Copies)
    /\ boot' = [boot EXCEPT !.st = "upgrade"]
    /\ UNCHANGED <<results, config>>

\* upgrade_legacy_path_settings: a folder that only pointed at the old default
UpgradePaths ==
    /\ boot.st = "upgrade"
    /\ boot' = [boot EXCEPT !.st = "moves", !.next = 1, !.saved = IF @ = "logs/exports" THEN "" ELSE @]
    /\ UNCHANGED <<results, config>>

----------------------------------------------------------------------------
(* _move_directory_contents.                                                 *)
Target == <<boot.base, Moves[boot.next][2]>>
Source == <<"old", Moves[boot.next][1]>>
Moving == boot.st = "moves" /\ boot.next <= Len(Moves)
MovableOver == Source \in DOMAIN results    \* MUTANT: what is there is not looked at
Movable == Source \in DOMAIN results /\ Target \notin DOMAIN results

Put(place, file) == [p \in DOMAIN results \cup {place} |-> IF p = place THEN file ELSE results[p]]
Moved == [p \in (DOMAIN results \ {Source}) \cup {Target} |->
            IF p = Target THEN results[Source] ELSE results[p]]

MoveFile ==
    /\ Moving
    /\ results' = IF Movable THEN Moved ELSE results
    /\ boot' = [boot EXCEPT !.next = @ + 1]
    /\ UNCHANGED config

\* an error: before anything was moved, or between two drives with half of the file there
MoveFails ==
    /\ Moving /\ Movable
    /\ \/ UNCHANGED results
       \/ boot.base = "custom" /\ results' = Put(Target, BrokenOff(results[Source].of))
    /\ boot' = [boot EXCEPT !.next = @ + 1]
    /\ UNCHANGED config

\* killed: between two drives the file is then in both places, or torn in the new one
MoveKilled ==
    /\ Moving /\ Movable /\ boot.base = "custom"
    /\ \/ results' = Put(Target, BrokenOff(results[Source].of))
       \/ results' = Put(Target, results[Source])
    /\ boot' = [boot EXCEPT !.st = "off"]
    /\ UNCHANGED config

\* ensure_runtime_files and load_json: what is missing or damaged becomes the default
Ready ==
    /\ boot.st = "moves" /\ boot.next > Len(Moves)
    /\ config' = [file \in DOMAIN config |->
                    IF file \in MadeAtStart /\ config[file] \in {"none", "torn"} THEN "default" ELSE config[file]]
    /\ boot' = [boot EXCEPT !.st = "running", !.ran = TRUE]
    /\ UNCHANGED results

----------------------------------------------------------------------------
(* The session, and what comes between two.                                  *)
ChangeSetting(file) ==
    /\ boot.st = "running"
    /\ config' = [config EXCEPT ![file] = "own"]
    /\ UNCHANGED <<results, boot>>

\* the user's own rules can be taken away again
RemoveRules ==
    /\ boot.st = "running"
    /\ config' = [config EXCEPT !["rules"] = "none"]
    /\ UNCHANGED <<results, boot>>

ChooseResultsFolder(saved) ==
    /\ boot.st = "running"
    /\ boot' = [boot EXCEPT !.saved = saved]
    /\ UNCHANGED <<results, config>>

\* an older version is run once more
RunOldVersion(p) ==
    /\ boot.st = "off" /\ boot.ran /\ p \notin DOMAIN results
    /\ \A q \in DOMAIN results : results[q].of # Newer
    /\ results' = Put(p, Complete(Newer))
    /\ UNCHANGED <<config, boot>>

End ==
    /\ boot.st # "off"
    /\ boot' = [boot EXCEPT !.st = "off"]
    /\ UNCHANGED <<results, config>>

DataNext ==
    \/ StartElsewhere \/ StartHere \/ ImportFile \/ ImportKilled \/ ImportEnds \/ UpgradePaths
    \/ MoveFile \/ MoveFails \/ MoveKilled \/ Ready \/ RemoveRules \/ End
    \/ \E file \in DOMAIN config : ChangeSetting(file)
    \/ \E saved \in {"", "custom"} : ChooseResultsFolder(saved)
    \/ \E p \in OldFolders : RunOldVersion(p)

----------------------------------------------------------------------------
(* A result that was whole stays whole somewhere, whatever fails or breaks   *)
(* off, and nothing is ever put over another result ("Existing files are     *)
(* never overwritten", file_utils.py:516).                                   *)
ResultsAreKept ==
    [][\/ UNCHANGED results
       \/ \A p \in DOMAIN results :
            /\ results[p].whole => \E q \in DOMAIN results' : results'[q] = results[p]
            /\ p[1] \in Bases => p \in DOMAIN results' /\ results'[p] = results[p]]_dataVars

(* The settings of the portable copy are the user's own from the moment he   *)
(* works with it: an installed copy is asked only before that, and never     *)
(* brings back what he has changed or taken away (README.md:143).            *)
ImportIsForFreshFolders ==
    [][\/ UNCHANGED config
       \/ \A file \in DOMAIN config :
            /\ (config'[file] = "installed" /\ config[file] # "installed") => ~boot.ran
            /\ (config[file] = "own" /\ config'[file] # "own") => file = "rules" /\ config'[file] = "none"
       ]_dataVars

(* A start leaves the data folder with all that was in it.                   *)
DataIsKept == ResultsAreKept /\ ImportIsForFreshFolders
===========================================================================

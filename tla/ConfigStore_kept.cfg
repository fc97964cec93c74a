\* Two folders, one option, one profile.
SPECIFICATION StoreSpec
CONSTANTS
    Folders = {"config", "other"}
    Home = "config"
    Options = {"dark"}
    Profiles = {"p1"}
    MaxDamage = 1
INVARIANTS
    TargetFilesArePreserved

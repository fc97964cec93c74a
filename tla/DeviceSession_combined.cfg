\* Inspection and backup over one connection, with the shared progress counters;
\* the page with one list file, two addresses, two rows in the editor.
SPECIFICATION MCSpec
CONSTANTS
    Parts = {"session", "inputs", "editor", "rules"}
    d1 = d1
    d2 = d2
    Devices = {d1, d2}
    VendorPath = {d1}
    HasBackup = {d1, d2}
    Mode = "inspection_backup"
    MaxRetries = 3
    NInspect = 1
    NCustom = 1
    ListFiles = {"a"}
    Outside <- OtherLists
    Typed = {"", "variable"}
    Filed = {"plain", "broken"}
    MaxAddress = 2
    MaxEditorRows = 2
    Shipped <- ShippedProfile
    BaseDocs <- SavedProfiles
    ModelDocs <- SavedForModels
    Written <- OtherPrograms
    Setups <- SomeSetups
    Inventories <- SomeInventories
    MaxSaves = 1
    MaxWrites = 1
INVARIANTS
    RowTellsTheTruth
    InspectionProgressCompletes
PROPERTY
    RunIsGivenWhatIsRight

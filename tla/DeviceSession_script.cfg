\* The user's script on one handler device and one Netmiko device.
SPECIFICATION MCSpec
CONSTANTS
    Parts = {"session"}
    d1 = d1
    d2 = d2
    Devices = {d1, d2}
    VendorPath = {d1}
    HasBackup = {}
    Mode = "custom_commands"
    MaxRetries = 2
    NInspect = 0
    NCustom = 2
    ListFiles = {"a"}
    Outside <- OtherLists
    Typed = {"", "variable"}
    Filed = {"plain", "broken"}
    MaxAddress = 2
    MaxEditorRows = 2
    Shipped <- ShippedProfile
    BaseDocs <- SavedProfiles
    ModelDocs <- SavedForModels
    Written <- OtherPrograms
    Setups <- SomeSetups
    Inventories <- SomeInventories
    MaxSaves = 1
    MaxWrites = 1
INVARIANTS
    SessionsAreBounded
    RetryLoopAlwaysReturns
    ScriptSentInOrder
    HandlerReplaysOnlyWholeScripts
    StopSparesOnlyTheCommandInFlight

\* Eleven handlers, two commands, two pages; two threads and one endpoint; two commands and
\* four edits of the dialog; every list of distinct rows over three devices.
SPECIFICATION Spec
CONSTANTS
    s1 = s1
    s2 = s2
    e1 = e1
    x = x
    y = y
    Parts = {"vendor", "ssh", "dialog", "merge"}
    Handlers <- Bounded
    Commands = 2
    MaxPages = 2
    Sessions = {s1, s2}
    Endpoints = {e1}
    MaxCalls = 2
    MaxTries = 2
    MaxChanges = 1
    Swallowing = {s2}
    Texts = {x, y}
    ProfileChoices <- Drafts
    MaxCommands = 2
    MaxDialogEdits = 4
    IpSet = {"a", "b", "c"}
INVARIANTS
    OnTimeSessionIsExact
    HelpersAreSafe
    SavedProfileIsTheShownOne
    MergeIsRight
PROPERTY
    SessionReturns
\* every session and dialog has ended
CHECK_DEADLOCK FALSE

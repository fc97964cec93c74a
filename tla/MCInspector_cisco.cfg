\* The old Cisco handler, whose wait for the end of the pager only the size of the text bounds.
SPECIFICATION Spec
CONSTANTS
    s1 = s1
    s2 = s2
    e1 = e1
    x = x
    y = y
    Parts = {"vendor"}
    Handlers <- OldCisco
    Commands = 2
    MaxPages = 2
    Sessions = {}
    Endpoints = {}
    MaxCalls = 0
    MaxTries = 1
    MaxChanges = 0
    Swallowing = {}
    Texts = {x, y}
    ProfileChoices <- Drafts
    MaxCommands = 2
    MaxDialogEdits = 4
    IpSet = {}
PROPERTY
    SessionReturns
\* every session has ended
CHECK_DEADLOCK FALSE

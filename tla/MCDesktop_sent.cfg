\* The device table alone: what is handed over for a row.
SPECIFICATION MCSpec
CONSTANTS
    f1 = f1
    f2 = f2
    p1 = p1
    p2 = p2
    p3 = p3
    n1 = n1
    n2 = n2
    Parts = {"table"}
    TableFiles = {f1, f2}
    ConfigProfiles = {p1, p2}
    DeviceNames = {n1, n2}
    MaxRows = 2
    UndoDepth = 2
    MaxEdits = 4
    ProfileIds = {p1, p2, p3}
    FileNames = {p1, p2}
    FileNameOf <- SafeNames
    MaxProfileOps = 4
    MaxJobs = 3
    MaxLaunches = 1
    Items = 4
    Existing = {1, 2, 3}
    Exe = 2
    Pages = {"home", "interface", "diagnostics", "transfer"}
    Tools = {"ping", "transfer"}
    ResultKeys = {"ping"}
INVARIANTS
    RowsInErrorAreNotSent
\* every edit is used up
CHECK_DEADLOCK FALSE

\* Two tables of at most two rows and four edits; three profile ids over two file names;
\* one chain of update jobs, or a check at start-up under it; one launch; four items, one of them new;
\* four pages, five tools.
SPECIFICATION MCSpec
CONSTANTS
    f1 = f1
    f2 = f2
    p1 = p1
    p2 = p2
    p3 = p3
    n1 = n1
    n2 = n2
    Parts = {"table", "files", "update", "pages"}
    TableFiles = {f1, f2}
    ConfigProfiles = {p1, p2}
    DeviceNames = {n1, n2}
    MaxRows = 2
    UndoDepth = 2
    MaxEdits = 4
    ProfileIds = {p1, p2, p3}
    FileNames = {p1, p2}
    FileNameOf <- SafeNames
    MaxProfileOps = 4
    MaxJobs = 3
    MaxLaunches = 1
    Items = 4
    Existing = {1, 2, 3}
    Exe = 2
    Pages = {"home", "interface", "diagnostics", "transfer"}
    Tools = {"ping", "iperf", "arp", "tcp", "transfer"}
    ResultKeys = {"ping", "tcp"}
INVARIANTS
    TableIsRight
    ProfileFilesAreSafe
    OneUpdateAtATime
    OldVersionIsNeverLost
    ReportIsTrue
    WindowIsConsistent
PROPERTIES
    UpdateEnds
\* every job has ended, every edit is used up, the window is closed
CHECK_DEADLOCK FALSE

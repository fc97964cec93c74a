\* Two folders, one option, one profile; two adapters, three jobs, one plugging;
\* two access points; two folders of an older version, three starts.
SPECIFICATION MCSpec
CONSTANTS
    Parts = {"store", "presets", "network", "wireless", "scan", "data"}
    Folders = {"config", "other"}
    Home = "config"
    Options = {"dark"}
    Profiles = {"p1"}
    MaxDamage = 1
    a1 = a1
    a2 = a2
    APs = {a1, a2}
    Filters <- TwoFilters
    NoAP = NoAP
    p1 = p1
    NumAdapters = 2
    Plans = {p1}
    Dhcp = Dhcp
    Unset = Unset
    MaxNicJobs = 3
    MaxPlugs = 1
    Seen = {a1, a2}
    Durations = {2, 3, 4}
    Intervals = {1, 2}
    SampleTimes = {0, 2}
    SampleCap = 2
    Channels = {1, 2}
    OldPlaces = {"runs/results", "runs"}
    MaxStarts = 3
INVARIANTS
    NothingSavedIsLost
    ResetIsComplete
PROPERTIES
    PagesAreRight
    DataIsKept
\* a scan ends with its report, the jobs of the network page are used up
CHECK_DEADLOCK FALSE

\* Two checks of at most two targets and one probe each; three requests, scans and jobs of each tool.
SPECIFICATION Spec
CONSTANTS
    a = a
    b = b
    s1 = s1
    s2 = s2
    h1 = h1
    h2 = h2
    m1 = m1
    m2 = m2
    r1 = r1
    r2 = r2
    ReachKeys = {a, b}
    TargetLists <- Lists
    MaxProbes = 1
    MaxChecks = 2
    SubnetTexts = {s1, s2}
    Hosts = {h1, h2}
    Macs = {m1, m2}
    MaxRequests = 3
    MaxScans = 3
    MaxLines = 2
    Registries = {r1, r2}
    MaxData = 2
    MaxToolJobs = 3
INVARIANTS
    ToolAnswersAreCurrent
    CachesAreRight
PROPERTY
    StoppedJobsEnd
\* every job has ended and no bound leaves another start
CHECK_DEADLOCK FALSE

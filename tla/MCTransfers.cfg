\* Two names on each side; four FTP jobs, one copy of two paths, two starts of a server.
SPECIFICATION Spec
CONSTANTS
    f1 = f1
    f2 = f2
    c1 = c1
    c2 = c2
    Parts = {"ftp", "copies", "servers"}
    FtpFiles = {f1, f2}
    MaxFtpJobs = 4
    CopyNames = {f1, f2}
    MaxCopyPaths = 2
    MaxCopyItems = 2
    MaxCopyJobs = 1
    SrvClients = {c1, c2}
    SrvFiles = {f1, f2}
    MaxServerRuns = 2
INVARIANTS
    FtpIsRight
    CopyReportIsTrue
    ServersAreRight
PROPERTY
    StoppedServerEnds
\* every job started has ended and the window is closed
CHECK_DEADLOCK FALSE

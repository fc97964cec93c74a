\* Two devices and three runs: a run, its retry, and the retry of the retry.
SPECIFICATION MCSpec
CONSTANTS
    Devices = {1, 2}
    MaxRuns = 3
INVARIANTS
    RunningCoversTheWorker
    ShownResultIsRight
    SuccessIsNotRunAgain
    StoppedRunLeavesNothing
PROPERTY
    FollowedRunsEnd

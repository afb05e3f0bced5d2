SPECIFICATION FairSpec
CONSTANT OutCap = 3
CHECK_DEADLOCK FALSE
INVARIANT TypeOK
INVARIANT ConnectedToValid
PROPERTY LaunchReturns
PROPERTY FailedLaunchLeavesNoDaemon
PROPERTY DisposeEndsDaemon
PROPERTY QuietDaemonServes

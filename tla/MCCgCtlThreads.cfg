CONSTANTS
    t1 = t1
    t2 = t2
    t3 = t3
    Threads <- MCThreads
    CtlOf <- MCCtlOf
    N <- MCN
    Mount <- MCMount
    MountPaths <- MCMountPaths
    Shared <- MCShared
    NoMount = NoMount
    NoPath = NoPath
    NoThread = NoThread
    Default = Default
    Override = NoOverride
    NoOverride = NoOverride
    MaxRemounts = 1
    Faults <- MCFaults
SPECIFICATION Spec
INVARIANTS
    TypeOK
    ResolvedAgree
PROPERTIES
    NoScanWhenCached
    Terminates

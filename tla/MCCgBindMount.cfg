CONSTANTS
    N <- MCN
    Mount <- MCMount
    MountPaths <- MCMountPaths
    NoMount = NoMount
    NoPath = NoPath
    Prvt <- MCPrvt
    Systemd <- MCSystemd
    Joined <- MCJoined
    Active <- MCActive
    Faults <- MCFaultsLoop
SPECIFICATION Spec
INVARIANTS
    TypeOK
    SetupAllOrNothing
    SetupOkAllBound
    NoStackedBind

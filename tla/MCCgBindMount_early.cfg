CONSTANTS
    N <- MCN
    Mount <- MCMount
    MountPaths <- MCMountPaths
    NoMount = NoMount
    NoPath = NoPath
    Prvt <- MCPrvt
    Systemd <- MCSystemd
    Joined <- MCJoined
    Active <- MCActive
    Faults <- MCFaultsEarly
SPECIFICATION Spec
INVARIANT
    SetupAllOrNothing

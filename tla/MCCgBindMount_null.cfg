CONSTANTS
    N <- MCN
    Mount <- MCMount
    MountPaths <- MCMountPaths
    NoMount = NoMount
    NoPath = NoPath
    Prvt <- MCPrvt
    Systemd <- MCSystemd
    Joined <- MCJoined
    Active <- MCActiveUnmounted
    Faults <- MCFaultsNone
SPECIFICATION Spec
INVARIANT
    NoNullMountPath

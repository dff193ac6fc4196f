CONSTANTS
    N <- MCN
    Mount <- MCMount
    MountPaths <- MCMountPaths
    NoMount = NoMount
    NoPath = NoPath
    Faults <- MCFaults
    Prvt <- MCPrvt
    Size = 40
    PrefixLen = 20
    EntryLens <- MCEntryLens
SPECIFICATION Spec
INVARIANT
    CompleteOnSuccess

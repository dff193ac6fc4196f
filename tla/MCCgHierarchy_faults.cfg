CONSTANTS
    N <- MCN
    Mount <- MCMount
    Kind <- MCKind
    Excepts <- MCExcepts
    MountPaths <- MCMountPaths
    NoMount = NoMount
    NoPath = NoPath
    Faults <- MCFaultsDestroy
SPECIFICATION Spec
INVARIANTS
    DestroyOkMeansGone

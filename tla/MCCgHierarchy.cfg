CONSTANTS
    N <- MCN
    Mount <- MCMount
    Kind <- MCKind
    Excepts <- MCExcepts
    MountPaths <- MCMountPaths
    NoMount = NoMount
    NoPath = NoPath
    Faults <- MCFaultsAll
SPECIFICATION Spec
INVARIANTS
    TypeOK
    CreateOkMeansAll
    CreateFailedClean
    DestroyReported
    AttachOkMeansAttached

CONSTANTS
    Dirs <- MCDirs
    Root = "r"
    Par <- MCPar
    DirName <- MCDirName
    Names <- MCNames
    Depth <- MCDepth
    Sub <- MCSub
    NoFd = NoFd
    NoName = NoName
    Faults <- MCFaultsAll
SPECIFICATION Spec
INVARIANTS
    TypeOK
    OutsideIntact
    WalkConsistent
    SuccessMeansEmpty
PROPERTIES
    Terminates

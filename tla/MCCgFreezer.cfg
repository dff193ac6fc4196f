CONSTANTS
    p1 = p1
    p2 = p2
    Callers <- MCCallers
    Cmds <- MCCmds
    Faults <- MCFaults
SPECIFICATION Spec
INVARIANTS
    TypeOK
    ReturnedStateHolds
PROPERTIES
    Settles

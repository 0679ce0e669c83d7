\* Requests of all kinds, one after the other, in all pieces.
CONSTANTS
    MaxHeader <- MCMaxHeader
    SizeModulus <- MCSizeModulus
    Requests <- MCRequests
SPECIFICATION Spec
INVARIANTS
    TypeOK
    BufferBound
    StaleBound
    ClosedForAReason
PROPERTIES
    Answered
CHECK_DEADLOCK FALSE

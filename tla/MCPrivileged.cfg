CONSTANTS
    Nil = Nil
    PodSpecs <- MCPodSpecs
    ByteOrder <- MCByteOrder
SPECIFICATION Spec
\* a call returns: the state after Finish has no successor
CHECK_DEADLOCK FALSE
INVARIANTS
    TypeOK
    PrivilegedResult

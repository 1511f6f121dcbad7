CONSTANTS
    Nil = Nil
    PodSpecs <- MCPodSpecs
    ByteOrder <- MCByteOrder
    MaxCount = 2
SPECIFICATION TestSpec
\* the test binary exits after its last run: that state has no successor
CHECK_DEADLOCK FALSE
INVARIANTS
    TestTypeOK
    TestProcMountPasses
    ToggleRestored

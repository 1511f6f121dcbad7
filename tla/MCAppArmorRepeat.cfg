CONSTANTS
    Nil = Nil
    Metadatas <- MCMetadatas
    ByteOrder <- MCByteOrder
    Runs <- MCRunsTwo
SPECIFICATION Spec
\* both evaluations return: the state after both Finish steps has no successor
CHECK_DEADLOCK FALSE
INVARIANT
    AppArmorDeterministic

CONSTANTS
    Nil = Nil
    Metadatas <- MCMetadatas
    ByteOrder <- MCByteOrder
    Runs <- MCRunsOne
SPECIFICATION Spec
\* a call returns: the state after Finish has no successor
CHECK_DEADLOCK FALSE
INVARIANTS
    TypeOK
    AppArmorVerdict
    AppArmorDetail
    AppArmorFieldErrors

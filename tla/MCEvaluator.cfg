CONSTANTS
    Nil = Nil
    Registrations <- MCRegistrations
    Targets <- MCTargets
    Reasons <- MCReasons
SPECIFICATION Spec
\* a request is answered once; after it, and after a failed start, nothing runs
CHECK_DEADLOCK FALSE
INVARIANT
    TypeOK
PROPERTY
    ImplementsPolicyVerdict

SPECIFICATION Spec
CONSTANTS
    Installations <- Groups
    Requests <- ClientRequests
INVARIANTS
    TypeOK
    OneResponse
    OnceOrNotAtAll
    AsAsked
    RunsWhenAllowed
    ConnAgrees
    InStep
PROPERTY
    RequestEnds

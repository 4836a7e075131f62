\* The bounds of FederatedResponse.cfg.
CONSTANTS
    Queries <- MCAll
    Document <- MCDocuments
    Data <- MCData
    Configured = {"P", "V"}
    Schema <- MCSchema
    Possible <- MCPossible
    Mappings <- MCMappings
    OwnerArg = "nic"
    Absent = none

SPECIFICATION Spec

INVARIANTS
    FailuresReported

\* A query is answered once, so the system stops.
CHECK_DEADLOCK FALSE

\* Example queries and all pairs of selections, with up to four fetches each,
\* one of them without a provider.
CONSTANTS
    Queries <- MCAll
    Document <- MCDocuments
    Data <- MCData
    Configured = {"P", "V"}
    Schema <- MCSchema
    Possible <- MCPossible
    Mappings <- MCMappings
    OwnerArg = "nic"
    Absent = none

SPECIFICATION Spec

INVARIANTS
    ResponseIsDirect
    OnlyPlannedData

\* A query is answered once, so the system stops.
CHECK_DEADLOCK FALSE

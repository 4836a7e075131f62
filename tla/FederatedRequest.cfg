\* One application asks about two owners; every grant expires with time 0.
CONSTANTS
    r1 = r1
    r2 = r2
    Requests = {r1, r2}
    Apps = {app}
    Queries <- MCPlanned
    QueriesOf <- MCQueriesOf
    Plan <- MCPlan
    Refused = none
    Configured = {"P", "V"}
    Owners = {"o1", "o2"}
    Keys <- MCKeys
    ConsentKeys <- MCConsentKeys
    ConsentIDs = {c1, c2, c3}
    GrantSets <- MCGrantSets
    Revocable <- MCRevocable
    Expiries = {0}
    MaxTime = 1
    Nil = nil
    Schema <- MCSchema
    Possible <- MCPossible
    Mappings <- MCMappings
    OwnerArg = "nic"
    Absent = none

SPECIFICATION Spec

INVARIANT
    ReleasedWithinRequest

PROPERTY
    EveryRequestAnswered

\* Every request is received once, so the system stops.
CHECK_DEADLOCK FALSE

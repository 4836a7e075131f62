SPECIFICATION Spec
CONSTANTS
    Nil = Nil
    s1 = s1
    a1 = a1
    a2 = a2
    Fields = 2
    Schemas = {s1}
    SchemaOf <- OneSchema
    Apps = {a1, a2}
    GrantTimes <- ShortAndLong
    Requests = {r1, r2}
    Calls <- WriterCalls
    MaxRows = 2
    MaxTime = 0
SYMMETRY Symmetry
INVARIANTS TypeOK DeadlockNeedsSync
PROPERTIES ImplementsAllowLists SuccessMeansStored

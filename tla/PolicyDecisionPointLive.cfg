SPECIFICATION FairSpec
CONSTANTS
    Nil = Nil
    s1 = s1
    a1 = a1
    a2 = a2
    Fields = 2
    Schemas = {s1}
    SchemaOf <- OneSchema
    Apps = {a1}
    GrantTimes <- ShortAndLong
    Requests = {r1, r2}
    Calls <- ReaderCalls
    MaxRows = 1
    MaxTime = 1
PROPERTIES LetThroughOnlyWhenGranted EveryRequestAnswered

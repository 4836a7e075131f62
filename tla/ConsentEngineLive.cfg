SPECIFICATION FairSpec
CONSTANTS
    Nil = Nil
    Owners = {o1}
    Callers = {o1, o2}
    Apps = {a1}
    FieldLists = {f1, f2}
    Requests = {r1, r2}
    PendingTimeouts <- WithinTheTick
    GrantDurations <- WithinTheTick
    PortalOps = {"approve"}
    MaxConsents = 3
    MaxTime = 0
PROPERTIES EveryRequestAnswered

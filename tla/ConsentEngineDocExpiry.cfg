SPECIFICATION Spec
CONSTANTS
    Nil = Nil
    Owners = {o1}
    Callers = {o1, o2}
    Apps = {a1}
    FieldLists = {f1}
    Requests = {r1, r2}
    PendingTimeouts <- OneTick
    GrantDurations <- OneTick
    PortalOps = {"view", "approve", "reject", "revoke"}
    MaxConsents = 2
    MaxTime = 2
PROPERTIES DecisionNeverOverwritten

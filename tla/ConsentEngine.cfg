SPECIFICATION Spec
CONSTANTS
    Nil = Nil
    Owners = {o1}
    Callers = {o1, o2}
    Apps = {a1}
    FieldLists = {f1, f2}
    Requests = {r1, r2}
    PendingTimeouts <- WithinTheTick
    GrantDurations <- WithinTheTick
    PortalOps = {"view", "approve", "reject", "revoke"}
    MaxConsents = 2
    MaxTime = 1
SYMMETRY Symmetry
INVARIANTS TypeOK OneActiveConsent ExactlyOneWins ExpiredPastDeadline DecisionClearsDeadline
PROPERTIES ImplementsLifecycle RequestIsImmutable NoReactivation GrantWithinRequest ServedFromGrant PortalTouchesOwnConsents

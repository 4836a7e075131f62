\* Two requests at a time, a chosen and a random id, two members and one fault
\* of any kind.
SPECIFICATION Spec
CONSTANTS
    Requests    = {r1, r2}
    Schemas     = {x, y}
    Chosen      = {x}
    Submissions = {s1}
    Members     = {m1, m2}
    Operator    = op
    a = a
    b = b
    Fields      = {a, b}
    Garbled     = Garbled
    Sdls        = {{a}, {b}, {Garbled}}
    Faults      = {"refused", "lost", "late", "crash"}
    MaxFaults   = 1
    MaxStarted  = 4
    Nil         = Nil
\* The number of requests is bounded, so the system comes to a stop.
CHECK_DEADLOCK FALSE
SYMMETRY Interchangeable
INVARIANTS
    ConfirmedInStep
    NothingStray
    ApprovedHasSchema
PROPERTIES
    ChangedForOwner
    ImplementsCreation

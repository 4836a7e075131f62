\* Two requests at a time, two creations, a client made by hand, and one
\* fault of any kind.
SPECIFICATION Spec
CONSTANTS
    Requests     = {r1, r2}
    Applications = {n1, n2}
    Submissions  = {s1}
    Provisioned  = {ext}
    a = a
    b = b
    Fields       = {a, b}
    FieldLists   = {{a}}
    PolicyLists  = {{b}}
    AssignsRole  = TRUE
    Faults       = {"refused", "lost", "unusable", "hang up", "crash"}
    MaxFaults    = 1
    Nil          = Nil
SYMMETRY Interchangeable
INVARIANTS
    ConfirmedIsComplete
    SelectedFieldsGranted
    ProvisionedKept
    NoStrayAccount
    NoStrayRow
    NoStrayGrant
    ApprovedHasApplication
PROPERTY
    ImplementsCreation

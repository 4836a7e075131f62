CONSTANTS
    r1 = r1
    r2 = r2
    Requests = {r1, r2}
    Kids = {"k1", "k2", "ec"}
    Usable = {"k1", "k2"}
    FirstKeys <- MCFirstKeys
    KeysAfter <- MCKeysAfter
    TokensOf <- MCTokensOf
    NoHeader = noheader
    Spellings <- MCSpellings
    Required <- MCRequired
    Issuer <- MCIssuer
    Audience <- MCAudience
    Leeway = 1
    TTL = 2
    MaxTime = 3
    Absent = absent

SPECIFICATION Spec

INVARIANTS
    FreshKey
    KnownKeyAccepted
    PrincipalIsValidated

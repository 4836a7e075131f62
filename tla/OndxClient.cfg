\* Two profiles and their files, two clients, two logins or one and a new refresh token.
CONSTANTS
    c1 = c1
    c2 = c2
    local = local
    site = site
    thunder = thunder
    other = other
    Commands = {c1, c2}
    Profiles = {local, site}
    Paths = {local, site}
    Default = local
    Clients = {thunder, other}
    BuiltIn = thunder
    Pinned = {thunder}
    Rotates = {thunder}
    Settings <- SiteSettings
    Told = {other}
    MaxTokens = 2
    Torn = torn
    Nil = nil

SYMMETRY Terminals

SPECIFICATION Spec

INVARIANTS
    OwnProvidersToken
    SessionKept

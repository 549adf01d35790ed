SPECIFICATION Spec
CONSTANTS
    Aliases = {a1, a2}
    Urls = {u1, u2}
    None = None
    Shortens = {q1, q2}
    Redirects = {r1, r2}
    MaxAttempts = 2
    ListLimit = 2
    MaxFaults = 1
    a1 = a1
    a2 = a2
    u1 = u1
    u2 = u2
    q1 = q1
    q2 = q2
    r1 = r1
    r2 = r2
SYMMETRY Symmetry
INVARIANTS
    TypeOK
    CacheAgreesWithTable
    CreatedLeadsToItsUrl
    RedirectLeadsToLink
    KnownAliasIsFound
    ClicksAreRedirects
    TotalIsListed
CHECK_DEADLOCK FALSE

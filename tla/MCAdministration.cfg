\* Two calls of any operation, or a third beside two that make tenants, and a
\* pool of two connections.
CONSTANTS
    c1 = c1
    c2 = c2
    c3 = c3
    d1 = d1
    d2 = d2
    Calls = {c1, c2, c3}
    Seed = Seed
    Nobody = Nobody
    Domains = {d1, d2}
    Kept = Kept
    Emails = {e1}
    Keys = {currency, theme}
    Values = {v1, v2}
    Defaults <- MCDefaults
    NoSettings = NoSettings
    PoolSize = 2
SPECIFICATION FairSpecOfArrivals
INVARIANTS
    TypeOK
    AnswersAreTruthful
    ConnectionsComeBack
    AuditFollowsCommit
PROPERTIES
    UnaskedStays
    EveryCallEnds

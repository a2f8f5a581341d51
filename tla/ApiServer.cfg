\* One part of the server at a time.
CONSTANTS
    None = None
    \* RateLimits
    Clients = {c1, c2, c3}
    Addresses = {ip1}
    Subjects = {u1}
    Max = 1
    Window = 2
    LimiterMaxNow = 3
    \* AuthFlows
    Requests = {r1, r2}
    Emails = {e1}
    MaxAttempts = 2
    LockWindow = 2
    TokenTtl = 1
    FlowTokens = 4
    FlowsMaxNow = 3
    \* OAuthLogins
    Mailboxes = {m1, m2}
    Implemented = {google, github}
    ProviderIds = {p1, p2}
    StateIds = {s1, s2}
    GcAt = 1
    StateTtl = 1
    OAuthMaxNow = 1
    \* ApiKeys
    Instances = {i1, i2}
    \* InboundWebhooks
    Configured = {stripe}
    Strangers = {unknown}
    MaxEntries = 2
    Deliveries = 4
    \* RuntimeLifecycle
    Signals = {r1, r2}
    \* DatabaseRoutes
    stockA = stockA
    stockB = stockB
    tagX = tagX
    tagY = tagY
    Stock = {stockA, stockB}
    Related = {tagX, tagY}
    Plans <- MCPlans
    Bodies <- MCBodies
    Initial = 1
    \* Cascades
    Rows = {r1, r2}
    Links <- MCLinks
    Gone = Gone
    \* Querying
    RowIds = {1, 2, 3}
    SortKeys = {1, 2}
    RawLimits = {Text, 9}
    Text = Text
    DefaultLimit = 2
    MaxLimit = 1
    MaxWrites = 2
    MaxPages = 4
    \* Permissions
    Absent = Absent
    Seeded = {seeded}
    Values = {"v1", "v2"}
    PermBodies = {None, "v2"}
    Urls = {None, "v1"}
    Requesters <- MCRequesters
    RuleSets <- MCRuleSets
    RoleNames = {"admin", "user", "guest", "anonymous"}
    Roles = {"admin", "user", "guest"}
    Parents <- MCParents
    Hierarchies <- MCHierarchies
    Allowed = {{"user"}}
    \* RelationPlan
    Resources <- MCResources
    System = {"user"}
    Ownable = {"post"}
    Declarable <- MCDeclarable
    TopLevel <- MCTopLevel
    Joins = {"t", "label"}
    Arrays <- MCArrays
    Plain <- MCPlain
    MaxRelations = 3
    \* ApiSurface
    Published <- MCPublished
    Plural <- MCPlural
    Irregular = {"Webhooks"}
    Subsets = {{"list"}, {"create", "read"}}
    Extras <- MCExtras
    Relatable <- MCRelatable
    MaxSettings = 3
SYMMETRY MCSymmetry
SPECIFICATION Spec
INVARIANTS
    TypeOK
    AdmittedBounded
    CountersExpire
    GuessesBounded
    ExchangedOnce
    StateSpent
    SameAccount
    FirstKeyKnown
    InboundFaithful
    AccountsDurable
    ShutdownClean
    StockAccounted
    RecordsPaid
    CascadeAllOrNothing
    WalkedOnce
    ScopeKept
    RolesExact
    
    ArtefactsServed
CHECK_DEADLOCK FALSE

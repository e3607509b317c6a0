\* Three calls on two sessions; two sign-ins with two codes of one contact;
\* two requests of an account with three memberships; three counted requests; one
\* call on two cases; two requirements on two facts; two checks over three days.
CONSTANTS
    c1 = c1
    c2 = c2
    c3 = c3
    k1 = k1
    k2 = k2
    k3 = k3
    SessionIds = {s1, s2}
    Tokens = {k1, k2, k3}
    Calls = {c1, c2, c3}
    SessionTtl = 2
    LastTick = 2
    NoToken = NoToken
    NoSession = NoSession
    Never = Never
    Contacts = {x1}
    Codes = {k1, k2}
    Accounts = {a1, a2}
    Submissions = {c1, c2}
    FactorLists <- TwoEnrolments
    MaxAttempts = 1
    CodeTtl = 1
    LastHour = 1
    NoAccount = NoAccount
    NoCode = NoCode
    Forgotten = Forgotten
    Unset = Unset
    Organisations = {"o1", "o2"}
    Memberships = {1, 2, 3}
    OrganisationOf <- TheirOrganisation
    RoleOf <- TheirRole
    Users = {"o1", "o2"}
    Requests = {c1, c2}
    NoOrganisation = NoOrganisation
    NoMembership = NoMembership
    Unsigned = Unsigned
    Identities = {i1}
    Addresses = {d1}
    None = None
    Limit <- Limits
    Window <- Windows
    MaxRequests = 3
    LastTime = 3
    SweepWindows = {1, 2}
    People = {"pa", "pb"}
    Cases = {"ka", "kb"}
    Places = {"w1", "w2", "w3"}
    Tenancies = {"o1", "o2"}
    PlaceOfCase <- PlaceOfEach
    TenancyOf <- TenancyOfEach
    Grants = {1, 2, 3}
    HolderOf <- Holders
    PlaceOf <- HeldIn
    GrantRole <- HeldAs
    Roles = {"client", "caseworker"}
    CaseOperations = {"read", "write"}
    MayDo <- Permitted
    Lookups = {l1}
    NoGrant = 0
    Nobody = "nobody"
    Facts = {"fa", "fb"}
    Sources = {"sa", "sb"}
    Citations = {"ca", "cx"}
    MatchOf <- Named
    NoSource = NoSource
    Requirements = {"ra", "rb"}
    RequiresOf <- NeededFor
    SourceOf <- Encoded
    Located = {"ra", "rb"}
    Absent = Absent
    NoRule = NoRule
    Checks = {"v1", "v2"}
    AssertedOnly = {"v2"}
    Observers = {"v1", "v2"}
    NamedIds = {"v1", "v2", "v3"}
    Modules = {"m1", "m2"}
    Guarantees = {"g1", "g2", "g3"}
    ModuleOf <- Contracted
    ProvedBy <- Proof
    NoCheck = NoCheck
    Properties <- Registry
    Governance = {"GV"}
    Critical = {"base", "all"}
    Observes <- Watched
    DependsOn <- Rests
    Capabilities = {"cap"}
    LevelChecks <- Gated
    DeclaredImplementation <- ThreeLevels
    DeclaredEvidence <- OneLevel
    FreshDays = 1
    LastDay = 2
    LastCommit = 1
    Tabs = {"t", "u"}
    Demo = "demo"
    Opened = {"new"}
    Plans <- TwoTasks
    MaxItems = 2
    Scaffold = "scaffold"
    Unloaded = Unloaded
    Gone = Gone
    NoPage = NoPage
    NoCase = NoCase
    Speeches = {1, 2}
    Mics = {1, 2}
    Questions = {1, 2}
    MaxChunks = 2
SPECIFICATION Spec
SYMMETRY Symmetry
INVARIANTS
    LostOnlyToRotations
    EntryIsEarned
    ActsWhereItMay
    LimitIsExact
    OneAnswerForStrangers
    DecisionsStand
    ReleasedIsSupported
    VouchedOnlyByAFreshRun
    SatisfiedIsEarned
    WorkLandsOnItsCase
    WorkIsKept
    HeardAndSaidAsShown

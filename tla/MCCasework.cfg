\* Two review calls by five people; one task, two calls on it and its review;
\* three calls on one item of evidence; three deadlines and two calls; two edges, three assertions and a reader;
\* three items and four statements; one link and three calls.
CONSTANTS
    c1 = c1
    c2 = c2
    x = x
    y = y
    z = z
    a = a
    b = b
    c = c
    d4 = d4
    Requests = {"r1"}
    Actors <- SomeActors
    Role <- TheirRoles
    Registered = {"sol"}
    ReviewCalls = {"v1", "v2"}
    Tasks = {"task", "other"}
    TaskCalls = {c1, c2}
    NoTask = NoTask
    NoCall = NoCall
    NoReview = NoReview
    Calls = {c1, c2, "c3"}
    Regulated = {"c3"}
    NoBytes = NoBytes
    TornBytes = TornBytes
    Deadlines = {a, b, c}
    Clerks <- SomeClerks
    ClerkRole <- ClerksRole
    Accredited = {"sol"}
    Drafts <- TwoDrafts
    Locators = {"none", "blank"}
    Noted = {"met"}
    DeadlineCalls = {c1, c2}
    LastMs = 2
    NoDeadline = NoDeadline
    NoClerk = NoClerk
    NoSource = NoSource
    Subjects = {x, y}
    Relations = {"supports"}
    Edges = {c1, c2}
    Assertions = {a, b, c}
    Exhibits = {"exhibit"}
    Types = {"disputed", "human_confirmed", "source_backed"}
    Readers = {"reader"}
    NoEdge = NoEdge
    NoAssertion = NoAssertion
    Items = {x, y, z}
    CaseOf <- TheirCase
    Statements = {a, b, c, d4}
    DerivationKinds = {"ocr"}
    NoItem = NoItem
    NoStatement = NoStatement
    Links = {"k"}
    LinkCalls = {c1, c2, "c3", "c4"}
    NoLinkCall = NoLinkCall
    NoLink = NoLink
SPECIFICATION Spec
SYMMETRY Symmetry
CONSTRAINT Bounds
INVARIANTS
    OneDecisionWins
    DecisionIsSound
    CompletedOnAcceptance
    ItemIsSound
    BytesAreAccountedFor
    AuthorityIsEarned
    OneDateGoverns
    StaleOnlyWithinAMillisecond
    DisputeIsSeen
    ItemIsAccountedFor
    HistoryTellsTheLinks
    RecordsHoldTogether
PROPERTY ImplementsClaims

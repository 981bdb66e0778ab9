SPECIFICATION MCSpec
CONSTANTS
    Parts = {"compose", "scheme", "answer", "quiz", "billing", "units", "tags", "round trip", "files"}
    x1 = x1
    x2 = x2
    x3 = x3
    k1 = k1
    k2 = k2
    k3 = k3
    a = a
    b = b
    i1 = i1
    i2 = i2
    Pools <- MCPools
    Goals <- MCGoals
    MaxQuestions = 3
    Missing = Missing
    Full = 4
    Schemes <- MCSchemes
    Percentages <- MCPercentages
    Options = {x1, x2, x3}
    Null = Null
    Plans = {a, b}
    PlanPrices = {"basic", "large", "legacy"}
    TierOf <- MCTierOf
    OwnerIsAdmin = FALSE
    MaxEvents = 5
    MaxLostAcks = 1
    Servers = {"one", "two"}
    Units = {k1, k2, k3}
    UnitNames = {a, b}
    Institutions = {i1, i2}
    Members = {m}
    NoUnit = NoUnit
    Keep = Keep
    Idle = Idle
    Tags = {k1, k2, k3}
    TagNames = {a, b}
    Kinds = {"content", "prompt"}
    Campuses = {i1, i2}
    Questions = {q}
    Documents = {d}
    Prompts = {p}
    Candidates = {a, b, x1}
    Unscorable = {x1}
    Unset = Unset
    Syncs = {i1, i2}
    MaxQuizzes = 2
    MaxEdits = 2
    Texts = {"first", "second"}
    Origin <- MCOrigin
    Likenesses <- MCLikenesses
    Starts = {1}
    Givens = {"x", "y"}
    NoTime = NoTime
    Unmatched = Unmatched
    MaxTaken = 2
CONSTRAINT Bound
SYMMETRY Symmetry
INVARIANTS
    FillsBudget
    SavedSchemesGrade
    ScoresFair
    PlanMatchesProvider
    HierarchySound
    ResultsFiled
PROPERTY
    LabelsKept
CHECK_DEADLOCK FALSE

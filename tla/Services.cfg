SPECIFICATION MCSpec
CONSTANTS
    a1 = a1
    a2 = a2
    b1 = b1
    b2 = b2
    c1 = c1
    c2 = c2
    d1 = d1
    d2 = d2
    root = root
    Parts = {"sign-in", "users", "sight", "review", "roster", "quotas", "stream", "mail", "help", "reports"}
    Doors = {a1, a2}
    Devices = {b1, b2}
    Links = {c1, c2}
    Letters = {d1, d2}
    MaxRequests = 1
    MaxFailed = 1
    Nobody = Nobody
    Clerks = {a1, a2}
    People = {b1, b2}
    Homes = {"school", "personal"}
    Shared = {"personal"}
    Seats <- MCSeats
    OwnRoles = {"own"}
    NoOne = NoOne
    AtRest = AtRest
    Viewers = {b1, b2, root}
    Superusers = {root}
    Campuses = {"home", "away"}
    Teams = {"dept", "group", "other"}
    CampusOf <- MCCampusOf
    Below <- MCBelow
    NoTeam = NoTeam
    NoOwner = NoOwner
    Nothing = Nothing
    Hands = {a1, a2}
    Reviewers = {b1, b2}
    NoReviewer = NoReviewer
    NoRequest = NoRequest
    Same = Same
    MaxTexts = 2
    Imports = {a1, a2}
    ExternalIds = {b1, b2}
    ClassRows = {c1, c2}
    ClassNames = {d1, d2}
    NoClass = NoClass
    MaxStudents = 2
    PlanNames = {"small", "big"}
    QuotaOf <- MCQuotas
    FirstQuota <- MCFirstQuota
    Unlimited = Unlimited
    Works = {a1, a2}
    NoWork = NoWork
    EvalExams = {b1, b2}
    Examinees = {c1, c2}
    Pupils = {"pupil"}
    MaxAmount = 2
    Streams = {a1, a2}
    NoStream = NoStream
    PendingLimit = 1
    RedisFailures = 1
    Mailers = {a1, a2}
    MailEvent <- MCMailEvents
    NoMail = NoMail
    NoAddress = NoAddress
    NotServing = NotServing
    MaxFailures = 1
    Servers = {a1, a2}
    Pages = {b1, b2}
    Wordings = {c1, c2}
    Releases = {0, 1}
    Absent = Absent
    Unlocked = Unlocked
    NoRun = NoRun
    NoSha = NoSha
    MaxRuns = 2
    Schools = {"school", "academy"}
    System = System
    SchemeRows = {b1, b2}
    NoScheme = NoScheme
    Deleted = Deleted
    Scales <- MCScales
    Papers = {"paper"}
    NoPaper = NoPaper
    Threshold = 1
    Percents = {0, 1}
    PupilSchool <- MCPupilSchool
    Requests = {a1, a2}
    NoTask = NoTask
CONSTRAINT Bound
SYMMETRY Symmetry
INVARIANTS
    RolesHeld
    SightSound
    ApprovalHolds
    HintsFollowed
    OvershootBounded
    StreamTellsTruth
    SuppressionFollowsEvents
    CompletedIsComplete
    ReportsSound
PROPERTY
    LinksAndSessionsEnd
CHECK_DEADLOCK FALSE

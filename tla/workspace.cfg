SPECIFICATION WorkspaceSpec
CONSTANTS
    \* Accounts
    Users = {u1}
    NoUser = NoUser
    Emails = {e1}
    NoEmail = NoEmail
    AppleIds = {}
    NoApple = NoApple
    CodeIds = {x1, x2, x3}
    NoCode = NoCode
    Requests = {h1, h2}
    MAX_CODE_ATTEMPTS = 2
    MaxChanges = 0
    \* Sessions
    Members = {m1, m2}
    Tokens = {x1, x2, x3}
    NoToken = NoToken
    Passwords = {w1, w2}
    NoPassword = NoPassword
    Calls = {h1, h2}
    \* Onboarding
    Owners = {o1, o2}
    NoOwner = NoOwner
    Businesses = {x1, x2, x3}
    NoBusiness = NoBusiness
    Desks = {h1, h2}
    \* Images
    Avatars = {user}
    Logos = {shop}
    Photos = {article}
    Keys = {x1, x2, x3}
    NoKey = NoKey
    Editors = {h1, h2}
    Swaps = FALSE
    \* Customers
    People = {y1, y2}
    Addresses = {jane}
    Spellings = {lower, mixed}
    NoAddress = NoAddress
    Absent = Absent
    Clerks = {h1, h2}
    MaxBatch = 2
    \* Appointments
    Slots = {s1}
    Guests = {g1}
    LastHour = 2
    Planners = {h1, h2}
    \* Listing
    Records = {x1, x2, x3}
    MaxStamp = 2
    DefaultLimit = 2
    MaxLimit = 2
    \* Migration
    Populated = {"businesses", "orders", "invoices"}
    MaxRuns = 2
    \* Seeding
    Tenants <- TestTenants
    MaxSeeds = 3
    \* Reports
    Bookings = {y1, y2}
    Price = 2
    Window = 1
    Ranges = {2}
    LastDay = 3
    \* Mailing
    Envelopes = {x1, x2, x3}
    Letters = {y1, y2}
    Notices = {welcome}
    NoLetter = NoLetter
    Senders = {h1, h2}
    \* Vat
    Subtotals <- UpTo
SYMMETRY Symmetric
INVARIANTS
    WorkspaceTypeOK
    CodesAreReplaced
    RetiredTokensStayOut
    
    NoBrokenImage
    ReplacedImagesGo
    NoDuplicateAddresses
    ImportReportIsTrue
    RangesAreValid
    WalkShowsEveryRow
    MigrationIsFaithful
    SeedingIsRepeatable
    
    MailLogIsTrue
    ChargedAsTheLawSays

SPECIFICATION Spec
CONSTANTS
    Kilo = 3
    normalize_pubkey <- MCnormalize
    NoKey = "no key"
    x = x
    y = y
    z = z
    Letters <- MCLetters
    Shas <- MCShas
    SizeOf <- MCSizes
    Sites <- TwoSites
    StorageTotal <- MCStorage
    BlobMax = 0
    EvictionPolicy <- MCPolicy
    ProtectPinned <- MCProtect
    DayCap <- MCDayCap
    MonthCap <- MCMonthCap
    DaysPerMonth = 30
    Events <- World
    Stray <- None
    Malformed <- Bad
    Tolds = {0, 1}
    Arrivals <- WikiToo
    Uploads <- YbyBob
    Deleters = {"ann"}
    Found = {}
    Reachable = {}
    MaxTime = 2
    MaxDate = 1
    MaxBytes = 6
    ContentBlock = {}
    ContentAllow = {}
    AuthorBlock = {}
    AuthorAllow = {}
    OptIn = FALSE
INVARIANTS TypeOK
PROPERTIES CapsHold

SPECIFICATION GuiSpec
CONSTANTS
    Commands = {c1, c2}  Handlers = {h1, h2}  MaxSwitches = 1
    Conns = {k1, k2, k3}  Capacity = 1  MaxItems = 2  MaxStatuses = 1  MaxCuts = 1
    X = X  K = K  v1 = v1  v2 = v2  keyed = keyed  local = local
    Variables = {X, K}  Values = {v1, v2}  Windows = {w1}
    Providers <- TwoProviders  KeyEnv <- OneKey  Started <- OneSet
    NoVariable = NoVariable  Unset = Unset  Empty = Empty  Mask = Mask  Nobody = Nobody
    MaxUpdates = 2  MaxCrashes = 1
    first = first  second = second
    Requests = {r1, r2}  URLs = {first, second}  Listed <- Lists  Recommended = {"a"}  Picks = {"p"}
    TTL = 2  Timeout = 1  MaxTime = 5  MaxChanges = 1  nothing = nothing
    IDs = {s1, s2}  Servers = {t1, t2}  Titles = {text}  NoTitle = NoTitle  idle = idle
    MaxFailures = 1  MaxTouches = 1
    u1 = u1  u2 = u2
    Uploads = {u1, u2}  Parts <- TwoUploads  Candidate <- CandidateNames  Attempts = 3
    Existing = {{}, {"a"}, {"a", "a-2"}}  NoName = NoName  NoFile = NoFile  MaxFailedUploads = 2
    Instances = {i1, i2}  MaxStarts = 3  MaxTokens = 2
    d1 = d1  d2 = d2
    Sessions = {chat}  Workspaces = {d1, d2}  FileNames <- TwoNames  Hidden = {".a"}
    MaxFileChanges = 3
CONSTRAINT InScenario
INVARIANTS
    GateIsTight
    NothingIsSkipped
    DataIsKept
    ServedIsRight
PROPERTIES
    GuiGoesOn
CHECK_DEADLOCK FALSE

SPECIFICATION ClientsSpec
CONSTANTS
    Parts = {"sessions", "user_cache", "otp", "cooldown", "presence", "rooms"}
    Tokens = {t1, t2}
    NoToken = NoToken
    Requests = {p1, p2}
    AccessTTL = 2
    BlacklistTTL = 2
    MaxRedisFailures = 1
    Calls = {p1, p2}
    UserBlacklistTTL = 3
    CacheTTL = 1
    RequestTime = 1
    MaxCacheFailures = 1
    Clients = {p1, p2}
    MaxPerHour = 1
    MaxAttempts = 1
    CodeTTL = 1
    WindowTTL = 1
    MaxCodes = 2
    MaxDeaths = 1
    Bids = {t1, t2, b3}
    NoBid = NoBid
    Callers = {p1, p2, c3}
    Cooldown = 5
    CallTime = 1
    Handlers = {p1, p2}
    Sockets = {s1, s2}
    MetaTTL = 2
    Rides = {t1, t2}
    NoRide = NoRide
    Phones = {s1, s2}
    NoPhone = NoPhone
SYMMETRY Symmetry
INVARIANTS
    ClientsTypeOK
    StaleRowLapses
    ShutAccountStaysShut
    RateLimitHolds
    CounterLapses
    LiveCodesAreBounded
    AttemptsAreLimited
    GhostLapses
    OfflineDriverIsHidden
    LeftRideIsForgotten
    PhonesAreInTheRoom
PROPERTIES
    InactiveGetsNoToken
    TokensKeepTheirLife
    ReOffersWait

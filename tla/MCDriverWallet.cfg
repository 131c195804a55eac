\* Two handlers at once; the configured limits, in cents.
SPECIFICATION Spec
CONSTANTS
    Topups = {t1}
    AdminTopups = {m1, m2, m3}
    Rides = {r1}
    Slots = {p1, p2}
    Wallet = Wallet
    NoRow = NoRow
    Amounts = {200000, 300000}
    Fares = {4, 305}
    CalculatedFare = 300
    HideEstimate = TRUE
    FareTolerance = 100
    FareMultiplier = 5
    CommissionRate = 10
    DailyLimit = 500000
    OpeningBalance = 1000
    LastDay = 1
SYMMETRY Symmetry
INVARIANTS
    TypeOK
    BalanceIsAccountedFor
    DailyLimitKept
    PaidIffCompleted
PROPERTIES
    SettledIsFinal
    WalletIsLedger

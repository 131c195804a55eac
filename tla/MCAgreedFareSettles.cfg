\* One ride under open pricing: a fare of 0.04 TND among the fares asked for.
SPECIFICATION Spec
CONSTANTS
    Topups = {t1}
    AdminTopups = {m1}
    Rides = {r1}
    Slots = {p1}
    Wallet = Wallet
    NoRow = NoRow
    Amounts = {200000}
    Fares = {4, 305}
    CalculatedFare = 300
    HideEstimate = TRUE
    FareTolerance = 100
    FareMultiplier = 5
    CommissionRate = 10
    DailyLimit = 500000
    OpeningBalance = 1000
    LastDay = 0
INVARIANT AgreedFareSettles

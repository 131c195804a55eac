SPECIFICATION ServicesSpec
CONSTANTS
    Services = {"scheduled_rides"}
    Riders = {p1, p2, p3}
    Seats = 2
    RatedRides = {r1, r2, r3}
    RatingAttempts = 2
    Devices = {d1, d2}
    PushAttempts = 2
    MaxRefreshes = 1
    Retries = {q1, q2, q3}
    ExpiryDelay = 2
    RenewalDelay = 1
    ExpiryAttempts = 2
    ActivationAttempts = 3
    MaxRenewals = 2
    Delays = {0, 1, 2, 3, 4, 5}
    Connections = {c1, c2}
    Jobs = {j1, j2}
    Years = 2
    MaxCommandDeaths = 1
CHECK_DEADLOCK FALSE
INVARIANT ActivatedBeforeExpiry

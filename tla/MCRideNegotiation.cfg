\* Two drivers, two offers, two requests and two workers at once, one crash.
SPECIFICATION Spec
CONSTANTS
    Drivers = {d1, d2}
    Offers = {o1, o2}
    Requests = {r1, r2}
    Workers = {w1, w2}
    NoDriver = NoDriver
    NoOffer = NoOffer
    MaxAttempts = 2
    MaxCrashes = 1
SYMMETRY Symmetry
INVARIANTS
    TypeOK
    AcceptedOfferIsThePick
    MatchedRideHasNoPendingOffer
    OnePendingOfferPerDriver
    OpenRideHasExpirationJob
    PendingOfferHasExpirationJob
    AnnouncedIsOver
PROPERTY
    RideKeepsItsPromise

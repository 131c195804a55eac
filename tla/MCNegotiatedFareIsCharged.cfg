SPECIFICATION Spec
CONSTANTS
    Drivers = {d1, d2}
    Offers = {o1, o2}
    Requests = {r1, r2}
    Workers = {w1, w2}
    NoDriver = NoDriver
    NoOffer = NoOffer
    MaxAttempts = 2
    MaxCrashes = 0
SYMMETRY Symmetry
INVARIANT NegotiatedFareIsCharged

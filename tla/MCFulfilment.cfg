CONSTANTS
    c1 = c1
    v1 = v1
    NoKey = NoKey
    CargoId = {c1}
    CargoOf <- FCargoOf
    Voyage = {v1}
    Shape <- FShape
    Key = {}
    Request <- FRequests
    PaymentTimeout = 0
    MaxBookings = 2
    MaxTime = 2
    MaxManifests = 4
SPECIFICATION FulfilSpec
INVARIANTS
    FulfilTypeOK
    OneManifestCounts
    ArrivalsMatchBookings
PROPERTIES
    PaidKeepsItsSlots
    ArrivedIsFinal
    FreezeIsSettled

CONSTANTS
    c1 = c1
    c2 = c2
    v1 = v1
    k1 = k1
    NoKey = NoKey
    CargoId <- MCCargoId
    CargoOf <- MCCargoOf
    Voyage = {v1}
    Shape <- MCShape
    Key = {k1}
    Request <- MixedRequests
    PaymentTimeout = 1
    MaxBookings = 3
    MaxTime = 3
SPECIFICATION Spec
INVARIANTS
    TypeOK
    SlotsMatchHolders
    HoldsItsQuota
    WaitlistIsExact
    TemperatureControl
    OneBookingPerKey
    NoIdleSlot
PROPERTIES
    PromotionByPriority
    ReconcileLeavesNoneOverdue
    ImplementsQuota

CONSTANTS
    c1 = c1
    v1 = v1
    k1 = k1
    NoKey = NoKey
    CargoId = {c1}
    CargoOf <- RCargoOf
    Voyage = {v1}
    Shape <- RShape
    Key = {k1}
    Request <- RRequests
    PaymentTimeout = 0
    MaxBookings = 2
    MaxTime = 2
SPECIFICATION RecoverySpec
INVARIANTS
    SnapshotIsConsistent
    PaymentSurvives
    BookingSurvives
PROPERTIES
    ServesReconciled

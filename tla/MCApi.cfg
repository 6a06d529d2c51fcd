CONSTANTS
    c1 = c1
    v1 = v1
    k1 = k1
    a1 = a1
    a2 = a2
    a3 = a3
    NoKey = NoKey
    NoRequest = NoRequest
    CargoId = {c1}
    CargoOf <- HCargoOf
    Voyage = {v1}
    Shape <- HShape
    Key = {k1}
    Request <- HRequests
    PaymentTimeout = 0
    MaxBookings = 2
    MaxTime = 1
    Call = {a1, a2, a3}
SPECIFICATION PreparedSpec
SYMMETRY CallSymmetry
INVARIANTS
    KeyedCallsShareABooking
    CreatedIsNotWaiting
    PaymentAnswersHold

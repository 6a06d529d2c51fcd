CONSTANTS
    c1 = c1
    v1 = v1
    p1 = p1
    p2 = p2
    NoKey = NoKey
    CargoId = {c1}
    CargoOf <- PCargoOf
    Voyage = {v1}
    Shape <- PShape
    Key = {}
    Request <- PRequests
    PaymentTimeout = 1
    MaxBookings = 2
    MaxTime = 1
    MaxManifests = 0
    Port = {p1, p2}
    DestOf <- PDestOf
    DepartureAt <- PDepartureAt
    PortChangeWindow = 1
SPECIFICATION PreparedSpec
INVARIANTS
    PortTypeOK
    AtMostTwoChanges
PROPERTIES
    DiversionIsDue

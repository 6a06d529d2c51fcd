CONSTANTS
    c1 = c1
    c2 = c2
    v1 = v1
    NoKey = NoKey
    CargoId = {c1, c2}
    CargoOf <- ACargoOf
    Voyage = {v1}
    Shape <- AShape
    Key = {}
    Request = {}
    PaymentTimeout = 0
    MaxBookings = 2
    MaxTime = 2
    MaxManifests = 0
    Start = {1}
    MaxAppointments = 3
    MaxCrashes = 1
SPECIFICATION PreparedSpec
INVARIANTS
    AptTypeOK
    OneTruckPerBooking
    ScheduledNumberIsUnique
PROPERTIES
    RenumberingCoversAll
    ServesReappointed
    DelayReachesEveryTruck

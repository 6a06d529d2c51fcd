CONSTANTS
    q1 = q1
    q2 = q2
    Request = {q1, q2}
SPECIFICATION LifeSpec
CHECK_DEADLOCK FALSE
INVARIANTS
    OrderlyEnd
PROPERTIES
    SignalEndsIt

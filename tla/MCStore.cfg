CONSTANTS
    u1 = u1
    u2 = u2
    w1 = w1
    Updater = {u1, u2}
    Viewer = {w1}
    Absent = Absent
    Torn = Torn
    MaxChanges = 3
SPECIFICATION StoreSpec
INVARIANTS
    StoreTypeOK
    AnsweredSurvives
    SnapshotIsPast
PROPERTIES
    ImplementsAtomicStore
    EveryCallEnds

CONSTANTS
    Item = {m1, m2}
    Promise = {p1, p2, p3, p4, p5}
    Pending = Pending
    Unasked = Unasked
SPECIFICATION Spec
INVARIANTS
    TypeOK
    OneSided
    SidesSettled
    FlushNeverWaits
PROPERTIES
    ImplementsPairing

SPECIFICATION CollectorSpec
CONSTANTS
    Calls = {c1, c2}
    Physical = {eth0, eth1}
    Virtual = {wg0}
    NoSample = NoSample
    MaxBytes = 2
    MaxTime = 2
INVARIANTS
    CollectorTypeOK
    NoByteTwice
    ReportsAddUp
SYMMETRY Symmetry
CHECK_DEADLOCK FALSE

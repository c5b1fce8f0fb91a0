SPECIFICATION Spec
CONSTANTS
    Safes = {s1}
    Root = root
    VaultSafes = {s1}
    p1 = p1 p2 = p2
    Procs = {p1, p2}
    Environment = {p1, p2}
    Tails = {"ended", "text", "blank"}
    MaxKeys = 2
    MaxStops = 1
SYMMETRY Symmetry
INVARIANTS TypeOK PrivateStaysOutUnlessStopped KeysStay
PROPERTIES PreexistingKept
CHECK_DEADLOCK FALSE

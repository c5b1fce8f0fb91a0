SPECIFICATION Spec
CONSTANTS
    Safes = {}
    Root = root
    VaultSafes = {}
    p1 = p1 p2 = p2
    Procs = {p1}
    Environment = {}
    Tails = {"ended", "text"}
    MaxKeys = 0
    MaxStops = 1
INVARIANTS PrivateStaysOut
CHECK_DEADLOCK FALSE

SPECIFICATION Spec
CONSTANTS
    alice = alice bob = bob ka = ka kb = kb kb2 = kb2
    laptop = laptop server = server m1 = m1 m2 = m2 m3 = m3
    NoKey = NoKey Torn = Torn
    Users = {alice, bob}
    Keys = {ka, kb}
    Safes = {s1}
    Clones = {laptop, server}
    Procs = {laptop, server}
    MasterKeys = {m1, m2}
    Environment = {server}
    MaxStops = 1
    MayMerge = FALSE
    CloneOf <- OneShellEach
    Identity <- MCIdentity
    GitHub <- OneKeyEach
SYMMETRY Symmetry
INVARIANTS SealedMatchesAccess WrappedOpens
PROPERTIES UnlockSuffices
CHECK_DEADLOCK FALSE

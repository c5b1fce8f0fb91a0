SPECIFICATION Spec
CONSTANTS
    alice = alice bob = bob ka = ka kb = kb kb2 = kb2
    laptop = laptop server = server m1 = m1 m2 = m2 m3 = m3
    NoKey = NoKey Torn = Torn
    Users = {alice, bob}
    Keys = {ka, kb, kb2}
    Safes = {}
    Clones = {laptop, server}
    Procs = {laptop, server}
    MasterKeys = {m1, m2}
    Environment = {server}
    MaxStops = 0
    MayMerge = TRUE
    CloneOf <- OneShellEach
    Identity <- MCIdentity
    GitHub <- ChangingKeys
SYMMETRY Symmetry
INVARIANTS TypeOK SealedMatchesAccess
PROPERTIES RevokedCutOff ImplementsPolicy
CHECK_DEADLOCK FALSE

SPECIFICATION Spec
CONSTANTS
    alpha = alpha beta = beta laptop = laptop server = server
    None = None
    Safes = {alpha, beta}
    Clones = {laptop, server}
    Contents = {c1, c2}
    Faults = {"kill", "disk", "refused"}
    Paths <- Colliding
    Before <- StringOrder
    NameOf <- SecretName
    SafeOf <- OwnSafes
SYMMETRY Symmetry
INVARIANTS TypeOK PushedInSync
PROPERTIES OwnershipRespected NothingReverted FailedImportLeavesNoFile ImplementsStore
CHECK_DEADLOCK FALSE

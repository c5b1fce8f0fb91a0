SPECIFICATION Spec
CONSTANTS
    alpha = alpha beta = beta laptop = laptop server = server
    None = None
    Safes = {alpha}
    Clones = {laptop}
    Contents = {c1, c2}
    Faults = {"lost"}
    Paths <- Colliding
    Before <- StringOrder
    NameOf <- SecretName
    SafeOf <- OneSafe
SYMMETRY Symmetry
PROPERTIES NothingReverted
CHECK_DEADLOCK FALSE

SPECIFICATION Spec
CONSTANTS
    Secrets = {db, api}
    Shells = {p1}
    None = None
    MaxContents = 2
    MaxKills = 1
    TornAt = {"write"}
    PullOverPlaintext = FALSE
SYMMETRY Symmetry
INVARIANTS TypeOK NoEditLost
PROPERTIES UntouchedKept
CHECK_DEADLOCK FALSE

SPECIFICATION Spec
CONSTANTS
    Secrets = {db}
    Shells = {p1}
    None = None
    MaxContents = 2
    MaxKills = 0
    TornAt = {}
    PullOverPlaintext = TRUE
SYMMETRY Symmetry
PROPERTIES UntouchedKept
CHECK_DEADLOCK FALSE

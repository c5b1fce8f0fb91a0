SPECIFICATION Spec
CONSTANTS
    MaxInt = 10
    Unknown = Unknown
    LastCommit = 4
    Tags <- MCTags
    Broken = {4}
    Shells = {p1, p2}
    Unstamped = FALSE
SYMMETRY Symmetry
INVARIANTS TypeOK BinaryRuns
PROPERTIES NeverOlder

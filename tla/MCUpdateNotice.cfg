SPECIFICATION LiveSpec
CONSTANTS
    MaxInt = 10
    Unknown = Unknown
    LastRelease = 2
    Number <- MCNumber
    Interval = 2
    Shells = {p1, p2}
INVARIANTS TypeOK
PROPERTIES OnceUnlessSpoilt NoticeArrives

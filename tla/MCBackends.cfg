SPECIFICATION LiveSpec
CONSTANTS
    Files = {"api.yaml", "db.json.enc", "db.yaml", "db.yaml.enc"}
    Enc = {"db.json.enc", "db.yaml.enc"}
    PathOf <- MCPathOf
    Before <- MCBefore
    Contents = {c1, c2}
    None = None
    Broken = Broken
INVARIANTS TypeOK PushedInSync MatchingSkipped
PROPERTIES PlaintextWins ImplementsStore PushConverges
CHECK_DEADLOCK FALSE

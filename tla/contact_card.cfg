SPECIFICATION Spec
CONSTANTS
    w1 = w1  w2 = w2
    None = None
    NoCard = NoCard
    Workers = {w1, w2}
    Deployments <- AllDeployments
    FillFields = {"email"}
    LatestFields = {"urgency"}
    Value = {"v1", "v2", "v3"}
    Refused <- MCRefused
    Counted <- MCCounted
    Items = {"i", "j"}
    Limit = 1
    Patches <- MCPatches
SYMMETRY TurnSymmetry
INVARIANTS OrderlyScoreCurrent
PROPERTIES KnownStaysKnown OrderlyRemembers

\* A model call fails although another provider is configured.
CONSTANTS
    scope = scope
    other = other
    none = none
    a = a
    b = b
    qwen = qwen
    minimax = minimax
    Candidates <- MCCandidates
    NoProvider = none
    Gathering <- MCGathering
    FallbackOrder <- MCFallbackOrder
    OtherTools <- MCOtherTools
    Inputs = {scope, other}
    Scope = scope
    NoInputs = none
    Baselines <- MCBaselines
    Profiles <- MCProfiles
    RawPlans <- MCRawPlans
    MaxFollowups = 1
    MaxRetries = 1
    MaxInvestigations = 2
SPECIFICATION Spec
CHECK_DEADLOCK FALSE
INVARIANTS
    EveryModelTried

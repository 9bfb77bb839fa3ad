\* Overlapping requests on a seeded investigation and two questions, and a restart.
CONSTANTS
    flagship = flagship
    quiet = quiet
    q1 = q1
    q2 = q2
    revenue = revenue
    refunds = refunds
    Metrics = {revenue, refunds}
    MetricOf <- MCMetricOf
    Seeds <- MCSeeds
    Fixable <- MCFixable
    SeedStatus <- MCSeedStatus
    Asked <- TwoQuestions
    Refusals = {"rejected"}
    MaxRequests = 3
    MaxRestarts = 1
SPECIFICATION Spec
CHECK_DEADLOCK FALSE
INVARIANTS
    TypeOK
    FixableHasApproval
    AwaitingHasRerun
    MergedIsReal
    NothingForgotten
    OfferedOrUnderway
PROPERTIES
    ImplementsTwoStage
    MrLeadsToOffer

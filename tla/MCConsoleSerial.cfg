\* One request at a time, and one more of them than overlap elsewhere.
CONSTANTS
    flagship = flagship
    quiet = quiet
    q1 = q1
    q2 = q2
    revenue = revenue
    refunds = refunds
    Metrics = {revenue}
    MetricOf <- MCMetricOf
    Seeds <- MCBoth
    Fixable <- MCFixable
    SeedStatus <- MCSeedStatus
    Asked <- TwoQuestions
    Refusals = {"rejected"}
    MaxRequests = 4
    MaxRestarts = 1
SPECIFICATION SerialSpec
CHECK_DEADLOCK FALSE
INVARIANTS
    NoDeadEnd
    ApprovalsApart
PROPERTIES
    PostApprovalKept
    NobodyVanishes

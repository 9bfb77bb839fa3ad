\* A slow lazy analysis ends after the fix was approved.
CONSTANTS
    flagship = flagship
    quiet = quiet
    q1 = q1
    q2 = q2
    revenue = revenue
    refunds = refunds
    Metrics = {revenue, refunds}
    MetricOf <- MCMetricOf
    Seeds <- MCSeeds
    Fixable <- MCFixable
    SeedStatus <- MCSeedStatus
    Asked <- OneQuestion
    Refusals = {"rejected"}
    MaxRequests = 3
    MaxRestarts = 0
SPECIFICATION Spec
CHECK_DEADLOCK FALSE
PROPERTY PostApprovalKept

\* Investigations of two processes over one warehouse and one memory.
CONSTANTS
    inc1 = inc1
    inc2 = inc2
    w1 = w1
    w2 = w2
    hook = hook
    revenue = revenue
    unknown = unknown
    IncidentIds = {inc1, inc2}
    Console = {w1}
    Concludes <- MCConcludes
    Given <- MCGiven
    Resumed = {w2}
    Hook = hook
    MaxQueries = 1
    Keys = {revenue, unknown}
    Mapped = {revenue}
    MaxCalls = 2
    MaxRestarts = 1
SPECIFICATION Spec
CHECK_DEADLOCK FALSE
INVARIANTS
    TypeOK
    WarehouseKept
    FallbackForAReason
    OneRecordPerIncident
    OnlyAuthorised
    SerialMemory
    OneInvestigationEach
    RetrievalWorks
PROPERTIES
    CallbacksAnswered

\* Every way the reflection loop, the escalation and the human gate can go.
CONSTANTS
    refunded = refunded
    partial = partial
    held = held
    none = none
    Statuses = {refunded, partial, held, none}
    Base = {refunded}
    Known = {refunded, held}
    NoneValues = {none}
    Worlds <- MCWorlds
    MaxAttempts = 2
SPECIFICATION Spec
CHECK_DEADLOCK FALSE
INVARIANTS
    TypeOK
    ProposalSound
    GiveUpSound
    EscalationNeedsHuman
    OutcomeContract
PROPERTIES
    ImplementsLifecycle
    GetsNearer
    Settles

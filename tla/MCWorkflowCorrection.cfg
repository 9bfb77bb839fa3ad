\* A correction reaches apply_remediation without an approval.
CONSTANTS
    refunded = refunded
    partial = partial
    held = held
    none = none
    Statuses = {refunded, partial, held, none}
    Base = {refunded}
    Known = {refunded, held}
    NoneValues = {none}
    Worlds <- MCWorlds
    MaxAttempts = 2
SPECIFICATION Spec
CHECK_DEADLOCK FALSE
INVARIANT WriteOnlyIfApproved

\* Overlapping writes leave a memory that cannot be read or lacks an incident.
CONSTANTS
    inc1 = inc1
    inc2 = inc2
    w1 = w1
    w2 = w2
    w3 = w3
    IncidentIds = {inc1, inc2}
    Writers = {w1, w2, w3}
SPECIFICATION Spec
SYMMETRY Symmetry
CHECK_DEADLOCK FALSE
INVARIANT WrittenIsRetrievable

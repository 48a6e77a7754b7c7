SPECIFICATION Spec
CONSTANTS
    Orders = {o1}
    Handlers = {h1}
    Workers = {w1}
    Variants = {a}
    Bought <- OneOfEach
    Spare = 1
    Attempts = 3
    MaxStalls = 1
    Faults = TRUE
    NoRow = NoRow
    NoJob = NoJob
    NoEvent = NoEvent
INVARIANT AckedIsDispatched

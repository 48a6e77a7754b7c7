SPECIFICATION Spec
CONSTANTS
    Orders = {o1, o2}
    Handlers = {h1}
    Workers = {w1}
    Variants = {a}
    Bought <- OneOfEach
    Spare = 1
    Attempts = 3
    MaxStalls = 1
    Faults = FALSE
    NoRow = NoRow
    NoJob = NoJob
    NoEvent = NoEvent
INVARIANT StandingOrdersHold

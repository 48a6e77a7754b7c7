SPECIFICATION Spec
CONSTANTS
    Orders = {o1}
    Handlers = {h1, h2}
    Workers = {w1, w2}
    Variants = {a}
    Bought <- OneOfEach
    Spare = 1
    Attempts = 2
    MaxStalls = 1
    Faults = TRUE
    NoRow = NoRow
    NoJob = NoJob
    NoEvent = NoEvent
SYMMETRY ProcessSymmetry
INVARIANTS TypeOK OneJobPerEvent PaidWasCharged
PROPERTY PaidIsFinal

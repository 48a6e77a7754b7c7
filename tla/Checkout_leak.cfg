SPECIFICATION Spec
CONSTANTS
    alice = alice
    bob = bob
    k1 = k1
    k2 = k2
    home = home
    work = work
    Requests = {r1}
    Params <- TwoBuyers
    Variants = {a, b}
    InitialStocks = {0, 1}
    MaxCartQty = 1
    Shopping = FALSE
    KeysExpire = FALSE
    Faults = FALSE
    AnswersLost = FALSE
    None = None
INVARIANT ReleasedIfCancelled

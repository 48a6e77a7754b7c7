SPECIFICATION Spec
CONSTANTS
    alice = alice
    bob = bob
    k1 = k1
    k2 = k2
    home = home
    work = work
    Requests = {r1}
    Params <- Retries
    Variants = {a}
    InitialStocks = {1}
    MaxCartQty = 1
    Shopping = FALSE
    KeysExpire = FALSE
    Faults = TRUE
    AnswersLost = FALSE
    None = None
INVARIANT NoIntentForCancelled

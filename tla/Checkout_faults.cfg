SPECIFICATION FairSpec
CONSTANTS
    alice = alice
    bob = bob
    k1 = k1
    k2 = k2
    home = home
    work = work
    Requests = {r1, r2}
    Params <- SameKey
    Variants = {a}
    InitialStocks = {1, 2}
    MaxCartQty = 1
    Shopping = TRUE
    KeysExpire = TRUE
    Faults = TRUE
    AnswersLost = TRUE
    None = None
INVARIANTS TypeOK OneCheckoutPerKey ReplayIsFaithful ReservationsBacked
PROPERTIES ImplementsOrderOnce RequestsEnd

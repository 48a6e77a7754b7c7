SPECIFICATION MCSpec
CONSTANTS
    alice = alice
    bob = bob
    g1 = g1
    g2 = g2
    t0 = t0
    a0 = a0
    Requests = {r1, r2}
    Calls <- AllCalls
    Emails = {alice, bob}
    GoogleIds = {g1, g2}
    OldTokens = {t0}
    Customers = {alice}
    OldAddresses = {a0}
    None = None

CHECK_DEADLOCK FALSE
INVARIANTS ReuseRevokesFamily

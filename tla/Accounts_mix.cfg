SPECIFICATION MCSpec
CONSTANTS
    alice = alice
    bob = bob
    g1 = g1
    g2 = g2
    t0 = t0
    a0 = a0
    Requests = {r1, r2, r3}
    Calls <- AllCalls
    Emails = {alice, bob}
    GoogleIds = {g1, g2}
    OldTokens = {t0}
    Customers = {alice}
    OldAddresses = {a0}
    None = None
SYMMETRY RequestSymmetry
CHECK_DEADLOCK FALSE
INVARIANTS TypeOK ForkNeedsRace OneAccountPerGoogleId OneDefaultUnlessCrowded
PROPERTIES DeadFamilyStaysDead

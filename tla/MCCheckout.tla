----------------------------- MODULE MCCheckout -----------------------------
(* Small instances of Checkout.                                            *)
EXTENDS Checkout

CONSTANTS alice, bob, k1, k2, home, work

Ask(u, k, a) == [user |-> u, key |-> k, address |-> a]

\* one key, asked again with the same dto and with another
SameKey == {Ask(alice, k1, home), Ask(alice, k1, work)}
\* two customers with keys of their own
TwoBuyers == {Ask(alice, k1, home), Ask(bob, k2, home)}
\* plain retries
Retries == {Ask(alice, k1, home)}

=============================================================================

------------------------- MODULE MCIdempotencyStore -------------------------
(* Small instances of IdempotencyStore for TLC. *)
EXTENDS IdempotencyStore

CONSTANTS r1, r2, r3, k1, k2, b1, b2

ThreeRequests == {r1, r2, r3}
OneTenant == {1}
TwoTenants == {1, 2}
OneKey == {k1}
TwoKeys == {k1, k2}
OneBody == {b1}
TwoBodies == {b1, b2}

OneAsk == {<<<<1, k1>>, b1>>}

\* Two keys of one tenant, one reused with a second body, and a key of another.
MixedAsks == {<<<<1, k1>>, b1>>, <<<<1, k1>>, b2>>, <<<<1, k2>>, b1>>, <<<<2, k1>>, b1>>}
=============================================================================

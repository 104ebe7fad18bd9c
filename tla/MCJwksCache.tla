----------------------------- MODULE MCJwksCache -----------------------------
\* Model-checking instance of JwksCache.
EXTENDS JwksCache, TLC

CONSTANTS r1, r2, master, acme, k1, k2

\* The realms share an id, and one of them rolls over to a second.
MCKidsOf == [n \in Realm |-> IF n = master THEN {k1, k2} ELSE {k1}]
=============================================================================

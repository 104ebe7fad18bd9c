------------------------- MODULE MCTenantLifecycle -------------------------
\* Model-checking instances of TenantLifecycle.
EXTENDS TenantLifecycle, TLC

CONSTANTS o1, o2, o3, t1, t2, t3, n1, n2, d1, d2

PromptFaults == {"fail", "lost", "crash"}
NoFaults == {}
LostOnly == {"lost"}
LostAndLate == {"lost", "late"}

Symmetry == Permutations({o1, o2, o3}) \cup Permutations({t1, t2, t3})
              \cup Permutations({n1, n2}) \cup Permutations({d1, d2})
=============================================================================

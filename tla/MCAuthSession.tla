---- MODULE MCAuthSession ----
\* Model-checking instances of AuthSession.
EXTENDS AuthSession, TLC

CONSTANTS r1, r2, st1, st2, sid1, sid2, u1, master, acme

\* A user who is no administrator, and one made an administrator by a role
\* whose spelling only resolveAppRole knows.
MCRoleSets == {{"viewer"}, {"viewer", "Realm-Admin"}}

\* For the questions roles do not touch.
OneRoleSet == {{"viewer"}}

Symmetry == Permutations({r1, r2}) \cup Permutations({st1, st2}) \cup Permutations({sid1, sid2})
============================

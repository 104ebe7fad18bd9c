---------------------------- MODULE MCAdminClient ----------------------------
\* Model-checking instance of AdminClient.
EXTENDS AdminClient, TLC

CONSTANTS r1, r2, c1, c2
=============================================================================

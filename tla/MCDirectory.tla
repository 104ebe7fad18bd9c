----------------------------- MODULE MCDirectory -----------------------------
\* Model-checking instances of Directory.
EXTENDS Directory, TLC

CONSTANTS o1, o2, u, ra, rb, g, f1, f2, n1, n2

\* A user, two roles and a group; the other ids are free.
MCContent == [i \in Id |->
  CASE i = u  -> [sort |-> "user", name |-> n1, on |-> TRUE]
    [] i = ra -> [sort |-> "role", name |-> n1, on |-> FALSE]
    [] i = rb -> [sort |-> "role", name |-> n2, on |-> FALSE]
    [] i = g  -> [sort |-> "group", name |-> n1, on |-> FALSE]
    [] OTHER  -> NULL]

Symmetry == Permutations(Op)

AllFaults == {"fail", "lost", "crash"}
NoFaults == {}
=============================================================================

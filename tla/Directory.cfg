SPECIFICATION FairSpec
CONSTANTS
  o1 = o1
  o2 = o2
  u = u
  ra = ra
  rb = rb
  g = g
  f1 = f1
  f2 = f2
  n1 = n1
  n2 = n2
  NULL = NULL
  Op = {o1, o2}
  Entry = {o1, o2}
  Id = {u, ra, rb, g, f1, f2}
  Name = {n1, n2}
  Content <- MCContent
  Tries = 2
  Faults <- AllFaults
INVARIANTS TypeOK TrailTellsTheTruth ErrorChangedNothing TrailInOrder
PROPERTIES GrantsAsNamed RequestsEnd EntriesSettle

SPECIFICATION Spec
CONSTANTS
  o1 = o1
  o2 = o2
  o3 = o3
  t1 = t1
  t2 = t2
  t3 = t3
  n1 = n1
  n2 = n2
  d1 = d1
  d2 = d2
  NoDomain = NoDomain
  NULL = NULL
  Op = {o1}
  TenantID = {t1}
  Realm = {n1}
  Domain = {d1}
  Faults <- LostOnly
  MaxLate = 2
SYMMETRY Symmetry
INVARIANT OperationsAtomic

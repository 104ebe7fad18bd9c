SPECIFICATION Spec
CONSTANTS
  o1 = o1
  o2 = o2
  o3 = o3
  t1 = t1
  t2 = t2
  t3 = t3
  n1 = n1
  n2 = n2
  d1 = d1
  d2 = d2
  NoDomain = NoDomain
  NULL = NULL
  Op = {o1, o2, o3}
  TenantID = {t1, t2, t3}
  Realm = {n1, n2}
  Domain = {NoDomain, d1}
  Faults <- NoFaults
  MaxLate = 2
SYMMETRY Symmetry
INVARIANTS LiveHasRealm RealmHasOwner
PROPERTY TenantsAtomic

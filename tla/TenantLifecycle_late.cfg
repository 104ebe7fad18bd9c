SPECIFICATION FairSpec
CONSTANTS
  o1 = o1
  o2 = o2
  o3 = o3
  t1 = t1
  t2 = t2
  t3 = t3
  n1 = n1
  n2 = n2
  d1 = d1
  d2 = d2
  NoDomain = NoDomain
  NULL = NULL
  Op = {o1, o2}
  TenantID = {t1, t2}
  Realm = {n1}
  Domain = {d1, d2}
  Faults <- LostAndLate
  MaxLate = 1

PROPERTIES DeletedIsFinal RealmLostOnlyToItsOwner OperationsEnd

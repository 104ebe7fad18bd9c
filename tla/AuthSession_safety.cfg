SPECIFICATION Spec
CONSTANTS
  r1 = r1
  r2 = r2
  st1 = st1
  st2 = st2
  sid1 = sid1
  sid2 = sid2
  u1 = u1
  master = master
  acme = acme
  NULL = NULL
  Req = {r1, r2}
  State = {st1, st2}
  SessionID = {sid1, sid2}
  User = {u1}
  Realm = {master, acme}
  RoleSets <- OneRoleSet
  SessionTTL = 2
  PkceTTL = 1
SYMMETRY Symmetry
INVARIANTS TypeOK RedeemedCodeNotRepeated OneSessionPerLogin SessionOfItsLogin NoRenewalAfterLogout
PROPERTY RegistryImplemented

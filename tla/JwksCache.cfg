SPECIFICATION FairSpec
CONSTANTS
  r1 = r1
  r2 = r2
  master = master
  acme = acme
  k1 = k1
  k2 = k2
  NULL = NULL
  Req = {r1, r2}
  Realm = {master, acme}
  Kid = {k1, k2}
  KidsOf <- MCKidsOf
  MasterRealm = master
INVARIANT TypeOK
PROPERTIES KeyViewImplemented VerificationsEnd RotationHeals

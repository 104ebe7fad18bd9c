SPECIFICATION FairSpec
CONSTANTS
  r1 = r1
  r2 = r2
  st1 = st1
  st2 = st2
  sid1 = sid1
  sid2 = sid2
  u1 = u1
  master = master
  acme = acme
  NULL = NULL
  Req = {r1, r2}
  State = {st1}
  SessionID = {sid1}
  User = {u1}
  Realm = {acme}
  PkceTTL = 1
  SessionTTL = 2
  RoleSets <- MCRoleSets
PROPERTIES RevokedStaysOut UnusedSessionExpires RequestsEnd

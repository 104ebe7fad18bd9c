SPECIFICATION FairSpec
CONSTANTS
  r1 = r1
  r2 = r2
  c1 = c1
  c2 = c2
  NULL = NULL
  Req = {r1, r2}
  Conn = {c1, c2}
  TTL = 3
  Margin = 1
  Timeout = 1
  Tries = 3
INVARIANTS TypeOK ConnectionsAccounted
PROPERTIES StartsFresh FetchOnlyWhenStale CallsEnd PoolRecovers

--------------------------- MODULE SessionRegistry ---------------------------
(***************************************************************************)
(* What the session store promises, whatever requests are in flight.  An   *)
(* id is bound to one login for ever and a login to one id; the entry of   *)
(* an id is either absent or that of its login; and an entry that has gone *)
(* comes back only through a request that had read it while it was there.  *)
(***************************************************************************)
CONSTANTS SessionID, Identity, Holder, NULL

VARIABLES
  bound,   \* the login each id stands for
  entry,   \* the login the stored entry of each id speaks for
  lease    \* the entry each holder has read and may yet write back

registryVars == <<bound, entry, lease>>

RegistryInit ==
  /\ bound = [s \in SessionID |-> NULL]
  /\ entry = [s \in SessionID |-> NULL]
  /\ lease = [h \in Holder |-> NULL]

Open(s, i) ==
  /\ bound[s] = NULL
  /\ \A t \in SessionID : bound[t] # i
  /\ bound' = [bound EXCEPT ![s] = i]
  /\ entry' = [entry EXCEPT ![s] = i]
  /\ UNCHANGED lease

Lease(h, s) ==
  /\ lease[h] = NULL
  /\ entry[s] # NULL
  /\ lease' = [lease EXCEPT ![h] = s]
  /\ UNCHANGED <<bound, entry>>

Renew(h, s) ==
  /\ lease[h] = s
  /\ entry' = [entry EXCEPT ![s] = bound[s]]
  /\ lease' = [lease EXCEPT ![h] = NULL]
  /\ UNCHANGED bound

Release(H) ==
  /\ lease' = [h \in Holder |-> IF h \in H THEN NULL ELSE lease[h]]
  /\ UNCHANGED <<bound, entry>>

Close(S) ==
  /\ entry' = [s \in SessionID |-> IF s \in S THEN NULL ELSE entry[s]]
  /\ UNCHANGED <<bound, lease>>

RegistryNext ==
  \/ \E s \in SessionID, i \in Identity : Open(s, i)
  \/ \E h \in Holder, s \in SessionID : Lease(h, s) \/ Renew(h, s)
  \/ \E H \in SUBSET Holder : Release(H)
  \/ \E S \in SUBSET SessionID : Close(S)

RegistrySpec == RegistryInit /\ [][RegistryNext]_registryVars
=============================================================================

---------------------------- MODULE TenantRegistry ----------------------------
(***************************************************************************)
(* What TenantService promises its callers: tenants as one registry, in    *)
(* which every operation takes effect at one instant.  A creation gets its *)
(* name and its domain for good or leaves no trace; a status is written to *)
(* an open tenant or to none; a tenant is closed only by a deletion asked  *)
(* for, once, and its names are not given again.                           *)
(***************************************************************************)
CONSTANTS Op, TenantID, Realm, Domain

VARIABLES
  granted,  \* the realm name and the domain of every tenant ever registered
  status,   \* the status of each tenant
  ask       \* what each operation in flight was asked for

registryVars == <<granted, status, ask>>

Nothing == [kind |-> "none"]

RegistryInit ==
  /\ granted = {}
  /\ status = [t \in TenantID |-> "none"]
  /\ ask = [o \in Op |-> Nothing]

Open(t) == status[t] \in {"active", "suspended"}
Answer(o) == ask' = [ask EXCEPT ![o] = Nothing]
Ask(o, a) == ask[o] = Nothing /\ ask' = [ask EXCEPT ![o] = a]

AskCreate(o, t, n, d) ==
  /\ status[t] = "none"
  /\ \A p \in Op : ask[p].kind = "create" => ask[p].id # t
  /\ Ask(o, [kind |-> "create", id |-> t, realm |-> n, domain |-> d])
  /\ UNCHANGED <<granted, status>>

Register(o, t, n, d) ==
  /\ ask[o] = [kind |-> "create", id |-> t, realm |-> n, domain |-> d]
  /\ \A g \in granted : g.realm # n /\ g.domain # d
  /\ granted' = granted \cup {[id |-> t, realm |-> n, domain |-> d]}
  /\ status' = [status EXCEPT ![t] = "active"]
  /\ Answer(o)

\* Only for a reason: one of the names was given before, or another creation
\* asks for the same name.
Reject(o, t, n, d) ==
  /\ ask[o] = [kind |-> "create", id |-> t, realm |-> n, domain |-> d]
  /\ \/ \E g \in granted : g.realm = n \/ g.domain = d
     \/ \E p \in Op \ {o} : ask[p].kind = "create" /\ ask[p].realm = n
  /\ Answer(o)
  /\ UNCHANGED <<granted, status>>

AskStatus(o, t, s) ==
  /\ status[t] # "none"
  /\ Ask(o, [kind |-> "status", id |-> t, status |-> s])
  /\ UNCHANGED <<granted, status>>

\* A tenant closed meanwhile stays as it is.
WriteStatus(o, t, s) ==
  /\ ask[o] = [kind |-> "status", id |-> t, status |-> s]
  /\ status' = IF Open(t) THEN [status EXCEPT ![t] = s] ELSE status
  /\ Answer(o)
  /\ UNCHANGED granted

AskDelete(o, t) ==
  /\ status[t] # "none"
  /\ Ask(o, [kind |-> "delete", id |-> t])
  /\ UNCHANGED <<granted, status>>

Close(o, t) ==
  /\ ask[o] = [kind |-> "delete", id |-> t]
  /\ Open(t)
  /\ status' = [status EXCEPT ![t] = "closed"]
  /\ UNCHANGED <<granted, ask>>

Deleted(o, t) ==
  /\ ask[o] = [kind |-> "delete", id |-> t]
  /\ status[t] = "closed"
  /\ Answer(o)
  /\ UNCHANGED <<granted, status>>

RegistryNext ==
  \E o \in Op, t \in TenantID :
    \/ \E n \in Realm, d \in Domain :
         AskCreate(o, t, n, d) \/ Register(o, t, n, d) \/ Reject(o, t, n, d)
    \/ \E s \in {"active", "suspended"} : AskStatus(o, t, s) \/ WriteStatus(o, t, s)
    \/ AskDelete(o, t) \/ Close(o, t) \/ Deleted(o, t)

RegistrySpec == RegistryInit /\ [][RegistryNext]_registryVars
-----------------------------------------------------------------------------
(***************************************************************************)
(* What is left of it when calls fail and processes die: an operation may  *)
(* end in error with or without its effect. Names are still given once and *)
(* for good, and a closed tenant is closed for good.                       *)
(***************************************************************************)

\* The caller is told of an error, rightly or not.
Fail(o) == Answer(o) /\ UNCHANGED <<granted, status>>

\* The creation takes effect, and its caller may be told that it failed; the
\* realm may be gone already.
RegisterTorn(o, t, n, d) ==
  /\ ask[o] = [kind |-> "create", id |-> t, realm |-> n, domain |-> d]
  /\ \A g \in granted : g.realm # n /\ g.domain # d
  /\ granted' = granted \cup {[id |-> t, realm |-> n, domain |-> d]}
  /\ \E s \in {"active", "closed"} : status' = [status EXCEPT ![t] = s]
  /\ Answer(o) \/ UNCHANGED ask

\* A tenant is closed by its own deletion, or by a creation of its realm that
\* fails.
Lose(o, t) ==
  /\ Open(t)
  /\ \/ ask[o] = [kind |-> "delete", id |-> t]
     \/ \E g \in granted : g.id = t /\ ask[o].kind = "create" /\ ask[o].realm = g.realm
  /\ status' = [status EXCEPT ![t] = "closed"]
  /\ Answer(o) \/ UNCHANGED ask
  /\ UNCHANGED granted

\* The process dies.
Die == ask' = [o \in Op |-> Nothing] /\ UNCHANGED <<granted, status>>

FaultyNext ==
  \/ RegistryNext
  \/ \E o \in Op : Fail(o)
  \/ \E o \in Op, t \in TenantID : Lose(o, t)
  \/ \E o \in Op, t \in TenantID, n \in Realm, d \in Domain : RegisterTorn(o, t, n, d)
  \/ Die

FaultySpec == RegistryInit /\ [][FaultyNext]_registryVars
=============================================================================

--------------------------- MODULE TenantLifecycle ---------------------------
(***************************************************************************)
(* Tenants: a row in PostgreSQL and a realm in Keycloak, kept in step by   *)
(* TenantService without a transaction that spans both.                    *)
(*                                                                         *)
(* An operation is a process: each call to PostgreSQL and each HTTP        *)
(* attempt at Keycloak is one action, so operations interleave between     *)
(* them, and also between the attempts of doAdminRequest's retry loop.     *)
(*                                                                         *)
(* Faults says what may go wrong:                                          *)
(*   "fail"   a call has no effect and reports an error (a network error,  *)
(*            a 4xx or 5xx, no admin token)                                *)
(*   "lost"   a call takes effect and reports an error: its answer is      *)
(*            lost, or is a 5xx                                            *)
(*   "late"   an attempt at Keycloak times out and takes effect later      *)
(*   "crash"  the process dies and restarts                                *)
(***************************************************************************)
EXTENDS Naturals, FiniteSets

CONSTANTS
  Op,         \* operation slots: at most this many requests in flight
  TenantID,   \* uuids, each drawn at most once
  Realm,      \* realm names, as sanitiseRealmName leaves them
  Domain,     \* values of the domain column
  NoDomain,   \* the empty string, stored when the request names no domain
  Faults,     \* what may go wrong
  MaxLate,    \* bound: attempts given up that Keycloak may yet process
  NULL        \* nil: no row, no realm

ASSUME BoundAssumption == MaxLate \in Nat
ASSUME FaultsAssumption == Faults \subseteq {"fail", "lost", "late", "crash"}

VARIABLES
  rows,     \* table tenants, by id
  realms,   \* Keycloak: the realms that exist
  op,       \* program counter and locals of each operation
  late,     \* attempts given up by the server that Keycloak may yet process
  drawn     \* the uuids drawn so far

vars == <<rows, realms, op, late, drawn>>

\* doAdminRequest makes at most this many attempts.
MaxAttempts == 3

Status == {"active", "suspended", "deleted"}

\* deleted: deleted_at is set; restamped: it has been set more than once.
Row == [realm : Realm, domain : Domain, status : Status, deleted : BOOLEAN,
        restamped : BOOLEAN]

\* on: whether it is enabled; by: the tenant whose creation made it.
RealmRep == [on : BOOLEAN, by : TenantID]

\* Locals of the operations; "post", "rollback", "put" and "drop" are
\* attempts at Keycloak, the others single statements in PostgreSQL.
IdleOp == [pc : {"idle"}]
CreateOp == [pc : {"post", "insert", "rollback"}, id : TenantID, realm : Realm,
             domain : Domain, try : 1..MaxAttempts]
SetOp == [pc : {"update", "put"}, id : TenantID, realm : Realm,
          status : {"active", "suspended"}, try : 1..MaxAttempts]
DeleteOp == [pc : {"drop", "softdelete"}, id : TenantID, realm : Realm,
             try : 1..MaxAttempts]

\* The operations whose next step is an attempt at Keycloak.
Attempting(c) == c.pc \in {"post", "rollback", "put", "drop"}

OpState == IdleOp \cup CreateOp \cup SetOp \cup DeleteOp

ASSUME NullAssumption == NULL \notin Row /\ NULL \notin RealmRep

Idle == [pc |-> "idle"]
Goto(o, s) == op' = [op EXCEPT ![o] = s]

\* The next call of the same operation: its attempts start again at one.
NextCall(c, pc) == [c EXCEPT !.pc = pc, !.try = 1]
Proceed(o, pc) == Goto(o, NextCall(op[o], pc))
Finish(o) == Goto(o, Idle)

\* GetByID finds rows that are not marked deleted.
Live(t) == rows[t] # NULL /\ ~rows[t].deleted

Init ==
  /\ rows = [t \in TenantID |-> NULL]
  /\ realms = [n \in Realm |-> NULL]
  /\ op = [o \in Op |-> Idle]
  /\ late = {}
  /\ drawn = {}
-----------------------------------------------------------------------------
(***************************************************************************)
(* Keycloak's admin API, and one attempt of doAdminRequest at it: a 5xx or *)
(* a network error is tried again, any other answer ends the loop.         *)
(***************************************************************************)

\* The realms after Keycloak has processed the attempt of c: POST (409 when
\* the realm exists), DELETE and PUT (404 when it does not).
Processed(c) ==
  LET n == c.realm
  IN  CASE c.pc = "post" ->
             IF realms[n] = NULL
             THEN [realms EXCEPT ![n] = [on |-> TRUE, by |-> c.id]] ELSE realms
        [] c.pc \in {"rollback", "drop"} -> [realms EXCEPT ![n] = NULL]
        [] c.pc = "put" ->
             IF realms[n] = NULL
             THEN realms ELSE [realms EXCEPT ![n].on = (c.status = "active")]

\* Mutants: the loop starts over; it makes one attempt too many.
TryForever(o) == Goto(o, [op[o] EXCEPT !.try = (@ % MaxAttempts) + 1])
TryOnceMore(o) ==
  IF op[o].try <= MaxAttempts
  THEN Goto(o, [op[o] EXCEPT !.try = @ + 1])
  ELSE Finish(o)

TryAgain(o) ==
  IF op[o].try < MaxAttempts
  THEN Goto(o, [op[o] EXCEPT !.try = @ + 1])
  ELSE Finish(o)

\* answered: where the operation goes when it gets the answer.
Attempt(o, answered) ==
  \/ realms' = Processed(op[o]) /\ answered /\ UNCHANGED late
  \/ /\ "lost" \in Faults
     /\ realms' = Processed(op[o]) /\ TryAgain(o) /\ UNCHANGED late
  \/ "fail" \in Faults /\ UNCHANGED <<realms, late>> /\ (TryAgain(o) \/ Finish(o))
  \/ /\ "late" \in Faults /\ Cardinality(late) < MaxLate
     /\ UNCHANGED realms /\ TryAgain(o) /\ late' = late \cup {op[o]}

\* Keycloak processes an attempt whose caller is not waiting any more.
KcLate(c) ==
  /\ realms' = Processed(c)
  /\ late' = late \ {c}
  /\ UNCHANGED <<rows, op, drawn>>

\* One statement in PostgreSQL.
Execute(effect, answered, failed) ==
  \/ effect /\ answered
  \/ "lost" \in Faults /\ effect /\ failed
  \/ "fail" \in Faults /\ UNCHANGED rows /\ failed
-----------------------------------------------------------------------------
(***************************************************************************)
(* CreateTenant: POST the realm, insert the row, on an error delete the    *)
(* realm again.                                                            *)
(***************************************************************************)

\* The uuid is drawn with the request; nothing reads it before the insert.
CreateTenant(o, t, n, d) ==
  /\ op[o].pc = "idle"
  /\ t \notin drawn
  /\ drawn' = drawn \cup {t}
  /\ Goto(o, [pc |-> "post", id |-> t, realm |-> n, domain |-> d, try |-> 1])
  /\ UNCHANGED <<rows, realms, late>>

\* Mutant: a 409 is taken for the answer to an earlier attempt of one's own.
CreateRealmAdopting(o) ==
  /\ op[o].pc = "post"
  /\ Attempt(o, Proceed(o, "insert"))
  /\ UNCHANGED <<rows, drawn>>

\* CreateRealm; a conflict ends the operation.
CreateRealm(o) ==
  /\ op[o].pc = "post"
  /\ Attempt(o, IF realms[op[o].realm] = NULL
                THEN Proceed(o, "insert") ELSE Finish(o))
  /\ UNCHANGED <<rows, drawn>>

\* Mutant: uniqueness among the rows that are not deleted (a partial index).
RealmTakenLive(n) == \E t \in TenantID : Live(t) /\ rows[t].realm = n

\* The UNIQUE columns: deleted rows keep their names.
RealmTaken(n) == \E t \in TenantID : rows[t] # NULL /\ rows[t].realm = n

DomainTaken(d) == \E t \in TenantID : rows[t] # NULL /\ rows[t].domain = d

InsertRow(o) ==
  rows' = [rows EXCEPT ![op[o].id] =
             [realm |-> op[o].realm, domain |-> op[o].domain,
              status |-> "active", deleted |-> FALSE, restamped |-> FALSE]]

\* Mutant: a row that is not unique is refused without the rollback.
CreateKeepsRealm(o) ==
  /\ op[o].pc = "insert"
  /\ IF RealmTaken(op[o].realm) \/ DomainTaken(op[o].domain)
     THEN UNCHANGED rows /\ Finish(o)
     ELSE Execute(InsertRow(o), Finish(o), Proceed(o, "rollback"))
  /\ UNCHANGED <<realms, late, drawn>>

\* Mutant: a creation whose insert failed starts over.
CreateAgain(o) ==
  /\ op[o].pc = "insert"
  /\ IF RealmTaken(op[o].realm) \/ DomainTaken(op[o].domain)
     THEN UNCHANGED rows /\ Proceed(o, "rollback")
     ELSE Execute(InsertRow(o), Finish(o), Proceed(o, "post"))
  /\ UNCHANGED <<realms, late, drawn>>

\* repo.Create.
Create(o) ==
  /\ op[o].pc = "insert"
  /\ IF RealmTaken(op[o].realm) \/ DomainTaken(op[o].domain)
     THEN UNCHANGED rows /\ Proceed(o, "rollback")
     ELSE Execute(InsertRow(o), Finish(o), Proceed(o, "rollback"))
  /\ UNCHANGED <<realms, late, drawn>>

\* The best-effort DeleteRealm after a failed insert; its error is logged.
Rollback(o) ==
  /\ op[o].pc = "rollback"
  /\ Attempt(o, Finish(o))
  /\ UNCHANGED <<rows, drawn>>
-----------------------------------------------------------------------------
(***************************************************************************)
(* SuspendTenant and EnableTenant: read the row, write the status, then    *)
(* PUT the realm, whose error is dropped.                                  *)
(***************************************************************************)

\* GetByID; no row, or an error, ends the operation.
SetStatus(o, t, status) ==
  /\ op[o].pc = "idle"
  /\ \/ /\ Live(t)
        /\ Goto(o, [pc |-> "update", id |-> t, realm |-> rows[t].realm,
                    status |-> status, try |-> 1])
     \/ UNCHANGED op
  /\ UNCHANGED <<rows, realms, late, drawn>>

SuspendTenant(o, t) == SetStatus(o, t, "suspended")
EnableTenant(o, t) == SetStatus(o, t, "active")

\* Mutant: the update does not look at deleted_at.
WriteStatusAnyRow(t, status) == rows' = [rows EXCEPT ![t].status = status]

\* The row as it was read, with the new status, where deleted_at IS NULL:
\* a row deleted meanwhile is left alone, and that is no error.
WriteStatus(t, status) ==
  rows' = IF Live(t) THEN [rows EXCEPT ![t].status = status] ELSE rows

\* repo.Update.
Update(o) ==
  /\ op[o].pc = "update"
  /\ Execute(WriteStatus(op[o].id, op[o].status), Proceed(o, "put"), Finish(o))
  /\ UNCHANGED <<realms, late, drawn>>

\* UpdateRealm, whatever comes of it.
UpdateRealm(o) ==
  /\ op[o].pc = "put"
  /\ Attempt(o, Finish(o))
  /\ UNCHANGED <<rows, drawn>>
-----------------------------------------------------------------------------
(***************************************************************************)
(* DeleteTenant: read the row, delete the realm, mark the row.             *)
(***************************************************************************)

\* GetByID; no row, or an error, ends the operation.
DeleteTenant(o, t) ==
  /\ op[o].pc = "idle"
  /\ \/ /\ Live(t)
        /\ Goto(o, [pc |-> "drop", id |-> t, realm |-> rows[t].realm, try |-> 1])
     \/ UNCHANGED op
  /\ UNCHANGED <<rows, realms, late, drawn>>

\* Mutant: an error of the realm's deletion is dropped.
DeleteRealmUnchecked(o) ==
  /\ op[o].pc = "drop"
  /\ realms' = Processed(op[o]) \/ ("fail" \in Faults /\ UNCHANGED realms)
  /\ Proceed(o, "softdelete")
  /\ UNCHANGED <<rows, late, drawn>>

\* DeleteRealm; 404 is as good as 204, any other error ends the operation.
DeleteRealm(o) ==
  /\ op[o].pc = "drop"
  /\ Attempt(o, Proceed(o, "softdelete"))
  /\ UNCHANGED <<rows, drawn>>

\* The statement does not ask whether deleted_at is set: a second deletion
\* stamps the row again.
Marked(r) ==
  [r EXCEPT !.status = "deleted", !.deleted = TRUE, !.restamped = r.deleted]
MarkDeleted(t) == rows' = [rows EXCEPT ![t] = Marked(@)]

\* repo.SoftDelete.
SoftDelete(o) ==
  /\ op[o].pc = "softdelete"
  /\ Execute(MarkDeleted(op[o].id), Finish(o), Finish(o))
  /\ UNCHANGED <<realms, late, drawn>>
-----------------------------------------------------------------------------
\* The process dies and restarts: operations are lost, the stores are not.
Crash ==
  /\ "crash" \in Faults
  /\ op' = [o \in Op |-> Idle]
  /\ UNCHANGED <<rows, realms, late, drawn>>

\* The next step of an operation in flight.
Advance(o) ==
  \/ CreateRealm(o)
  \/ Create(o)
  \/ Rollback(o)
  \/ Update(o)
  \/ UpdateRealm(o)
  \/ DeleteRealm(o)
  \/ SoftDelete(o)

Next ==
  \/ \E o \in Op, t \in TenantID, n \in Realm, d \in Domain :
       CreateTenant(o, t, n, d)
  \/ \E o \in Op, t \in TenantID : SuspendTenant(o, t)
  \/ \E o \in Op, t \in TenantID : EnableTenant(o, t)
  \/ \E o \in Op, t \in TenantID : DeleteTenant(o, t)
  \/ \E o \in Op : Advance(o)
  \/ \E c \in late : KcLate(c)
  \/ Crash

Spec == Init /\ [][Next]_vars

\* Every call returns: an attempt at Keycloak has a timeout, and PostgreSQL
\* answers or the connection breaks.
Fairness == \A o \in Op : WF_vars(Advance(o))

FairSpec == Spec /\ Fairness
-----------------------------------------------------------------------------
(***************************************************************************)
(* Properties.                                                             *)
(***************************************************************************)

\* Every variable keeps its type.
TypeOK ==
  /\ rows \in [TenantID -> Row \cup {NULL}]
  /\ realms \in [Realm -> RealmRep \cup {NULL}]
  /\ op \in [Op -> OpState]
  /\ late \in SUBSET {c \in OpState : Attempting(c)}
  /\ drawn \in SUBSET TenantID

Restamped(r) == [r EXCEPT !.restamped = TRUE]

\* A tenant marked deleted stays as it is: no suspension or enabling that had
\* read its row before changes it after (deleted_at IS NULL in Update).  Only
\* the time of its deletion may be stamped again.
DeletedIsFinal ==
  [][\A t \in TenantID :
       rows[t] # NULL /\ rows[t].deleted
         => rows'[t] \in {rows[t], Restamped(rows[t])}]_vars

\* A live tenant loses its realm only to a deletion of this very tenant or to
\* the rollback of a creation of the same realm.  A deletion that read its
\* row long ago, repeats its DELETE or has it processed late, never hits the
\* realm of a tenant created since: deleted rows keep their names (UNIQUE).
RealmLostOnlyToItsOwner ==
  [][\A t \in TenantID :
       Live(t) /\ realms[rows[t].realm] # NULL /\ realms'[rows[t].realm] = NULL
         => \E c \in {op[o] : o \in {p \in Op : op'[p] # op[p]}} \cup (late \ late') :
              /\ c.pc \in {"drop", "rollback"} /\ c.realm = rows[t].realm
              /\ c.pc = "drop" => c.id = t]_vars

\* A tenant is marked deleted only when the realm made for it is gone, users
\* and all, and it never comes back (if no attempt takes effect late).
DeletedLeavesNoRealm ==
  \A t \in TenantID :
    rows[t] # NULL /\ rows[t].deleted =>
      \A n \in Realm : realms[n] # NULL => realms[n].by # t

\* Every operation ends.
OperationsEnd == \A o \in Op : op[o].pc # "idle" ~> op[o].pc = "idle"

\* Without faults: a live tenant has the realm made for it, unless a deletion
\* of the tenant has got past the realm.
LiveHasRealm ==
  \A t \in TenantID :
    Live(t) =>
      \/ realms[rows[t].realm] # NULL /\ realms[rows[t].realm].by = t
      \/ \E o \in Op : op[o].pc = "softdelete" /\ op[o].id = t

\* Without faults: a realm belongs to a live tenant or to a creation that will
\* yet register it or roll it back.
RealmHasOwner ==
  \A n \in Realm :
    realms[n] # NULL =>
      \/ Live(realms[n].by) /\ rows[realms[n].by].realm = n
      \/ \E o \in Op : /\ op[o].pc \in {"insert", "rollback"}
                       /\ op[o].id = realms[n].by /\ op[o].realm = n

(***************************************************************************)
(* What the callers see: a tenant is there when its row is live and it has *)
(* the realm made for it.                                                  *)
(***************************************************************************)

GrantView ==
  {[id |-> t, realm |-> rows[t].realm, domain |-> rows[t].domain] :
     t \in {u \in TenantID : rows[u] # NULL}}

HasRealm(t) == realms[rows[t].realm] # NULL /\ realms[rows[t].realm].by = t
StatusView(t) ==
  IF rows[t] = NULL THEN "none" ELSE IF Live(t) /\ HasRealm(t) THEN rows[t].status ELSE "closed"

\* The status of a tenant is set when its row is written: the PUT that follows
\* changes nothing a caller reads.
AskView(c) ==
  CASE c.pc \in {"post", "insert", "rollback"} ->
         [kind |-> "create", id |-> c.id, realm |-> c.realm, domain |-> c.domain]
    [] c.pc = "update" -> [kind |-> "status", id |-> c.id, status |-> c.status]
    [] c.pc \in {"drop", "softdelete"} -> [kind |-> "delete", id |-> c.id]
    [] OTHER -> [kind |-> "none"]

Registry == INSTANCE TenantRegistry WITH
  granted <- GrantView,
  status <- [t \in TenantID |-> StatusView(t)],
  ask <- [o \in Op |-> AskView(op[o])]

\* A tenant that callers saw closed, whether it was deleted or lost its realm
\* to a rollback, is closed for good: no retry, no other operation and no
\* restart gives it a new, empty realm (if no attempt takes effect late).
ClosedIsFinal ==
  [][\A t \in TenantID : StatusView(t) = "closed" => StatusView(t)' = "closed"]_vars

\* Without faults every operation is atomic for its caller, as
\* tenant_service.go:5 says, although it takes effect in two stores and others
\* run between its calls: names are given once, a creation is refused only for
\* a reason, a tenant is closed only by its own deletion.
TenantsAtomic == Registry!RegistrySpec

\* With faults (but no attempt that takes effect late) this is left of it: an
\* operation that reports an error may have taken effect, and a creation that
\* fails may close the tenant of its realm. Still names are given once, no
\* closed tenant opens again, and nothing else closes one.
TenantsDurable == Registry!FaultySpec

(***************************************************************************)
(* What the documentation says, and the code does not do.                  *)
(***************************************************************************)

Quiet == \A o \in Op : op[o].pc = "idle"

\* tenant_service.go:156: SuspendTenant suspends a tenant, "preventing logins".
\* Violated between a suspension and an enabling of the same tenant, and when
\* the error of the PUT is dropped.
SuspendedIsDisabled ==
  Quiet => \A t \in TenantID :
             /\ Live(t) /\ rows[t].status = "suspended"
             /\ realms[rows[t].realm] # NULL
             => ~realms[rows[t].realm].on

\* tenant_service.go:5: "every Tenant operation is atomic from the caller's
\* perspective": no realm without a tenant, no tenant without a realm.
\* Violated: a creation that reports failure leaves its realm; the rollback of
\* a creation whose insert took effect leaves the tenant without a realm.
OperationsAtomic ==
  Quiet =>
    /\ \A n \in Realm :
         realms[n] # NULL => \E t \in TenantID : Live(t) /\ rows[t].realm = n
    /\ \A t \in TenantID : Live(t) => realms[rows[t].realm] # NULL
=============================================================================

------------------------- MODULE TenantRegistryProofs -------------------------
(***************************************************************************)
(* TenantLifecycle implements TenantRegistry, the whole of it when nothing *)
(* fails, what is left of it when calls fail and the process dies, for any *)
(* number of operations, tenants, realm names and domains.                 *)
(*                                                                         *)
(* A creation takes effect with its INSERT, which finds the realm made for *)
(* it (Claims), and is refused when it ends without one: at the POST,      *)
(* because a realm of that name has an owner (RealmHasOwner), or after the *)
(* rollback, because a name of it was given before (RollbackReason). The   *)
(* rollback harms no tenant. A deletion takes effect with the realm's, and *)
(* marks the row of a tenant that callers do not see any more. With faults *)
(* neither the insert nor the rollback can be so sure.                     *)
(***************************************************************************)
EXTENDS TenantFaultlessProofs

\* Without faults a creation is rolled back because a row has one of its names.
RollbackReason ==
  \A o \in Op : op[o].pc = "rollback" =>
    \E t \in TenantID : /\ rows[t] # NULL
                        /\ rows[t].realm = op[o].realm \/ rows[t].domain = op[o].domain

LiveStatus == \A t \in TenantID : Live(t) => rows[t].status \in {"active", "suspended"}

BaseInv == PromptInv /\ LiveStatus
ViewInv == OwnInv /\ RollbackReason /\ LiveStatus

LEMMA ViewBase == ViewInv => BaseInv
  BY DEF ViewInv, BaseInv, OwnInv

\* The registry's view of all tenants and of all operations.
StatusOf == [t \in TenantID |-> StatusView(t)]
AskOf == [o \in Op |-> AskView(op[o])]
Silent == [kind |-> "none"]

Visible == Registry!RegistryNext \/ UNCHANGED <<GrantView, StatusOf, AskOf>>
-----------------------------------------------------------------------------
(***************************************************************************)
(* The steps of the registry.                                              *)
(***************************************************************************)
LEMMA AskCreateStep ==
  ASSUME NEW o \in Op, NEW t \in TenantID, NEW n \in Realm, NEW d \in Domain,
         StatusOf[t] = "none", AskOf[o] = Silent,
         \A p \in Op : AskOf[p].kind = "create" => AskOf[p].id # t,
         AskOf' = [AskOf EXCEPT ![o] = [kind |-> "create", id |-> t, realm |-> n, domain |-> d]],
         UNCHANGED <<GrantView, StatusOf>>
  PROVE  Visible
<1>1. Registry!AskCreate(o, t, n, d)
  BY DEF Registry!AskCreate, Registry!Ask, Registry!Nothing, Silent, StatusOf, AskOf
<1> QED BY <1>1 DEF Visible, Registry!RegistryNext

LEMMA RegisterStep ==
  ASSUME NEW o \in Op, NEW t \in TenantID, NEW n \in Realm, NEW d \in Domain,
         AskOf[o] = [kind |-> "create", id |-> t, realm |-> n, domain |-> d],
         \A g \in GrantView : g.realm # n /\ g.domain # d,
         GrantView' = GrantView \cup {[id |-> t, realm |-> n, domain |-> d]},
         StatusOf' = [StatusOf EXCEPT ![t] = "active"],
         AskOf' = [AskOf EXCEPT ![o] = Silent]
  PROVE  Visible
<1>1. Registry!Register(o, t, n, d)
  BY DEF Registry!Register, Registry!Answer, Registry!Nothing, Silent, StatusOf, AskOf
<1> QED BY <1>1 DEF Visible, Registry!RegistryNext

LEMMA RejectStep ==
  ASSUME NEW o \in Op, NEW t \in TenantID, NEW n \in Realm, NEW d \in Domain,
         AskOf[o] = [kind |-> "create", id |-> t, realm |-> n, domain |-> d],
         \/ \E g \in GrantView : g.realm = n \/ g.domain = d
         \/ \E p \in Op \ {o} : AskOf[p].kind = "create" /\ AskOf[p].realm = n,
         AskOf' = [AskOf EXCEPT ![o] = Silent],
         UNCHANGED <<GrantView, StatusOf>>
  PROVE  Visible
<1>1. Registry!Reject(o, t, n, d)
  BY DEF Registry!Reject, Registry!Answer, Registry!Nothing, Silent, StatusOf, AskOf
<1> QED BY <1>1 DEF Visible, Registry!RegistryNext

LEMMA AskStatusStep ==
  ASSUME NEW o \in Op, NEW t \in TenantID, NEW s \in {"active", "suspended"},
         StatusOf[t] # "none", AskOf[o] = Silent,
         AskOf' = [AskOf EXCEPT ![o] = [kind |-> "status", id |-> t, status |-> s]],
         UNCHANGED <<GrantView, StatusOf>>
  PROVE  Visible
<1>1. Registry!AskStatus(o, t, s)
  BY DEF Registry!AskStatus, Registry!Ask, Registry!Nothing, Silent, StatusOf, AskOf
<1> QED BY <1>1 DEF Visible, Registry!RegistryNext

LEMMA WriteStatusStep ==
  ASSUME NEW o \in Op, NEW t \in TenantID, NEW s \in {"active", "suspended"},
         AskOf[o] = [kind |-> "status", id |-> t, status |-> s],
         StatusOf' = IF StatusOf[t] \in {"active", "suspended"}
                     THEN [StatusOf EXCEPT ![t] = s] ELSE StatusOf,
         AskOf' = [AskOf EXCEPT ![o] = Silent],
         UNCHANGED GrantView
  PROVE  Visible
<1>1. Registry!WriteStatus(o, t, s)
  BY DEF Registry!WriteStatus, Registry!Open, Registry!Answer, Registry!Nothing,
         Silent, StatusOf, AskOf
<1> QED BY <1>1 DEF Visible, Registry!RegistryNext

LEMMA AskDeleteStep ==
  ASSUME NEW o \in Op, NEW t \in TenantID,
         StatusOf[t] # "none", AskOf[o] = Silent,
         AskOf' = [AskOf EXCEPT ![o] = [kind |-> "delete", id |-> t]],
         UNCHANGED <<GrantView, StatusOf>>
  PROVE  Visible
<1>1. Registry!AskDelete(o, t)
  BY DEF Registry!AskDelete, Registry!Ask, Registry!Nothing, Silent, StatusOf, AskOf
<1> QED BY <1>1 DEF Visible, Registry!RegistryNext

LEMMA CloseStep ==
  ASSUME NEW o \in Op, NEW t \in TenantID,
         AskOf[o] = [kind |-> "delete", id |-> t],
         StatusOf[t] \in {"active", "suspended"},
         StatusOf' = [StatusOf EXCEPT ![t] = "closed"],
         UNCHANGED <<GrantView, AskOf>>
  PROVE  Visible
<1>1. Registry!Close(o, t)
  BY DEF Registry!Close, Registry!Open, StatusOf, AskOf
<1> QED BY <1>1 DEF Visible, Registry!RegistryNext

LEMMA DeletedStep ==
  ASSUME NEW o \in Op, NEW t \in TenantID,
         AskOf[o] = [kind |-> "delete", id |-> t],
         StatusOf[t] = "closed",
         AskOf' = [AskOf EXCEPT ![o] = Silent],
         UNCHANGED <<GrantView, StatusOf>>
  PROVE  Visible
<1>1. Registry!Deleted(o, t)
  BY DEF Registry!Deleted, Registry!Answer, Registry!Nothing, Silent, StatusOf, AskOf
<1> QED BY <1>1 DEF Visible, Registry!RegistryNext
-----------------------------------------------------------------------------
(***************************************************************************)
(* What steps leave as they see it.                                        *)
(***************************************************************************)
LEMMA AskKinds ==
  ASSUME NEW c \in OpState
  PROVE  /\ OfCreation(c) => AskView(c) = [kind |-> "create", id |-> c.id,
                                           realm |-> c.realm, domain |-> c.domain]
         /\ c.pc = "update" => AskView(c) = [kind |-> "status", id |-> c.id,
                                             status |-> c.status]
         /\ c.pc \in {"drop", "softdelete"} => AskView(c) = [kind |-> "delete", id |-> c.id]
         /\ c.pc \in {"idle", "put"} => AskView(c) = Silent
  BY DEF AskView, OfCreation, Silent

\* An operation moves: its own request is another, the others' are the same.
LEMMA AskMoves ==
  ASSUME PromptInv, NEW o \in Op, NEW s, op' = [op EXCEPT ![o] = s], NEW a, AskView(s) = a
  PROVE  /\ AskOf' = [AskOf EXCEPT ![o] = a]
         /\ AskOf[o] = a => AskOf' = AskOf
<1>1. op'[o] = s /\ \A q \in Op : q # o => op'[q] = op[q]
  BY OneMoves
<1>2. \A q \in Op : AskOf'[q] = IF q = o THEN a ELSE AskOf[q]
  <2> SUFFICES ASSUME NEW q \in Op PROVE AskOf'[q] = IF q = o THEN a ELSE AskOf[q]
    OBVIOUS
  <2>1. AskOf'[q] = AskView(op'[q]) /\ AskOf[q] = AskView(op[q])
    BY DEF AskOf, AskView
  <2> QED BY <1>1, <2>1
<1>3. AskOf' = [q \in Op |-> AskOf'[q]] /\ AskOf = [q \in Op |-> AskOf[q]]
  BY DEF AskOf
<1> QED BY <1>2, <1>3

\* Rows keep their names.
LEMMA GrantsKept ==
  ASSUME \A t \in TenantID : /\ rows'[t] = NULL <=> rows[t] = NULL
                             /\ rows[t] # NULL => /\ rows'[t].realm = rows[t].realm
                                                  /\ rows'[t].domain = rows[t].domain
  PROVE  GrantView' = GrantView
<1> DEFINE G == {t \in TenantID : rows[t] # NULL}
<1>1. G' = G
  OBVIOUS
<1>2. \A t \in G : /\ rows'[t].realm = rows[t].realm
                   /\ rows'[t].domain = rows[t].domain
  OBVIOUS
<1> QED BY <1>1, <1>2 DEF GrantView

LEMMA StatusMoves ==
  ASSUME NEW t \in TenantID, NEW x,
         StatusView(t)' = x,
         \A u \in TenantID : u # t => StatusView(u)' = StatusView(u)
  PROVE  /\ StatusOf' = [StatusOf EXCEPT ![t] = x]
         /\ x = StatusOf[t] => StatusOf' = StatusOf
  BY DEF StatusOf

LEMMA StatusKept ==
  ASSUME \A u \in TenantID : StatusView(u)' = StatusView(u)
  PROVE  StatusOf' = StatusOf
  BY DEF StatusOf

\* The reasons of rollbacks last: no row loses its names.
LEMMA ReasonsKept ==
  ASSUME BaseInv, NEW o \in Op, NEW s, op' = [op EXCEPT ![o] = s],
         \A t \in TenantID : rows[t] # NULL =>
           /\ rows'[t] # NULL /\ rows'[t].realm = rows[t].realm
           /\ rows'[t].domain = rows[t].domain,
         s.pc = "rollback" =>
           \E t \in TenantID : /\ rows'[t] # NULL
                               /\ rows'[t].realm = s.realm \/ rows'[t].domain = s.domain
  PROVE  RollbackReason => RollbackReason'
<1>1. op'[o] = s /\ \A q \in Op : q # o => op'[q] = op[q]
  BY OneMoves DEF BaseInv
<1> SUFFICES ASSUME RollbackReason, NEW q \in Op, op'[q].pc = "rollback"
             PROVE  \E t \in TenantID :
                      /\ rows'[t] # NULL
                      /\ rows'[t].realm = op'[q].realm \/ rows'[t].domain = op'[q].domain
  BY DEF RollbackReason
<1>2. CASE q = o
  BY <1>1, <1>2
<1>3. CASE q # o
  BY <1>1, <1>3 DEF RollbackReason
<1> QED BY <1>2, <1>3
-----------------------------------------------------------------------------
(***************************************************************************)
(* What one step does: it is a step of the registry or invisible, and the  *)
(* reasons and the statuses stay what they are.                            *)
(***************************************************************************)
Refines == Visible /\ (RollbackReason => RollbackReason') /\ LiveStatus'

\* Steps on the records of operations alone.
LEMMA OpStep ==
  ASSUME BaseInv, NEW o \in Op, NEW s, op' = [op EXCEPT ![o] = s], UNCHANGED rows,
         s.pc = "rollback" =>
           \E t \in TenantID : /\ rows[t] # NULL
                               /\ rows[t].realm = s.realm \/ rows[t].domain = s.domain
  PROVE  (RollbackReason => RollbackReason') /\ LiveStatus' /\ UNCHANGED GrantView
<1>1. RollbackReason => RollbackReason'
  BY ReasonsKept
<1>2. LiveStatus'
  BY DEF BaseInv, LiveStatus, Live
<1> QED BY <1>1, <1>2 DEF GrantView

LEMMA ViewUnchanged ==
  ASSUME UNCHANGED <<rows, realms>>
  PROVE  UNCHANGED <<GrantView, StatusOf>>
<1>1. \A u \in TenantID : StatusView(u)' = StatusView(u)
  BY DEF StatusView, Live, HasRealm
<1> QED BY <1>1, StatusKept DEF GrantView

LEMMA StutterRefines ==
  ASSUME BaseInv, UNCHANGED <<rows, realms, op>>
  PROVE  Refines
<1>1. UNCHANGED AskOf
  BY DEF AskOf
<1>2. (RollbackReason => RollbackReason') /\ LiveStatus'
  BY DEF BaseInv, RollbackReason, LiveStatus, Live
<1> QED BY <1>1, <1>2, ViewUnchanged DEF Refines, Visible

\* A step between two calls that nobody sees.
LEMMA InvisibleRefines ==
  ASSUME BaseInv, NEW o \in Op, NEW s, op' = [op EXCEPT ![o] = s], UNCHANGED rows,
         AskView(s) = AskView(op[o]), UNCHANGED StatusOf,
         s.pc = "rollback" =>
           \E t \in TenantID : /\ rows[t] # NULL
                               /\ rows[t].realm = s.realm \/ rows[t].domain = s.domain
  PROVE  Refines
<1>1. AskOf[o] = AskView(op[o])
  BY DEF AskOf
<1>2. UNCHANGED AskOf
  BY <1>1, AskMoves DEF BaseInv
<1> QED BY <1>2, OpStep DEF Refines, Visible

LEMMA CreateTenantRefines ==
  ASSUME BaseInv, NEW o \in Op, NEW t \in TenantID, NEW n \in Realm, NEW d \in Domain,
         CreateTenant(o, t, n, d)
  PROVE  Refines
<1> DEFINE s == [pc |-> "post", id |-> t, realm |-> n, domain |-> d, try |-> 1]
<1>1. /\ op[o].pc = "idle" /\ op' = [op EXCEPT ![o] = s] /\ t \notin drawn
      /\ UNCHANGED <<rows, realms>>
  BY DEF CreateTenant, Goto
<1>2. s.pc # "rollback"
      /\ AskView(s) = [kind |-> "create", id |-> t, realm |-> n, domain |-> d]
  BY DEF AskView
<1> HIDE DEF s
<1>3. AskOf[o] = Silent
  BY <1>1, AskKinds, Typed DEF BaseInv, AskOf
<1>4. StatusOf[t] = "none"
  BY <1>1 DEF StatusOf, StatusView, BaseInv, PromptInv, IInv, RowsDrawn
<1>5. \A p \in Op : AskOf[p].kind = "create" => AskOf[p].id # t
  <2> SUFFICES ASSUME NEW p \in Op, AskOf[p].kind = "create" PROVE AskOf[p].id # t
    OBVIOUS
  <2>1. op[p] \in OpState /\ AskOf[p] = AskView(op[p])
    BY Typed DEF BaseInv, AskOf
  <2>2. OfCreation(op[p])
    BY <2>1, AskKinds, Kinds DEF OfRow, Silent
  <2> QED
    BY <1>1, <2>1, <2>2, AskKinds DEF BaseInv, PromptInv, IInv, CreationAlone
<1>6. AskOf' = [AskOf EXCEPT ![o] = [kind |-> "create", id |-> t, realm |-> n, domain |-> d]]
  BY <1>1, <1>2, AskMoves DEF BaseInv
<1>7. UNCHANGED <<GrantView, StatusOf>>
  BY <1>1, ViewUnchanged
<1>8. Visible
  BY <1>3, <1>4, <1>5, <1>6, <1>7, AskCreateStep
<1> QED BY <1>1, <1>2, <1>8, OpStep DEF Refines

\* A row means a status, of a live tenant its own.
LEMMA StatusOfRow ==
  ASSUME BaseInv, NEW t \in TenantID, rows[t] # NULL
  PROVE  /\ StatusOf[t] \in {"active", "suspended", "closed"}
         /\ StatusOf[t] \in {"active", "suspended"} <=> Live(t) /\ HasRealm(t)
  BY DEF StatusOf, StatusView, BaseInv, LiveStatus

LEMMA SetStatusRefines ==
  ASSUME BaseInv, NEW o \in Op, NEW t \in TenantID, NEW st \in {"active", "suspended"},
         SetStatus(o, t, st)
  PROVE  Refines
<1> DEFINE s == [pc |-> "update", id |-> t, realm |-> rows[t].realm, status |-> st, try |-> 1]
<1>1. op[o].pc = "idle" /\ UNCHANGED <<rows, realms>>
  BY DEF SetStatus
<1>2. CASE Live(t) /\ op' = [op EXCEPT ![o] = s]
  <2>1. s.pc # "rollback" /\ AskView(s) = [kind |-> "status", id |-> t, status |-> st]
    BY DEF AskView
  <2> HIDE DEF s
  <2>2. AskOf[o] = Silent
    BY <1>1, AskKinds, Typed DEF BaseInv, AskOf
  <2>3. StatusOf[t] # "none"
    BY <1>2, StatusOfRow DEF Live
  <2>4. AskOf' = [AskOf EXCEPT ![o] = [kind |-> "status", id |-> t, status |-> st]]
    BY <1>2, <2>1, AskMoves DEF BaseInv
  <2>5. Visible
    BY <1>1, <2>2, <2>3, <2>4, ViewUnchanged, AskStatusStep
  <2> QED BY <1>1, <1>2, <2>1, <2>5, OpStep DEF Refines
<1>3. CASE UNCHANGED op
  BY <1>1, <1>3, StutterRefines
<1> QED BY <1>2, <1>3 DEF SetStatus, Goto

LEMMA DeleteTenantRefines ==
  ASSUME BaseInv, NEW o \in Op, NEW t \in TenantID, DeleteTenant(o, t)
  PROVE  Refines
<1> DEFINE s == [pc |-> "drop", id |-> t, realm |-> rows[t].realm, try |-> 1]
<1>1. op[o].pc = "idle" /\ UNCHANGED <<rows, realms>>
  BY DEF DeleteTenant
<1>2. CASE Live(t) /\ op' = [op EXCEPT ![o] = s]
  <2>1. s.pc # "rollback" /\ AskView(s) = [kind |-> "delete", id |-> t]
    BY DEF AskView
  <2> HIDE DEF s
  <2>2. AskOf[o] = Silent
    BY <1>1, AskKinds, Typed DEF BaseInv, AskOf
  <2>3. StatusOf[t] # "none"
    BY <1>2, StatusOfRow DEF Live
  <2>4. AskOf' = [AskOf EXCEPT ![o] = [kind |-> "delete", id |-> t]]
    BY <1>2, <2>1, AskMoves DEF BaseInv
  <2>5. Visible
    BY <1>1, <2>2, <2>3, <2>4, ViewUnchanged, AskDeleteStep
  <2> QED BY <1>1, <1>2, <2>1, <2>5, OpStep DEF Refines
<1>3. CASE UNCHANGED op
  BY <1>1, <1>3, StutterRefines
<1> QED BY <1>2, <1>3 DEF DeleteTenant, Goto
-----------------------------------------------------------------------------
LEMMA NextOfCreation ==
  ASSUME NEW c \in CreateOp, NEW pc \in {"insert", "rollback"}
  PROVE  /\ NextCall(c, pc).pc = pc /\ NextCall(c, pc).id = c.id
         /\ NextCall(c, pc).realm = c.realm /\ NextCall(c, pc).domain = c.domain
         /\ AskView(NextCall(c, pc)) = AskView(c)
<1> DEFINE s == NextCall(c, pc)
<1>1. /\ s.pc = pc /\ s.id = c.id /\ s.realm = c.realm /\ s.domain = c.domain
  BY DEF CreateOp, NextCall
<1>2. c.pc \in {"post", "insert", "rollback"}
  BY DEF CreateOp
<1> HIDE DEF s
<1>3. AskView(s) = AskView(c)
  BY <1>1, <1>2 DEF AskView
<1> QED BY <1>1, <1>3 DEF s

\* The step shows nothing of a tenant whose realm comes or goes as little as
\* it did.
LEMMA RealmsMoved ==
  ASSUME UNCHANGED rows, \A u \in TenantID : Live(u) => (HasRealm(u)' <=> HasRealm(u))
  PROVE  UNCHANGED StatusOf
<1>1. \A u \in TenantID : StatusView(u)' = StatusView(u)
  BY DEF StatusView, Live
<1> QED BY <1>1, StatusKept

\* A creation that ends without a row.
LEMMA RejectRefines ==
  ASSUME ViewInv, NEW o \in Op, OfCreation(op[o]), op' = [op EXCEPT ![o] = Idle],
         \/ \E t \in TenantID : /\ rows[t] # NULL
                                /\ rows[t].realm = op[o].realm \/ rows[t].domain = op[o].domain
         \/ \E p \in Op \ {o} : OfCreation(op[p]) /\ op[p].realm = op[o].realm,
         UNCHANGED <<rows, StatusOf>>
  PROVE  Refines
<1>1. op[o] \in CreateOp /\ op[o] \in OpState /\ \A p \in Op : op[p] \in OpState
  BY Kinds, Typed DEF ViewInv, OwnInv
<1>2. PICK t \in TenantID, n \in Realm, d \in Domain :
        op[o].id = t /\ op[o].realm = n /\ op[o].domain = d
  BY <1>1 DEF CreateOp
<1>3. AskOf[o] = [kind |-> "create", id |-> t, realm |-> n, domain |-> d]
  BY <1>1, <1>2, AskKinds DEF AskOf
<1>4. Idle.pc # "rollback" /\ AskView(Idle) = Silent
  BY IdleKind, AskKinds
<1>5. AskOf' = [AskOf EXCEPT ![o] = Silent]
  BY <1>4, AskMoves DEF ViewInv, OwnInv
<1>6. \/ \E g \in GrantView : g.realm = n \/ g.domain = d
      \/ \E p \in Op \ {o} : AskOf[p].kind = "create" /\ AskOf[p].realm = n
  <2>1. CASE \E u \in TenantID : rows[u] # NULL /\ (rows[u].realm = n \/ rows[u].domain = d)
    <3>1. PICK u \in TenantID : rows[u] # NULL /\ (rows[u].realm = n \/ rows[u].domain = d)
      BY <2>1
    <3> DEFINE g == [id |-> u, realm |-> rows[u].realm, domain |-> rows[u].domain]
    <3>2. g \in GrantView /\ g.realm = rows[u].realm /\ g.domain = rows[u].domain
      BY <3>1 DEF GrantView
    <3> QED BY <3>1, <3>2
  <2>2. CASE \E p \in Op \ {o} : OfCreation(op[p]) /\ op[p].realm = n
    <3>1. PICK p \in Op \ {o} : OfCreation(op[p]) /\ op[p].realm = n
      BY <2>2
    <3>2. AskOf[p].kind = "create" /\ AskOf[p].realm = n
      BY <1>1, <3>1, AskKinds DEF AskOf
    <3> QED BY <3>2
  <2> QED BY <1>2, <2>1, <2>2
<1>7. UNCHANGED GrantView
  BY DEF GrantView
<1>8. Visible
  BY <1>3, <1>5, <1>6, <1>7, RejectStep
<1> QED BY <1>4, <1>8, OpStep, ViewBase DEF Refines

LEMMA CreateRealmRefines ==
  ASSUME Faults = {}, ViewInv, NEW o \in Op, CreateRealm(o)
  PROVE  Refines
<1>1. op[o].pc = "post" /\ OfCreation(op[o])
  BY DEF CreateRealm, OfCreation
<1>2. op[o] \in CreateOp
  BY <1>1, Kinds, Typed DEF ViewInv, OwnInv
<1>3. PICK n \in Realm, t \in TenantID : op[o].realm = n /\ op[o].id = t
  BY <1>2 DEF CreateOp
<1>4. /\ realms' = Processed(op[o]) /\ UNCHANGED rows
      /\ IF realms[n] = NULL THEN Proceed(o, "insert") ELSE Finish(o)
  BY <1>3 DEF CreateRealm, Attempt
<1>5. CASE realms[n] = NULL
  <2> DEFINE s == NextCall(op[o], "insert")
             r == [on |-> TRUE, by |-> t]
  <2>1. op' = [op EXCEPT ![o] = s] /\ realms' = [realms EXCEPT ![n] = r]
    BY <1>1, <1>3, <1>4, <1>5 DEF Proceed, Goto, Processed
  <2>2. s.pc = "insert" /\ AskView(s) = AskView(op[o])
    BY <1>2, NextOfCreation
  <2>3. r.by = t
    OBVIOUS
  <2>4. rows[t] = NULL
    BY <1>1, <1>3 DEF ViewInv, OwnInv, Unregistered
  <2> HIDE DEF s, r
  <2>5. \A u \in TenantID : Live(u) => (HasRealm(u)' <=> HasRealm(u))
    <3> SUFFICES ASSUME NEW u \in TenantID, Live(u) PROVE HasRealm(u)' <=> HasRealm(u)
      OBVIOUS
    <3>1. rows[u] # NULL /\ u # t /\ rows[u].realm \in Realm
      BY <2>4, Typed DEF Live, ViewInv, OwnInv
    <3>2. \A m \in Realm : realms'[m] = IF m = n THEN r ELSE realms[m]
      BY <2>1 DEF ViewInv, OwnInv, PromptInv, IInv, TypeOK
    <3> QED BY <1>4, <1>5, <2>3, <3>1, <3>2 DEF HasRealm
  <2>6. UNCHANGED StatusOf
    BY <1>4, <2>5, RealmsMoved
  <2> QED BY <1>4, <2>1, <2>2, <2>6, InvisibleRefines, ViewBase
<1>6. CASE realms[n] # NULL
  <2>1. UNCHANGED realms /\ op' = [op EXCEPT ![o] = Idle]
    BY <1>1, <1>3, <1>4, <1>6 DEF Finish, Goto, Processed
  <2>2. \/ \E u \in TenantID : rows[u] # NULL /\ rows[u].realm = n
        \/ \E p \in Op \ {o} : OfCreation(op[p]) /\ op[p].realm = n
    <3>1. PICK u \in TenantID : realms[n].by = u
      BY <1>6, Typed DEF ViewInv, OwnInv
    <3> QED
      BY <1>1, <1>6, <3>1 DEF ViewInv, OwnInv, RealmHasOwner, Live, OfCreation
  <2>3. UNCHANGED StatusOf
    BY <1>4, <2>1, ViewUnchanged
  <2> QED BY <1>1, <1>3, <1>4, <2>1, <2>2, <2>3, RejectRefines
<1> QED BY <1>5, <1>6

\* A rollback deletes no tenant's realm: if the realm is not its own, the name
\* was used up.
LEMMA RollbackRefines ==
  ASSUME Faults = {}, ViewInv, NEW o \in Op, Rollback(o)
  PROVE  Refines
<1>1. op[o].pc = "rollback" /\ OfCreation(op[o])
  BY DEF Rollback, OfCreation
<1>2. PICK n \in Realm, t \in TenantID : op[o].realm = n /\ op[o].id = t
  BY <1>1, Typed DEF ViewInv, OwnInv
<1>3. /\ realms' = [realms EXCEPT ![n] = NULL] /\ UNCHANGED rows
      /\ op' = [op EXCEPT ![o] = Idle]
  BY <1>1, <1>2 DEF Rollback, Attempt, Processed, Finish, Goto
<1>4. Made(n, t) \/ UsedUp(n)
  BY <1>1, <1>2, ClaimsElim DEF ViewInv
<1>5. rows[t] = NULL
  BY <1>1, <1>2 DEF ViewInv, OwnInv, Unregistered
<1>6. \A u \in TenantID : Live(u) => (HasRealm(u)' <=> HasRealm(u))
  <2> SUFFICES ASSUME NEW u \in TenantID, Live(u) PROVE HasRealm(u)' <=> HasRealm(u)
    OBVIOUS
  <2>1. rows[u] # NULL /\ u # t /\ rows[u].realm \in Realm
    BY <1>5, Typed DEF Live, ViewInv, OwnInv
  <2>2. CASE rows[u].realm # n
    BY <1>3, <2>1, <2>2 DEF HasRealm, ViewInv, OwnInv, PromptInv, IInv, TypeOK
  <2>3. CASE rows[u].realm = n
    <3>1. ~Made(n, u)
      <4>1. CASE Made(n, t)
        BY <2>1, <4>1 DEF Made
      <4>2. CASE UsedUp(n)
        BY <2>1, <2>3, <4>2 DEF UsedUp, ViewInv, OwnInv, PromptInv, IInv, OneRowPerRealm
      <4> QED BY <1>4, <4>1, <4>2
    <3>2. realms'[n] = NULL
      BY <1>3 DEF ViewInv, OwnInv, PromptInv, IInv, TypeOK
    <3> QED BY <1>3, <2>3, <3>1, <3>2 DEF HasRealm, Made
  <2> QED BY <2>2, <2>3
<1>7. UNCHANGED StatusOf
  BY <1>3, <1>6, RealmsMoved
<1>8. \E u \in TenantID : /\ rows[u] # NULL
                          /\ rows[u].realm = op[o].realm \/ rows[u].domain = op[o].domain
  BY <1>1 DEF ViewInv, RollbackReason
<1> QED BY <1>1, <1>3, <1>7, <1>8, RejectRefines

\* The row of a creation appears: its tenant is open if it has its realm.
LEMMA RowAppears ==
  ASSUME BaseInv, NEW o \in Op, Create(o), NEW n \in Realm, NEW t \in TenantID, NEW d \in Domain,
         op[o].realm = n, op[o].id = t, op[o].domain = d,
         ~RealmTaken(n), ~DomainTaken(d), InsertRow(o)
  PROVE  /\ \A g \in GrantView : g.realm # n /\ g.domain # d
         /\ GrantView' = GrantView \cup {[id |-> t, realm |-> n, domain |-> d]}
         /\ StatusOf' = [StatusOf EXCEPT ![t] = IF Made(n, t) THEN "active" ELSE "closed"]
         /\ AskOf[o] = [kind |-> "create", id |-> t, realm |-> n, domain |-> d]
         /\ \A u \in TenantID : rows[u] # NULL => rows'[u] = rows[u]
         /\ LiveStatus'
<1> DEFINE row == [realm |-> n, domain |-> d, status |-> "active", deleted |-> FALSE,
                   restamped |-> FALSE]
           g == [id |-> t, realm |-> n, domain |-> d]
<1>1. op[o].pc = "insert" /\ OfCreation(op[o]) /\ op[o] \in OpState /\ UNCHANGED realms
  BY Typed DEF Create, OfCreation, BaseInv
<1>2. rows[t] = NULL
  BY <1>1 DEF BaseInv, PromptInv, IInv, NotInserted
<1>3. /\ row.realm = n /\ row.domain = d /\ row.status = "active" /\ ~row.deleted
      /\ row \in Row
  BY DEF Row, Status
<1>4. rows' = [rows EXCEPT ![t] = row]
  BY DEF InsertRow
<1>5. g = [id |-> t, realm |-> row.realm, domain |-> row.domain]
  BY <1>3
<1> HIDE DEF row
<1>6. row # NULL /\ rows'[t] = row /\ \A u \in TenantID : u # t => rows'[u] = rows[u]
  BY <1>3, <1>4, NullAssumption DEF BaseInv, PromptInv, IInv, TypeOK
<1>7. GrantView' = GrantView \cup {g}
  <2> DEFINE G == {u \in TenantID : rows[u] # NULL}
  <2>1. G' = G \cup {t}
    BY <1>6
  <2>2. \A u \in G : rows'[u] = rows[u]
    BY <1>2, <1>6
  <2>3. GrantView = {[id |-> u, realm |-> rows[u].realm, domain |-> rows[u].domain] : u \in G}
    BY DEF GrantView
  <2>4. GrantView' = {[id |-> u, realm |-> rows'[u].realm, domain |-> rows'[u].domain] : u \in G'}
    BY DEF GrantView
  <2>5. [id |-> t, realm |-> rows'[t].realm, domain |-> rows'[t].domain] = g
    BY <1>5, <1>6
  <2> HIDE DEF G, g
  <2> QED BY <2>1, <2>2, <2>3, <2>4, <2>5
<1>8. \A x \in GrantView : x.realm # n /\ x.domain # d
  BY DEF GrantView, RealmTaken, DomainTaken
<1>9. StatusOf' = [StatusOf EXCEPT ![t] = IF Made(n, t) THEN "active" ELSE "closed"]
  <2>1. StatusView(t)' = IF Made(n, t) THEN "active" ELSE "closed"
    BY <1>1, <1>3, <1>6 DEF StatusView, Live, HasRealm, Made
  <2>2. \A u \in TenantID : u # t => StatusView(u)' = StatusView(u)
    BY <1>1, <1>6 DEF StatusView, Live, HasRealm
  <2> QED BY <2>1, <2>2, StatusMoves
<1>10. AskOf[o] = [kind |-> "create", id |-> t, realm |-> n, domain |-> d]
  <2>1. AskView(op[o]) = [kind |-> "create", id |-> op[o].id,
                          realm |-> op[o].realm, domain |-> op[o].domain]
    BY <1>1, AskKinds
  <2> QED BY <2>1 DEF AskOf
<1>11. LiveStatus'
  BY <1>3, <1>6 DEF BaseInv, LiveStatus, Live
<1>12. \A u \in TenantID : rows[u] # NULL => rows'[u] = rows[u]
  BY <1>2, <1>6
<1>13. GrantView' = GrantView \cup {[id |-> t, realm |-> n, domain |-> d]}
  BY <1>7
<1> HIDE DEF g
<1> QED BY <1>8, <1>9, <1>10, <1>11, <1>12, <1>13

\* An insert finds the realm made for it: a name whose realm is gone would
\* belong to a row, and the insert would fail.
LEMMA CreateRefines ==
  ASSUME Faults = {}, ViewInv, NEW o \in Op, Create(o)
  PROVE  Refines
<1>1. op[o].pc = "insert" /\ OfCreation(op[o]) /\ UNCHANGED realms
  BY DEF Create, OfCreation
<1>2. op[o] \in CreateOp
  BY <1>1, Kinds, Typed DEF ViewInv, OwnInv
<1>3. PICK n \in Realm, t \in TenantID, d \in Domain :
        op[o].realm = n /\ op[o].id = t /\ op[o].domain = d
  BY <1>2 DEF CreateOp
<1>4. CASE ~RealmTaken(n) /\ ~DomainTaken(d) /\ InsertRow(o) /\ Finish(o)
  <2>1. Made(n, t)
    BY <1>1, <1>3, <1>4, ClaimsElim DEF ViewInv, UsedUp, RealmTaken
  <2>2. op' = [op EXCEPT ![o] = Idle] /\ Idle.pc # "rollback" /\ AskView(Idle) = Silent
    BY <1>4, IdleKind, AskKinds DEF Finish, Goto
  <2>3. AskOf' = [AskOf EXCEPT ![o] = Silent]
    BY <2>2, AskMoves DEF ViewInv, OwnInv
  <2>4. Visible
    <3>1. /\ \A g \in GrantView : g.realm # n /\ g.domain # d
          /\ GrantView' = GrantView \cup {[id |-> t, realm |-> n, domain |-> d]}
          /\ StatusOf' = [StatusOf EXCEPT ![t] = IF Made(n, t) THEN "active" ELSE "closed"]
          /\ AskOf[o] = [kind |-> "create", id |-> t, realm |-> n, domain |-> d]
      BY <1>3, <1>4, RowAppears, ViewBase
    <3>2. StatusOf' = [StatusOf EXCEPT ![t] = "active"]
      BY <2>1, <3>1
    <3> QED BY <2>3, <3>1, <3>2, RegisterStep
  <2>5. LiveStatus' /\ \A u \in TenantID : rows[u] # NULL => rows'[u] = rows[u]
    BY <1>3, <1>4, RowAppears, ViewBase
  <2>6. RollbackReason => RollbackReason'
    BY <2>2, <2>5, ReasonsKept, ViewBase
  <2> QED BY <2>4, <2>5, <2>6 DEF Refines
<1>5. CASE (RealmTaken(n) \/ DomainTaken(d)) /\ UNCHANGED rows /\ Proceed(o, "rollback")
  <2> DEFINE s == NextCall(op[o], "rollback")
  <2>1. op' = [op EXCEPT ![o] = s]
    BY <1>5 DEF Proceed, Goto
  <2>2. /\ s.realm = n /\ s.domain = d /\ AskView(s) = AskView(op[o])
    BY <1>2, <1>3, NextOfCreation
  <2> HIDE DEF s
  <2>3. \E u \in TenantID : rows[u] # NULL /\ (rows[u].realm = s.realm \/ rows[u].domain = s.domain)
    BY <1>5, <2>2 DEF RealmTaken, DomainTaken
  <2> QED BY <1>1, <1>5, <2>1, <2>2, <2>3, ViewUnchanged, InvisibleRefines, ViewBase
<1> QED BY <1>3, <1>4, <1>5 DEF Create, Execute
-----------------------------------------------------------------------------
\* The status of a tenant is written in its row, if that is not deleted; a
\* tenant whose realm is gone stays closed.
LEMMA StatusWritten ==
  ASSUME BaseInv, NEW o \in Op, Update(o), WriteStatus(op[o].id, op[o].status),
         NEW s, op' = [op EXCEPT ![o] = s], AskView(s) = Silent, s.pc # "rollback"
  PROVE  Refines
<1>1. op[o].pc = "update" /\ UNCHANGED realms
  BY DEF Update
<1>2. op[o] \in SetOp /\ op[o] \in OpState
  BY <1>1, Kinds, Typed DEF BaseInv
<1>3. PICK t \in TenantID, st \in {"active", "suspended"} : op[o].id = t /\ op[o].status = st
  BY <1>2 DEF SetOp
<1>4. AskOf[o] = [kind |-> "status", id |-> t, status |-> st]
  BY <1>1, <1>2, <1>3, AskKinds DEF AskOf
<1>5. AskOf' = [AskOf EXCEPT ![o] = Silent]
  BY AskMoves DEF BaseInv
<1>6. CASE Live(t)
  <2> DEFINE row == [rows[t] EXCEPT !.status = st]
  <2>1. rows' = [rows EXCEPT ![t] = row]
    BY <1>3, <1>6 DEF WriteStatus
  <2>2. rows[t] \in Row /\ rows[t] # NULL
    BY <1>6 DEF Live, BaseInv, PromptInv, IInv, TypeOK
  <2>3. /\ row.realm = rows[t].realm /\ row.domain = rows[t].domain
        /\ row.status = st /\ row.deleted = rows[t].deleted /\ row \in Row
    BY <2>2 DEF Row, Status
  <2>4. row # NULL
    BY <2>3, NullAssumption
  <2> HIDE DEF row
  <2>5. rows'[t] = row /\ \A u \in TenantID : u # t => rows'[u] = rows[u]
    BY <2>1 DEF BaseInv, PromptInv, IInv, TypeOK
  <2>6. \A u \in TenantID : /\ rows'[u] = NULL <=> rows[u] = NULL
                            /\ rows[u] # NULL => /\ rows'[u].realm = rows[u].realm
                                                 /\ rows'[u].domain = rows[u].domain
    BY <2>2, <2>3, <2>4, <2>5
  <2>7. GrantView' = GrantView
    BY <2>6, GrantsKept
  <2>8. \A u \in TenantID : u # t => StatusView(u)' = StatusView(u)
    BY <1>1, <2>5 DEF StatusView, Live, HasRealm
  <2>9. HasRealm(t)' <=> HasRealm(t)
    BY <1>1, <2>3, <2>5 DEF HasRealm
  <2>10. Live(t)'
    BY <1>6, <2>3, <2>4, <2>5 DEF Live
  <2>11. StatusOf' = IF StatusOf[t] \in {"active", "suspended"}
                     THEN [StatusOf EXCEPT ![t] = st] ELSE StatusOf
    <3>1. CASE HasRealm(t)
      <4>1. StatusView(t)' = st
        BY <2>3, <2>4, <2>5, <2>9, <2>10, <3>1 DEF StatusView
      <4> QED BY <1>6, <2>2, <2>8, <3>1, <4>1, StatusMoves, StatusOfRow
    <3>2. CASE ~HasRealm(t)
      <4>1. StatusView(t)' = "closed" /\ StatusView(t) = "closed"
        BY <2>2, <2>4, <2>5, <2>9, <3>2 DEF StatusView
      <4>2. StatusOf' = StatusOf
        BY <2>8, <4>1, StatusKept
      <4> QED BY <2>2, <3>2, <4>2, StatusOfRow
    <3> QED BY <3>1, <3>2
  <2>12. Visible
    BY <1>4, <1>5, <2>7, <2>11, WriteStatusStep
  <2>13. RollbackReason => RollbackReason'
    BY <2>6, ReasonsKept
  <2>14. LiveStatus'
    BY <2>3, <2>5 DEF BaseInv, LiveStatus, Live
  <2> QED BY <2>12, <2>13, <2>14 DEF Refines
<1>7. CASE ~Live(t)
  <2>1. UNCHANGED rows
    BY <1>3, <1>7 DEF WriteStatus
  <2>2. UNCHANGED <<GrantView, StatusOf>>
    BY <1>1, <2>1, ViewUnchanged
  <2>3. StatusOf[t] \notin {"active", "suspended"}
    BY <1>7 DEF StatusOf, StatusView
  <2>4. Visible
    BY <1>4, <1>5, <2>2, <2>3, WriteStatusStep
  <2> QED BY <2>1, <2>4, OpStep DEF Refines
<1> QED BY <1>6, <1>7

LEMMA NextOfUpdate ==
  ASSUME BaseInv, NEW o \in Op, op[o].pc = "update"
  PROVE  NextCall(op[o], "put").pc = "put" /\ AskView(NextCall(op[o], "put")) = Silent
<1>1. NextCall(op[o], "put") \in OpState /\ NextCall(op[o], "put").pc = "put"
  BY NextCallType, Typed DEF BaseInv
<1> QED BY <1>1, AskKinds

LEMMA UpdateRefines ==
  ASSUME Faults = {}, ViewInv, NEW o \in Op, Update(o)
  PROVE  Refines
<1>1. /\ op[o].pc = "update" /\ op' = [op EXCEPT ![o] = NextCall(op[o], "put")]
      /\ WriteStatus(op[o].id, op[o].status)
  BY DEF Update, Execute, Proceed, Goto
<1> QED BY <1>1, NextOfUpdate, StatusWritten, ViewBase

LEMMA UpdateRealmRefines ==
  ASSUME Faults = {}, ViewInv, NEW o \in Op, UpdateRealm(o)
  PROVE  Refines
<1>1. /\ op[o].pc = "put" /\ realms' = Processed(op[o]) /\ UNCHANGED rows
      /\ op' = [op EXCEPT ![o] = Idle] /\ op[o] \in OpState
  BY Typed DEF UpdateRealm, Attempt, Finish, Goto, ViewInv, OwnInv
<1>2. \A n \in Realm : /\ realms'[n] = NULL <=> realms[n] = NULL
                       /\ realms[n] # NULL => realms'[n].by = realms[n].by
  BY <1>1, ProcessedEffect DEF Attempting, ViewInv, OwnInv, PromptInv, IInv
<1>3. \A u \in TenantID : Live(u) => (HasRealm(u)' <=> HasRealm(u))
  BY <1>1, <1>2, Typed DEF Live, HasRealm, ViewInv, OwnInv
<1>4. UNCHANGED StatusOf
  BY <1>1, <1>3, RealmsMoved
<1>5. Idle.pc # "rollback" /\ AskView(Idle) = AskView(op[o])
  BY <1>1, IdleKind, AskKinds
<1> QED BY <1>1, <1>4, <1>5, InvisibleRefines, ViewBase
-----------------------------------------------------------------------------
\* A realm's deletion closes the tenant whose row has it, if that is open, and
\* no other: rows of other tenants have other realms.
LEMMA DropSeen ==
  ASSUME BaseInv, UNCHANGED rows, NEW n \in Realm, realms' = [realms EXCEPT ![n] = NULL]
  PROVE  \/ UNCHANGED StatusOf
         \/ \E t \in TenantID :
              /\ rows[t] # NULL /\ rows[t].realm = n
              /\ StatusOf[t] \in {"active", "suspended"}
              /\ StatusOf' = [StatusOf EXCEPT ![t] = "closed"]
<1>1. realms'[n] = NULL /\ \A m \in Realm : m # n => realms'[m] = realms[m]
  BY DEF BaseInv, PromptInv, IInv, TypeOK
<1>2. ASSUME NEW u \in TenantID, rows[u] = NULL \/ rows[u].realm # n
      PROVE  StatusView(u)' = StatusView(u)
  <2>1. rows[u] # NULL => rows[u].realm \in Realm /\ realms'[rows[u].realm] = realms[rows[u].realm]
    BY <1>1, <1>2, Typed DEF BaseInv
  <2> QED BY <2>1 DEF StatusView, Live, HasRealm
<1>3. CASE \A t \in TenantID : rows[t] = NULL \/ rows[t].realm # n
  BY <1>2, <1>3, StatusKept
<1>4. ASSUME NEW t \in TenantID, rows[t] # NULL, rows[t].realm = n
      PROVE  \/ UNCHANGED StatusOf
             \/ /\ StatusOf[t] \in {"active", "suspended"}
                /\ StatusOf' = [StatusOf EXCEPT ![t] = "closed"]
  <2>1. \A u \in TenantID : u # t => StatusView(u)' = StatusView(u)
    BY <1>2, <1>4 DEF BaseInv, PromptInv, IInv, OneRowPerRealm
  <2>2. StatusView(t)' = "closed"
    BY <1>1, <1>4 DEF StatusView, HasRealm
  <2> QED BY <1>4, <2>1, <2>2, StatusMoves, StatusOfRow
<1> QED BY <1>3, <1>4

\* A deletion that has dropped the realm, and asks for the same.
LEMMA NextOfDrop ==
  ASSUME BaseInv, NEW o \in Op, op[o].pc = "drop"
  PROVE  /\ NextCall(op[o], "softdelete").pc = "softdelete"
         /\ AskView(NextCall(op[o], "softdelete")) = AskView(op[o])
<1> DEFINE s == NextCall(op[o], "softdelete")
<1>1. op[o] \in OpState
  BY Typed DEF BaseInv
<1>2. s.pc = "softdelete" /\ s \in OpState /\ s.id = op[o].id
  BY <1>1, NextCallType, IdleKind DEF Moves, OfRow, OfCreation
<1> HIDE DEF s
<1>3. AskView(s) = AskView(op[o])
  BY <1>1, <1>2, AskKinds
<1> QED BY <1>2, <1>3 DEF s

LEMMA AskOfDrop ==
  ASSUME BaseInv, NEW o \in Op, op[o].pc \in {"drop", "softdelete"}
  PROVE  \E t \in TenantID :
           /\ op[o].id = t /\ rows[t] # NULL /\ rows[t].realm = op[o].realm
           /\ AskOf[o] = [kind |-> "delete", id |-> t]
<1>1. op[o] \in OpState
  BY Typed DEF BaseInv
<1>2. PICK t \in TenantID : op[o].id = t
  BY <1>1, Kinds
<1>3. rows[t] # NULL /\ rows[t].realm = op[o].realm
  BY <1>2 DEF BaseInv, PromptInv, IInv, OpsKnowRow, KnowsRow, OfRow
<1>4. AskOf[o] = [kind |-> "delete", id |-> t]
  BY <1>1, <1>2, AskKinds DEF AskOf
<1> QED BY <1>2, <1>3, <1>4

LEMMA DeleteRealmRefines ==
  ASSUME Faults = {}, ViewInv, NEW o \in Op, DeleteRealm(o)
  PROVE  Refines
<1> DEFINE s == NextCall(op[o], "softdelete")
<1>1. op[o].pc = "drop" /\ UNCHANGED rows /\ op' = [op EXCEPT ![o] = s]
  BY DEF DeleteRealm, Attempt, Proceed, Goto
<1>2. s.pc # "rollback" /\ AskView(s) = AskView(op[o])
  BY <1>1, NextOfDrop, ViewBase
<1> HIDE DEF s
<1>3. PICK t \in TenantID, n \in Realm :
        /\ op[o].id = t /\ op[o].realm = n /\ rows[t] # NULL /\ rows[t].realm = n
        /\ AskOf[o] = [kind |-> "delete", id |-> t]
  BY <1>1, AskOfDrop, ViewBase, Typed DEF ViewInv, OwnInv
<1>4. realms' = [realms EXCEPT ![n] = NULL]
  BY <1>1, <1>3 DEF DeleteRealm, Attempt, Processed
<1>5. CASE UNCHANGED StatusOf
  BY <1>1, <1>2, <1>5, InvisibleRefines, ViewBase
<1>6. ASSUME NEW u \in TenantID, rows[u] # NULL, rows[u].realm = n,
             StatusOf[u] \in {"active", "suspended"},
             StatusOf' = [StatusOf EXCEPT ![u] = "closed"]
      PROVE  Refines
  <2>1. u = t
    BY <1>3, <1>6 DEF ViewInv, OwnInv, PromptInv, IInv, OneRowPerRealm
  <2>2. UNCHANGED AskOf
    BY <1>1, <1>2, AskMoves DEF AskOf, ViewInv, OwnInv
  <2>3. Visible
    BY <1>1, <1>3, <1>6, <2>1, <2>2, CloseStep DEF GrantView
  <2> QED BY <1>1, <1>2, <2>3, OpStep, ViewBase DEF Refines
<1> QED BY <1>1, <1>4, <1>5, <1>6, DropSeen, ViewBase

\* The row that is marked is of a tenant closed before.
LEMMA MarkSeen ==
  ASSUME BaseInv, NEW o \in Op, SoftDelete(o), MarkDeleted(op[o].id)
  PROVE  /\ UNCHANGED <<GrantView, StatusOf>> /\ LiveStatus'
         /\ StatusOf[op[o].id] = "closed"
         /\ \A u \in TenantID : rows[u] # NULL =>
              /\ rows'[u] # NULL /\ rows'[u].realm = rows[u].realm
              /\ rows'[u].domain = rows[u].domain
<1>1. op[o].pc = "softdelete" /\ UNCHANGED realms
  BY DEF SoftDelete
<1>2. PICK t \in TenantID : op[o].id = t /\ rows[t] # NULL
  BY <1>1, AskOfDrop
<1>3. rows[t] \in Row
  BY <1>2 DEF BaseInv, PromptInv, IInv, TypeOK
<1> DEFINE row == Marked(rows[t])
<1>4. row.realm = rows[t].realm /\ row.domain = rows[t].domain /\ row.deleted
  BY <1>3, MarkedRow
<1>5. row # NULL
  BY <1>3, MarkedRow, NullAssumption
<1>6. rows'[t] = row /\ \A u \in TenantID : u # t => rows'[u] = rows[u]
  BY <1>2 DEF MarkDeleted, BaseInv, PromptInv, IInv, TypeOK
<1> HIDE DEF row
<1>7. \A u \in TenantID : /\ rows'[u] = NULL <=> rows[u] = NULL
                          /\ rows[u] # NULL => /\ rows'[u].realm = rows[u].realm
                                               /\ rows'[u].domain = rows[u].domain
  BY <1>2, <1>4, <1>5, <1>6
<1>8. UNCHANGED GrantView
  BY <1>7, GrantsKept
<1>9. ~HasRealm(t)
  BY <1>1, <1>2, Typed DEF HasRealm, BaseInv, PromptInv, Dropped
<1>10. StatusView(t) = "closed" /\ StatusView(t)' = "closed"
  BY <1>2, <1>4, <1>5, <1>6, <1>9 DEF StatusView, Live
<1>11. \A u \in TenantID : u # t => StatusView(u)' = StatusView(u)
  BY <1>1, <1>6 DEF StatusView, Live, HasRealm
<1>12. UNCHANGED StatusOf /\ StatusOf[t] = "closed"
  BY <1>10, <1>11, StatusKept DEF StatusOf
<1>13. LiveStatus'
  BY <1>4, <1>6 DEF BaseInv, LiveStatus, Live
<1> QED BY <1>2, <1>7, <1>8, <1>12, <1>13

LEMMA SoftDeleteRefines ==
  ASSUME Faults = {}, ViewInv, NEW o \in Op, SoftDelete(o)
  PROVE  Refines
<1>1. /\ op[o].pc = "softdelete" /\ op' = [op EXCEPT ![o] = Idle]
      /\ MarkDeleted(op[o].id)
  BY DEF SoftDelete, Execute, Finish, Goto
<1>2. Idle.pc # "rollback" /\ AskView(Idle) = Silent
  BY IdleKind, AskKinds
<1>3. PICK t \in TenantID : op[o].id = t /\ AskOf[o] = [kind |-> "delete", id |-> t]
  BY <1>1, AskOfDrop, ViewBase
<1>4. AskOf' = [AskOf EXCEPT ![o] = Silent]
  BY <1>1, <1>2, AskMoves DEF ViewInv, OwnInv
<1>5. Visible
  BY <1>1, <1>3, <1>4, MarkSeen, ViewBase, DeletedStep
<1>6. RollbackReason => RollbackReason'
  BY <1>1, <1>2, MarkSeen, ReasonsKept, ViewBase
<1> QED BY <1>1, <1>5, <1>6, MarkSeen, ViewBase DEF Refines
-----------------------------------------------------------------------------
LEMMA RegistryStarts == Init => Registry!RegistryInit
<1> SUFFICES ASSUME Init PROVE Registry!RegistryInit
  OBVIOUS
<1>1. GrantView = {}
  BY DEF Init, GrantView
<1>2. StatusOf = [t \in TenantID |-> "none"]
  BY DEF Init, StatusOf, StatusView
<1>3. AskOf = [o \in Op |-> Silent]
  BY DEF Init, AskOf, AskView, Idle, Silent
<1> QED
  BY <1>1, <1>2, <1>3 DEF Registry!RegistryInit, Registry!Nothing, StatusOf, AskOf, Silent

LEMMA ViewInit == ASSUME Faults = {} PROVE Init => ViewInv /\ Registry!RegistryInit
<1> SUFFICES ASSUME Init PROVE ViewInv /\ Registry!RegistryInit
  OBVIOUS
<1>1. OwnInv
  BY OwnInit
<1>2. RollbackReason /\ LiveStatus
  BY DEF Init, RollbackReason, LiveStatus, Live, Idle
<1> QED BY <1>1, <1>2, RegistryStarts DEF ViewInv

LEMMA ViewStep ==
  ASSUME Faults = {}, ViewInv, [Next]_vars
  PROVE  ViewInv' /\ [Registry!RegistryNext]_(Registry!registryVars)
<1>1. OwnInv'
  BY OwnStep DEF ViewInv
<1>2. Refines
  <2>1. CASE UNCHANGED vars
    BY <2>1, StutterRefines, ViewBase DEF vars
  <2>2. ASSUME NEW o \in Op, Advance(o)
        PROVE  Refines
    BY <2>2, CreateRealmRefines, CreateRefines, RollbackRefines, UpdateRefines,
       UpdateRealmRefines, DeleteRealmRefines, SoftDeleteRefines DEF Advance
  <2>3. ~Crash /\ \A c \in late : ~KcLate(c)
    BY DEF Crash, ViewInv, OwnInv, PromptInv
  <2> QED
    BY <2>1, <2>2, <2>3, CreateTenantRefines, ViewBase, SetStatusRefines,
       DeleteTenantRefines
    DEF Next, SuspendTenant, EnableTenant
<1>3. [Registry!RegistryNext]_(Registry!registryVars)
  BY <1>2 DEF Refines, Visible, Registry!registryVars, StatusOf, AskOf
<1> QED BY <1>1, <1>2, <1>3 DEF ViewInv, Refines

\* When nothing fails, tenants are one registry to their callers: a creation
\* takes effect at one instant or not at all and is refused only for a reason,
\* names are given once, and a tenant is closed only by its own deletion,
\* whatever operations run at once on the two stores.
THEOREM TenantsAtomicHolds ==
  ASSUME Faults = {}
  PROVE  Spec => TenantsAtomic
<1>1. Init => ViewInv /\ Registry!RegistryInit
  BY ViewInit
<1>2. ViewInv /\ [Next]_vars => ViewInv' /\ [Registry!RegistryNext]_(Registry!registryVars)
  BY ViewStep
<1> QED BY <1>1, <1>2, PTL DEF Spec, TenantsAtomic, Registry!RegistrySpec
-----------------------------------------------------------------------------
(***************************************************************************)
(* What is left of it when calls fail and the process dies, and no attempt *)
(* takes effect late. A creation may insert the row of a realm that it has *)
(* lost, and roll back the realm of a tenant that lives.                   *)
(***************************************************************************)
FaultyVisible == Registry!FaultyNext \/ UNCHANGED <<GrantView, StatusOf, AskOf>>
FaultyRefines == FaultyVisible /\ LiveStatus'

LEMMA RefinesFaulty == Refines => FaultyRefines
  BY DEF Refines, FaultyRefines, Visible, FaultyVisible, Registry!FaultyNext

LEMMA FailStep ==
  ASSUME NEW o \in Op, UNCHANGED <<GrantView, StatusOf>>,
         AskOf' \in {AskOf, [AskOf EXCEPT ![o] = Silent]}
  PROVE  FaultyVisible
<1>1. CASE AskOf' = [AskOf EXCEPT ![o] = Silent]
  <2>1. Registry!Fail(o)
    BY <1>1 DEF Registry!Fail, Registry!Answer, Registry!Nothing, Silent, StatusOf, AskOf
  <2> QED BY <2>1 DEF FaultyVisible, Registry!FaultyNext
<1>2. CASE AskOf' = AskOf
  BY <1>2 DEF FaultyVisible
<1> QED BY <1>1, <1>2

LEMMA TornStep ==
  ASSUME NEW o \in Op, NEW t \in TenantID, NEW n \in Realm, NEW d \in Domain,
         AskOf[o] = [kind |-> "create", id |-> t, realm |-> n, domain |-> d],
         \A g \in GrantView : g.realm # n /\ g.domain # d,
         GrantView' = GrantView \cup {[id |-> t, realm |-> n, domain |-> d]},
         \/ StatusOf' = [StatusOf EXCEPT ![t] = "active"]
         \/ StatusOf' = [StatusOf EXCEPT ![t] = "closed"],
         AskOf' \in {AskOf, [AskOf EXCEPT ![o] = Silent]}
  PROVE  FaultyVisible
<1>1. Registry!RegisterTorn(o, t, n, d)
  BY DEF Registry!RegisterTorn, Registry!Answer, Registry!Nothing, Silent, StatusOf, AskOf
<1> QED BY <1>1 DEF FaultyVisible, Registry!FaultyNext

LEMMA LoseStep ==
  ASSUME NEW o \in Op, NEW t \in TenantID,
         StatusOf[t] \in {"active", "suspended"},
         \/ AskOf[o] = [kind |-> "delete", id |-> t]
         \/ \E g \in GrantView : /\ g.id = t /\ AskOf[o].kind = "create"
                                 /\ AskOf[o].realm = g.realm,
         StatusOf' = [StatusOf EXCEPT ![t] = "closed"],
         AskOf' \in {AskOf, [AskOf EXCEPT ![o] = Silent]},
         UNCHANGED GrantView
  PROVE  FaultyVisible
<1>1. Registry!Lose(o, t)
  BY DEF Registry!Lose, Registry!Open, Registry!Answer, Registry!Nothing,
         Silent, StatusOf, AskOf
<1> QED BY <1>1 DEF FaultyVisible, Registry!FaultyNext

\* An operation asks on, or does not ask any more.
LEMMA AskSettles ==
  ASSUME BaseInv, NEW o \in Op, NEW s, op' = [op EXCEPT ![o] = s],
         AskView(s) \in {AskView(op[o]), Silent}
  PROVE  AskOf' \in {AskOf, [AskOf EXCEPT ![o] = Silent]}
<1>1. CASE AskView(s) = Silent
  BY <1>1, AskMoves DEF BaseInv
<1>2. CASE AskView(s) = AskView(op[o])
  <2>1. AskOf[o] = AskView(op[o])
    BY DEF AskOf
  <2> QED BY <1>2, <2>1, AskMoves DEF BaseInv
<1> QED BY <1>1, <1>2

LEMMA TryAgainAsks ==
  ASSUME BaseInv, NEW o \in Op, Attempting(op[o]), TryAgain(o)
  PROVE  \E s : op' = [op EXCEPT ![o] = s] /\ AskView(s) \in {AskView(op[o]), Silent}
<1> DEFINE c == op[o]
           s == [c EXCEPT !.try = @ + 1]
<1>1. c \in OpState
  BY Typed DEF BaseInv
<1>2. CASE op[o].try < MaxAttempts
  <2>1. op' = [op EXCEPT ![o] = s]
    BY <1>2 DEF TryAgain, Goto
  <2>2. c \in CreateOp \/ c \in SetOp \/ c \in DeleteOp
    BY <1>1, Kinds DEF Attempting, OfCreation
  <2>3. s.pc = c.pc /\ s.id = c.id /\ s.realm = c.realm
    BY <2>2 DEF CreateOp, SetOp, DeleteOp
  <2>4. c \in CreateOp => s.domain = c.domain
    BY DEF CreateOp
  <2>5. c.pc # "update" /\ (c.pc \in {"post", "rollback"} => c \in CreateOp)
    BY <1>1, Kinds DEF Attempting, OfCreation
  <2> HIDE DEF s
  <2>6. AskView(s) = AskView(c)
    BY <2>3, <2>4, <2>5 DEF AskView, Attempting
  <2> QED BY <2>1, <2>6
<1>3. CASE ~(op[o].try < MaxAttempts)
  <2>1. op' = [op EXCEPT ![o] = Idle]
    BY <1>3 DEF TryAgain, Finish, Goto
  <2> QED BY <2>1, IdleKind, AskKinds
<1> QED BY <1>2, <1>3

LEMMA AttemptAsks ==
  ASSUME "late" \notin Faults, BaseInv, NEW o \in Op,
         CreateRealm(o) \/ Rollback(o) \/ UpdateRealm(o) \/ DeleteRealm(o)
  PROVE  /\ \E s : op' = [op EXCEPT ![o] = s] /\ AskView(s) \in {AskView(op[o]), Silent}
         /\ realms' \in {realms, Processed(op[o])} /\ UNCHANGED rows
<1> DEFINE Settles == \E s : op' = [op EXCEPT ![o] = s] /\ AskView(s) \in {AskView(op[o]), Silent}
<1>1. Attempting(op[o]) /\ realms' \in {realms, Processed(op[o])} /\ UNCHANGED rows
  BY AttemptStep DEF BaseInv, PromptInv, IInv
<1>2. ASSUME Finish(o) PROVE Settles
  <2>1. op' = [op EXCEPT ![o] = Idle]
    BY <1>2 DEF Finish, Goto
  <2> QED BY <2>1, IdleKind, AskKinds
<1>3. ASSUME TryAgain(o) PROVE Settles
  BY <1>1, <1>3, TryAgainAsks
<1>4. ASSUME op[o].pc = "post", Proceed(o, "insert") PROVE Settles
  <2>1. op' = [op EXCEPT ![o] = NextCall(op[o], "insert")] /\ op[o] \in CreateOp
    BY <1>4, Kinds, Typed DEF Proceed, Goto, BaseInv, OfCreation
  <2>2. AskView(NextCall(op[o], "insert")) = AskView(op[o])
    BY <2>1, NextOfCreation
  <2> QED BY <2>1, <2>2
<1>5. ASSUME op[o].pc = "drop", Proceed(o, "softdelete") PROVE Settles
  <2>1. op' = [op EXCEPT ![o] = NextCall(op[o], "softdelete")]
    BY <1>5 DEF Proceed, Goto
  <2> QED BY <1>5, <2>1, NextOfDrop
<1> HIDE DEF Settles
<1>6. Settles
  <2>1. CASE CreateRealm(o)
    BY <1>2, <1>3, <1>4, <2>1 DEF CreateRealm, Attempt
  <2>2. CASE Rollback(o) \/ UpdateRealm(o)
    BY <1>2, <1>3, <2>2 DEF Rollback, UpdateRealm, Attempt
  <2>3. CASE DeleteRealm(o)
    BY <1>2, <1>3, <1>5, <2>3 DEF DeleteRealm, Attempt
  <2> QED BY <2>1, <2>2, <2>3
<1> QED BY <1>1, <1>6 DEF Settles

\* The stores show nothing; the caller may be told of an error.
LEMMA QuietRefines ==
  ASSUME BaseInv, NEW o \in Op, NEW s, op' = [op EXCEPT ![o] = s],
         AskView(s) \in {AskView(op[o]), Silent}, UNCHANGED <<rows, StatusOf>>
  PROVE  FaultyRefines
<1>1. UNCHANGED GrantView /\ LiveStatus'
  BY DEF GrantView, BaseInv, LiveStatus, Live
<1> QED BY <1>1, AskSettles, FailStep DEF FaultyRefines

\* A realm is made for a tenant that has no row yet; a PUT leaves realms to
\* their tenants.
LEMMA RealmsKept ==
  ASSUME BaseInv, NEW o \in Op, op[o].pc \in {"post", "put"},
         realms' = Processed(op[o]), UNCHANGED rows
  PROVE  UNCHANGED StatusOf
<1>1. op[o] \in OpState /\ Attempting(op[o]) /\ TypeOK
  BY Typed DEF BaseInv, Attempting, PromptInv, IInv
<1>2. ASSUME NEW u \in TenantID, Live(u), NEW m \in Realm, rows[u].realm = m
      PROVE  HasRealm(u)' <=> HasRealm(u)
  <2>1. rows[u] # NULL
    BY <1>2 DEF Live
  <2>2. Made(m, u)' => Made(m, u)
    BY <1>1, <2>1, NoNewRealm DEF BaseInv
  <2>3. Made(m, u) => Made(m, u)'
    <3>1. CASE op[o].pc = "post"
      <4>1. realms[m] # NULL => realms'[m] = realms[m]
        BY <1>1, <3>1 DEF Processed, TypeOK
      <4> QED BY <4>1 DEF Made
    <3>2. CASE op[o].pc = "put"
      BY <1>1, <3>2, ProcessedEffect DEF Made
    <3> QED BY <3>1, <3>2
  <2> QED BY <1>2, <2>2, <2>3 DEF HasRealm, Made
<1>3. \A u \in TenantID : Live(u) => (HasRealm(u)' <=> HasRealm(u))
  BY <1>2, Typed DEF BaseInv, Live
<1> QED BY <1>3, RealmsMoved
-----------------------------------------------------------------------------
LEMMA AttemptRefines ==
  ASSUME "late" \notin Faults, BaseInv, NEW o \in Op,
         CreateRealm(o) \/ Rollback(o) \/ UpdateRealm(o) \/ DeleteRealm(o)
  PROVE  FaultyRefines
<1>1. PICK s : op' = [op EXCEPT ![o] = s] /\ AskView(s) \in {AskView(op[o]), Silent}
  BY AttemptAsks
<1>2. realms' \in {realms, Processed(op[o])} /\ UNCHANGED rows
  BY AttemptAsks
<1>3. CASE UNCHANGED StatusOf
  BY <1>1, <1>2, <1>3, QuietRefines
<1>4. CASE realms' = realms
  BY <1>2, <1>3, <1>4, ViewUnchanged
<1>5. CASE op[o].pc \in {"post", "put"} /\ realms' = Processed(op[o])
  BY <1>2, <1>3, <1>5, RealmsKept
<1>6. CASE op[o].pc \in {"rollback", "drop"} /\ realms' = Processed(op[o])
  <2>1. PICK n \in Realm : op[o].realm = n
    BY <1>6, Typed DEF BaseInv
  <2>2. realms' = [realms EXCEPT ![n] = NULL]
    BY <1>6, <2>1 DEF Processed
  <2>3. UNCHANGED GrantView /\ LiveStatus'
    BY <1>2 DEF GrantView, BaseInv, LiveStatus, Live
  <2>4. AskOf' \in {AskOf, [AskOf EXCEPT ![o] = Silent]}
    BY <1>1, AskSettles
  <2>5. ASSUME NEW t \in TenantID, rows[t] # NULL, rows[t].realm = n,
               StatusOf[t] \in {"active", "suspended"},
               StatusOf' = [StatusOf EXCEPT ![t] = "closed"]
        PROVE  FaultyRefines
    <3>1. CASE op[o].pc = "drop"
      <4>1. AskOf[o] = [kind |-> "delete", id |-> t]
        BY <2>1, <2>5, <3>1, AskOfDrop DEF BaseInv, PromptInv, IInv, OneRowPerRealm
      <4> QED BY <2>3, <2>4, <2>5, <4>1, LoseStep DEF FaultyRefines
    <3>2. CASE op[o].pc = "rollback"
      <4>1. AskOf[o].kind = "create" /\ AskOf[o].realm = n
        BY <2>1, <3>2, AskKinds, Typed DEF AskOf, OfCreation, BaseInv
      <4>2. \E g \in GrantView : g.id = t /\ g.realm = n
        <5> DEFINE g == [id |-> t, realm |-> rows[t].realm, domain |-> rows[t].domain]
        <5>1. g \in GrantView
          BY <2>5 DEF GrantView
        <5>2. g.id = t /\ g.realm = n
          BY <2>5
        <5> QED BY <5>1, <5>2
      <4> QED BY <2>3, <2>4, <2>5, <4>1, <4>2, LoseStep DEF FaultyRefines
    <3> QED BY <1>6, <3>1, <3>2
  <2> QED BY <1>2, <1>3, <2>2, <2>5, DropSeen
<1>7. op[o].pc \in {"post", "put", "rollback", "drop"}
  BY DEF CreateRealm, Rollback, UpdateRealm, DeleteRealm
<1> QED BY <1>2, <1>4, <1>5, <1>6, <1>7

LEMMA CreateFaulty ==
  ASSUME BaseInv, NEW o \in Op, Create(o)
  PROVE  FaultyRefines
<1>1. op[o].pc = "insert" /\ UNCHANGED realms
  BY DEF Create
<1>2. op[o] \in CreateOp
  BY <1>1, Kinds, Typed DEF BaseInv, OfCreation
<1>3. PICK n \in Realm, t \in TenantID, d \in Domain :
        op[o].realm = n /\ op[o].id = t /\ op[o].domain = d
  BY <1>2 DEF CreateOp
<1>4. PICK s : op' = [op EXCEPT ![o] = s] /\ AskView(s) \in {AskView(op[o]), Silent}
  <2>1. CASE Finish(o)
    <3>1. op' = [op EXCEPT ![o] = Idle]
      BY <2>1 DEF Finish, Goto
    <3> QED BY <3>1, IdleKind, AskKinds
  <2>2. CASE Proceed(o, "rollback")
    <3>1. op' = [op EXCEPT ![o] = NextCall(op[o], "rollback")]
      BY <2>2 DEF Proceed, Goto
    <3>2. AskView(NextCall(op[o], "rollback")) = AskView(op[o])
      BY <1>2, NextOfCreation
    <3> QED BY <3>1, <3>2
  <2> QED BY <2>1, <2>2 DEF Create, Execute
<1>5. CASE UNCHANGED rows
  BY <1>1, <1>4, <1>5, ViewUnchanged, QuietRefines
<1>6. CASE ~RealmTaken(n) /\ ~DomainTaken(d) /\ InsertRow(o)
  <2>1. /\ \A g \in GrantView : g.realm # n /\ g.domain # d
        /\ GrantView' = GrantView \cup {[id |-> t, realm |-> n, domain |-> d]}
        /\ StatusOf' = [StatusOf EXCEPT ![t] = IF Made(n, t) THEN "active" ELSE "closed"]
        /\ AskOf[o] = [kind |-> "create", id |-> t, realm |-> n, domain |-> d]
        /\ LiveStatus'
    BY <1>3, <1>6, RowAppears
  <2>2. AskOf' \in {AskOf, [AskOf EXCEPT ![o] = Silent]}
    BY <1>4, AskSettles
  <2>3. \/ StatusOf' = [StatusOf EXCEPT ![t] = "active"]
        \/ StatusOf' = [StatusOf EXCEPT ![t] = "closed"]
    BY <2>1
  <2>4. FaultyVisible
    BY <2>1, <2>2, <2>3, TornStep
  <2> QED BY <2>1, <2>4 DEF FaultyRefines
<1> QED BY <1>3, <1>5, <1>6 DEF Create, Execute

LEMMA UpdateFaulty ==
  ASSUME BaseInv, NEW o \in Op, Update(o)
  PROVE  FaultyRefines
<1>1. op[o].pc = "update" /\ UNCHANGED realms
  BY DEF Update
<1>2. PICK s : op' = [op EXCEPT ![o] = s] /\ AskView(s) = Silent /\ s.pc # "rollback"
  <2>1. CASE Finish(o)
    <3>1. op' = [op EXCEPT ![o] = Idle]
      BY <2>1 DEF Finish, Goto
    <3> QED BY <3>1, IdleKind, AskKinds
  <2>2. CASE Proceed(o, "put")
    <3>1. op' = [op EXCEPT ![o] = NextCall(op[o], "put")]
      BY <2>2 DEF Proceed, Goto
    <3> QED BY <1>1, <3>1, NextOfUpdate
  <2> QED BY <2>1, <2>2 DEF Update, Execute
<1>3. CASE WriteStatus(op[o].id, op[o].status)
  BY <1>2, <1>3, StatusWritten, RefinesFaulty
<1>4. CASE UNCHANGED rows
  BY <1>1, <1>2, <1>4, ViewUnchanged, QuietRefines
<1> QED BY <1>3, <1>4 DEF Update, Execute

LEMMA SoftDeleteFaulty ==
  ASSUME BaseInv, NEW o \in Op, SoftDelete(o)
  PROVE  FaultyRefines
<1>1. UNCHANGED realms /\ op' = [op EXCEPT ![o] = Idle] /\ AskView(Idle) = Silent
  BY IdleKind, AskKinds DEF SoftDelete, Execute, Finish, Goto
<1>2. CASE MarkDeleted(op[o].id)
  BY <1>1, <1>2, MarkSeen, AskSettles, FailStep DEF FaultyRefines
<1>3. CASE UNCHANGED rows
  BY <1>1, <1>3, ViewUnchanged, QuietRefines
<1> QED BY <1>2, <1>3 DEF SoftDelete, Execute

LEMMA CrashFaulty ==
  ASSUME BaseInv, Crash
  PROVE  FaultyRefines
<1>1. UNCHANGED <<rows, realms>> /\ op' = [o \in Op |-> Idle]
  BY DEF Crash
<1>2. UNCHANGED <<GrantView, StatusOf>> /\ LiveStatus'
  BY <1>1, ViewUnchanged DEF BaseInv, LiveStatus, Live
<1>3. AskOf' = [o \in Op |-> Silent]
  BY <1>1, IdleKind, AskKinds DEF AskOf
<1>4. Registry!Die
  BY <1>2, <1>3 DEF Registry!Die, Registry!Nothing, Silent, StatusOf, AskOf
<1> QED BY <1>2, <1>4 DEF FaultyRefines, FaultyVisible, Registry!FaultyNext
-----------------------------------------------------------------------------
LEMMA BaseInit == Init /\ "late" \notin Faults => BaseInv /\ Registry!RegistryInit
<1> SUFFICES ASSUME Init, "late" \notin Faults PROVE BaseInv /\ Registry!RegistryInit
  OBVIOUS
<1>1. BaseInv
  BY InitInvariant DEF BaseInv, Init, LiveStatus, Live
<1> QED BY <1>1, RegistryStarts

LEMMA FaultyStep ==
  ASSUME "late" \notin Faults, BaseInv, [Next]_vars
  PROVE  BaseInv' /\ [Registry!FaultyNext]_(Registry!registryVars)
<1>1. PromptInv'
  BY PromptStep DEF BaseInv
<1>2. FaultyRefines
  <2>1. CASE UNCHANGED vars
    BY <2>1, StutterRefines, RefinesFaulty DEF vars
  <2>2. ASSUME NEW o \in Op, Advance(o)
        PROVE  FaultyRefines
    BY <2>2, AttemptRefines, CreateFaulty, UpdateFaulty, SoftDeleteFaulty DEF Advance
  <2>3. \A c \in late : ~KcLate(c)
    BY DEF BaseInv, PromptInv
  <2>4. CASE Crash
    BY <2>4, CrashFaulty
  <2> QED
    BY <2>1, <2>2, <2>3, <2>4, CreateTenantRefines, SetStatusRefines,
       DeleteTenantRefines, RefinesFaulty DEF Next, SuspendTenant, EnableTenant
<1>3. [Registry!FaultyNext]_(Registry!registryVars)
  BY <1>2 DEF FaultyRefines, FaultyVisible, Registry!registryVars, StatusOf, AskOf
<1> QED BY <1>1, <1>2, <1>3 DEF BaseInv, FaultyRefines

\* Whatever calls fail, whatever answers are lost and whenever the process
\* dies: names are given once and for good, no closed tenant opens again, and
\* a tenant is closed only by its own deletion or by a creation of its realm
\* that fails (if Keycloak processes no attempt after its caller has given up
\* on it).
THEOREM TenantsDurableHolds ==
  ASSUME "late" \notin Faults
  PROVE  Spec => TenantsDurable
<1>1. Init => BaseInv /\ Registry!RegistryInit
  BY BaseInit
<1>2. BaseInv /\ [Next]_vars => BaseInv' /\ [Registry!FaultyNext]_(Registry!registryVars)
  BY FaultyStep
<1> QED BY <1>1, <1>2, PTL DEF Spec, TenantsDurable, Registry!FaultySpec
=============================================================================

------------------------- MODULE TenantFaultlessProofs -------------------------
(***************************************************************************)
(* What TenantLifecycle keeps in step when nothing fails: rows and realms. *)
(*                                                                         *)
(* Concurrent operations suffice to make this delicate. A creation may     *)
(* lose its realm, before it inserts its row, to the second of two         *)
(* deletions of the tenant that had the name before, and another creation  *)
(* may then take the realm over, which the first one's rollback deletes.   *)
(* No tenant is harmed because the name was used up all along (Claims).    *)
(***************************************************************************)
EXTENDS TenantLifecycleProofs

\* The name is that of a row whose realm is gone, and no row gets it again.
UsedUp(n) == \E t \in TenantID : rows[t] # NULL /\ rows[t].realm = n /\ ~Made(n, t)

\* A creation past its POST has its realm, or will not get its row.
Claims ==
  \A o \in Op : op[o].pc \in {"insert", "rollback"} =>
    Made(op[o].realm, op[o].id) \/ UsedUp(op[o].realm)

Unregistered == \A o \in Op : OfCreation(op[o]) => rows[op[o].id] = NULL

OwnInv ==
  /\ PromptInv
  /\ Claims
  /\ Unregistered
  /\ LiveHasRealm
  /\ RealmHasOwner

-----------------------------------------------------------------------------
LEMMA Typed ==
  ASSUME PromptInv
  PROVE  /\ \A o \in Op : op[o] \in OpState
         /\ \A n \in Realm : realms[n] # NULL => realms[n].by \in TenantID
         /\ \A t \in TenantID : rows[t] # NULL => rows[t].realm \in Realm
         /\ \A o \in Op : op[o].pc # "idle" => op[o].id \in TenantID /\ op[o].realm \in Realm
<1>1. TypeOK
  BY DEF PromptInv, IInv
<1>2. \A o \in Op : op[o] \in OpState
  BY <1>1 DEF TypeOK
<1>3. \A o \in Op : op[o].pc # "idle" => op[o].id \in TenantID /\ op[o].realm \in Realm
  BY <1>2, Kinds
<1> QED BY <1>1, <1>2, <1>3 DEF TypeOK, RealmRep, Row

\* One operation moves; the others do not.
LEMMA OneMoves ==
  ASSUME PromptInv, NEW o \in Op, NEW s, op' = [op EXCEPT ![o] = s]
  PROVE  op'[o] = s /\ \A q \in Op : q # o => op'[q] = op[q]
  BY DEF PromptInv, IInv, TypeOK

\* A name is used up until its realm is made for its row's tenant.
LEMMA UsedUpStays ==
  ASSUME NEW n \in Realm, UsedUp(n),
         \A t \in TenantID : rows[t] # NULL =>
           rows'[t] # NULL /\ rows'[t].realm = rows[t].realm /\ (Made(n, t)' => Made(n, t))
  PROVE  UsedUp(n)'
  BY DEF UsedUp

\* Claims, for names and uuids that the step does not change.
LEMMA ClaimsIntro ==
  ASSUME PromptInv',
         \A q \in Op, n \in Realm, t \in TenantID :
           op'[q].pc \in {"insert", "rollback"} /\ op'[q].realm = n /\ op'[q].id = t
             => (Made(n, t) \/ UsedUp(n))'
  PROVE  Claims'
<1> SUFFICES ASSUME NEW q \in Op, op'[q].pc \in {"insert", "rollback"}
             PROVE  (Made(op[q].realm, op[q].id) \/ UsedUp(op[q].realm))'
  BY DEF Claims
<1>1. op'[q] \in OpState
  BY DEF PromptInv, IInv, TypeOK
<1>2. PICK n \in Realm, t \in TenantID : n = op'[q].realm /\ t = op'[q].id
  BY <1>1, Kinds
<1>3. (Made(n, t) \/ UsedUp(n))'
  BY <1>2
<1> QED BY <1>2, <1>3 DEF Made, UsedUp

\* The names in use of a creation past its POST.
LEMMA ClaimsElim ==
  ASSUME OwnInv, NEW q \in Op, op[q].pc \in {"insert", "rollback"},
         NEW n \in Realm, NEW t \in TenantID, op[q].realm = n, op[q].id = t
  PROVE  Made(n, t) \/ UsedUp(n)
  BY DEF OwnInv, Claims
-----------------------------------------------------------------------------
(***************************************************************************)
(* Steps that neither make nor delete a realm, nor insert or mark a row.   *)
(***************************************************************************)

LEMMA FrameKeeps ==
  ASSUME OwnInv, PromptInv', NEW o \in Op, NEW s, op' = [op EXCEPT ![o] = s],
         \A n \in Realm : /\ realms'[n] = NULL <=> realms[n] = NULL
                          /\ realms[n] # NULL => realms'[n].by = realms[n].by,
         \A t \in TenantID : /\ rows'[t] = NULL <=> rows[t] = NULL
                             /\ rows[t] # NULL => /\ rows'[t].realm = rows[t].realm
                                                  /\ rows'[t].deleted = rows[t].deleted,
         op[o].pc # "softdelete",
         op[o].pc = "insert" => /\ s.pc = "rollback"
                                /\ s.id = op[o].id /\ s.realm = op[o].realm,
         op[o].pc # "rollback",
         op[o].pc # "insert" => s.pc \notin {"insert", "rollback"},
         OfCreation(s) => s.id \in TenantID /\ rows[s.id] = NULL
  PROVE  OwnInv'
<1>1. op'[o] = s /\ \A q \in Op : q # o => op'[q] = op[q]
  BY OneMoves DEF OwnInv
<1>2. \A n \in Realm, t \in TenantID : Made(n, t)' <=> Made(n, t)
  BY DEF Made
<1>3. \A n \in Realm : UsedUp(n) => UsedUp(n)'
  BY <1>2, UsedUpStays
<1>4. \A t \in TenantID : Live(t)' <=> Live(t)
  BY DEF Live
<1>5. \A q \in Op : op'[q].pc \in {"insert", "rollback"} =>
        /\ op[q].pc \in {"insert", "rollback"}
        /\ op'[q].realm = op[q].realm /\ op'[q].id = op[q].id
  BY <1>1
<1>6. \A q \in Op : op[q].pc \in {"insert", "rollback"} =>
        /\ op'[q].pc \in {"insert", "rollback"}
        /\ op'[q].realm = op[q].realm /\ op'[q].id = op[q].id
  BY <1>1
<1>7. Claims'
  BY <1>2, <1>3, <1>5, ClaimsElim, ClaimsIntro
<1>8. Unregistered'
  BY <1>1, Typed DEF OwnInv, Unregistered, OfCreation
<1>9. LiveHasRealm'
  <2> SUFFICES ASSUME NEW t \in TenantID, Live(t)'
               PROVE  \/ realms'[rows'[t].realm] # NULL /\ realms'[rows'[t].realm].by = t
                      \/ \E q \in Op : op'[q].pc = "softdelete" /\ op'[q].id = t
    BY DEF LiveHasRealm
  <2>1. Live(t) /\ rows[t] # NULL /\ rows[t].realm \in Realm
    BY <1>4, Typed DEF Live, OwnInv
  <2>2. CASE realms[rows[t].realm] # NULL /\ realms[rows[t].realm].by = t
    BY <2>1, <2>2
  <2>3. CASE \E q \in Op : op[q].pc = "softdelete" /\ op[q].id = t
    BY <1>1, <2>3
  <2> QED BY <2>1, <2>2, <2>3 DEF OwnInv, LiveHasRealm
<1>10. RealmHasOwner'
  <2> SUFFICES ASSUME NEW n \in Realm, realms'[n] # NULL
               PROVE  \/ Live(realms[n].by)' /\ rows'[realms'[n].by].realm = n
                      \/ \E q \in Op : /\ op'[q].pc \in {"insert", "rollback"}
                                       /\ op'[q].id = realms'[n].by /\ op'[q].realm = n
    BY DEF RealmHasOwner
  <2>1. PICK t \in TenantID : realms[n] # NULL /\ realms[n].by = t /\ realms'[n].by = t
    BY Typed DEF OwnInv
  <2>2. CASE Live(t) /\ rows[t].realm = n
    BY <1>4, <2>1, <2>2 DEF Live
  <2>3. CASE \E q \in Op : /\ op[q].pc \in {"insert", "rollback"}
                           /\ op[q].id = t /\ op[q].realm = n
    BY <1>6, <2>1, <2>3
  <2> QED BY <2>1, <2>2, <2>3 DEF OwnInv, RealmHasOwner
<1> QED BY <1>7, <1>8, <1>9, <1>10 DEF OwnInv
-----------------------------------------------------------------------------
(***************************************************************************)
(* A creation makes its realm, and registers it or gives it up.            *)
(***************************************************************************)

LEMMA MakeKeeps ==
  ASSUME OwnInv, PromptInv', NEW o \in Op, NEW s, NEW n \in Realm, NEW t \in TenantID,
         op[o].pc = "post", op[o].id = t, op[o].realm = n, realms[n] = NULL,
         realms' = [realms EXCEPT ![n] = [on |-> TRUE, by |-> t]],
         op' = [op EXCEPT ![o] = s], s.pc = "insert", s.id = t, s.realm = n,
         UNCHANGED rows
  PROVE  OwnInv'
<1> DEFINE r == [on |-> TRUE, by |-> t]
<1>1. op'[o] = s /\ \A q \in Op : q # o => op'[q] = op[q]
  BY OneMoves DEF OwnInv
<1>2. r \in RealmRep /\ r.by = t
  BY DEF RealmRep
<1>3. realms'[n] = r /\ r # NULL /\ \A m \in Realm : m # n => realms'[m] = realms[m]
  BY <1>2, NullAssumption DEF OwnInv, PromptInv, IInv, TypeOK
<1> HIDE DEF r
<1>4. OfCreation(op[o]) /\ rows[t] = NULL
  BY DEF OwnInv, Unregistered, OfCreation
<1>5. \A m \in Realm, u \in TenantID : Made(m, u) => Made(m, u)'
  BY <1>3 DEF Made
<1>6. \A m \in Realm, u \in TenantID : Made(m, u)' => Made(m, u) \/ u = t
  BY <1>2, <1>3 DEF Made
<1>7. \A m \in Realm : UsedUp(m) => UsedUp(m)'
  BY <1>4, <1>6, UsedUpStays
<1>8. Claims'
  <2>1. ASSUME NEW q \in Op, NEW m \in Realm, NEW u \in TenantID,
               op'[q].pc \in {"insert", "rollback"}, op'[q].realm = m, op'[q].id = u
        PROVE  (Made(m, u) \/ UsedUp(m))'
    <3>1. CASE q = o
      BY <1>1, <1>2, <1>3, <2>1, <3>1 DEF Made
    <3>2. CASE q # o
      BY <1>1, <1>5, <1>7, <2>1, <3>2, ClaimsElim
    <3> QED BY <3>1, <3>2
  <2> QED BY <2>1, ClaimsIntro
<1>9. Unregistered'
  BY <1>1, <1>4 DEF OwnInv, Unregistered, OfCreation
<1>10. LiveHasRealm'
  <2> SUFFICES ASSUME NEW u \in TenantID, Live(u)
               PROVE  \/ realms'[rows[u].realm] # NULL /\ realms'[rows[u].realm].by = u
                      \/ \E q \in Op : op'[q].pc = "softdelete" /\ op'[q].id = u
    BY DEF LiveHasRealm, Live
  <2>1. rows[u].realm \in Realm
    BY Typed DEF Live, OwnInv
  <2> QED BY <1>1, <1>3, <2>1 DEF OwnInv, LiveHasRealm
<1>11. RealmHasOwner'
  <2> SUFFICES ASSUME NEW m \in Realm, realms'[m] # NULL
               PROVE  \/ Live(realms'[m].by) /\ rows[realms'[m].by].realm = m
                      \/ \E q \in Op : /\ op'[q].pc \in {"insert", "rollback"}
                                       /\ op'[q].id = realms'[m].by /\ op'[q].realm = m
    BY DEF RealmHasOwner, Live
  <2>1. CASE m = n
    BY <1>1, <1>2, <1>3, <2>1
  <2>2. CASE m # n
    BY <1>1, <1>3, <2>2 DEF OwnInv, RealmHasOwner
  <2> QED BY <2>1, <2>2
<1> QED BY <1>8, <1>9, <1>10, <1>11 DEF OwnInv

\* The row finds its realm: the name was not used up.
LEMMA RegisterKeeps ==
  ASSUME OwnInv, PromptInv', NEW o \in Op, NEW row \in Row, NEW n \in Realm, NEW t \in TenantID,
         op[o].pc = "insert", op[o].id = t, op[o].realm = n, ~RealmTaken(n),
         rows' = [rows EXCEPT ![t] = row], row.realm = n, ~row.deleted,
         op' = [op EXCEPT ![o] = Idle], UNCHANGED realms
  PROVE  OwnInv'
<1>1. op'[o] = Idle /\ \A q \in Op : q # o => op'[q] = op[q]
  BY OneMoves DEF OwnInv
<1>2. rows'[t] = row /\ row # NULL /\ \A u \in TenantID : u # t => rows'[u] = rows[u]
  BY NullAssumption DEF OwnInv, PromptInv, IInv, TypeOK
<1>3. OfCreation(op[o]) /\ rows[t] = NULL
  BY DEF OwnInv, Unregistered, OfCreation
<1>4. ~UsedUp(n)
  BY DEF UsedUp, RealmTaken
<1>5. Made(n, t)
  BY <1>4, ClaimsElim
<1>6. \A m \in Realm : UsedUp(m) => UsedUp(m)'
  BY <1>2, <1>3, UsedUpStays DEF Made
<1>7. Claims'
  <2>1. ASSUME NEW q \in Op, NEW m \in Realm, NEW u \in TenantID,
               op'[q].pc \in {"insert", "rollback"}, op'[q].realm = m, op'[q].id = u
        PROVE  (Made(m, u) \/ UsedUp(m))'
    <3>1. op'[q] = op[q]
      BY <1>1, <2>1, IdleKind
    <3> QED BY <1>6, <2>1, <3>1, ClaimsElim DEF Made
  <2> QED BY <2>1, ClaimsIntro
<1>8. Unregistered'
  <2> SUFFICES ASSUME NEW q \in Op, OfCreation(op'[q])
               PROVE  rows'[op'[q].id] = NULL
    BY DEF Unregistered, OfCreation
  <2>1. q # o /\ op'[q] = op[q]
    BY <1>1, IdleKind
  <2>2. op[q].id # t
    BY <1>3, <2>1 DEF OwnInv, PromptInv, IInv, CreationAlone
  <2>3. op[q].id \in TenantID
    BY <2>1, Typed DEF OwnInv, OfCreation
  <2> QED BY <1>2, <2>1, <2>2, <2>3 DEF OwnInv, Unregistered
<1>9. LiveHasRealm'
  <2> SUFFICES ASSUME NEW u \in TenantID, rows'[u] # NULL, ~rows'[u].deleted
               PROVE  \/ realms[rows'[u].realm] # NULL /\ realms[rows'[u].realm].by = u
                      \/ \E q \in Op : op'[q].pc = "softdelete" /\ op'[q].id = u
    BY DEF LiveHasRealm, Live
  <2>1. CASE u = t
    BY <1>2, <1>5, <2>1 DEF Made
  <2>2. CASE u # t
    BY <1>1, <1>2, <2>2 DEF OwnInv, LiveHasRealm, Live
  <2> QED BY <2>1, <2>2
<1>10. RealmHasOwner'
  <2> SUFFICES ASSUME NEW m \in Realm, realms[m] # NULL
               PROVE  \/ Live(realms[m].by)' /\ rows'[realms[m].by].realm = m
                      \/ \E q \in Op : /\ op'[q].pc \in {"insert", "rollback"}
                                       /\ op'[q].id = realms[m].by /\ op'[q].realm = m
    BY DEF RealmHasOwner, Live
  <2>1. realms[m].by \in TenantID
    BY Typed DEF OwnInv
  <2>2. CASE Live(realms[m].by) /\ rows[realms[m].by].realm = m
    BY <1>2, <1>3, <2>1, <2>2 DEF Live
  <2>3. CASE \E q \in Op : /\ op[q].pc \in {"insert", "rollback"}
                           /\ op[q].id = realms[m].by /\ op[q].realm = m
    BY <1>1, <1>2, <2>3 DEF Live
  <2> QED BY <2>2, <2>3 DEF OwnInv, RealmHasOwner
<1> QED BY <1>7, <1>8, <1>9, <1>10 DEF OwnInv
-----------------------------------------------------------------------------
(***************************************************************************)
(* A realm is deleted: its name was used up, or is from now on, or was     *)
(* that of the creation that gives up.                                     *)
(***************************************************************************)

LEMMA DropKeeps ==
  ASSUME OwnInv, PromptInv', NEW o \in Op, NEW s, NEW n \in Realm, NEW t \in TenantID,
         op[o].id = t, op[o].realm = n,
         \/ op[o].pc = "rollback" /\ s.pc = "idle"
         \/ op[o].pc = "drop" /\ s.pc = "softdelete" /\ s.id = t,
         realms' = [realms EXCEPT ![n] = NULL],
         op' = [op EXCEPT ![o] = s],
         UNCHANGED rows
  PROVE  OwnInv'
<1>1. op'[o] = s /\ \A q \in Op : q # o => op'[q] = op[q]
  BY OneMoves DEF OwnInv
<1>2. realms'[n] = NULL /\ \A m \in Realm : m # n => realms'[m] = realms[m]
  BY DEF OwnInv, PromptInv, IInv, TypeOK
<1>3. \A m \in Realm, u \in TenantID : Made(m, u)' <=> Made(m, u) /\ m # n
  BY <1>2 DEF Made
<1>4. \A m \in Realm : UsedUp(m) => UsedUp(m)'
  BY <1>3, UsedUpStays
<1>5. op[o].pc = "rollback" => rows[t] = NULL /\ OfCreation(op[o])
  BY DEF OwnInv, Unregistered, OfCreation
<1>6. op[o].pc = "drop" => rows[t] # NULL /\ rows[t].realm = n
  BY DEF OwnInv, PromptInv, IInv, OpsKnowRow, KnowsRow, OfRow
<1>7. op[o].pc = "drop" => UsedUp(n)'
  BY <1>2, <1>6 DEF UsedUp, Made
<1>8. Claims'
  <2>1. ASSUME NEW q \in Op, NEW m \in Realm, NEW u \in TenantID,
               op'[q].pc \in {"insert", "rollback"}, op'[q].realm = m, op'[q].id = u
        PROVE  (Made(m, u) \/ UsedUp(m))'
    <3>1. q # o /\ op'[q] = op[q]
      BY <1>1, <2>1
    <3>2. Made(m, u) \/ UsedUp(m)
      BY <2>1, <3>1, ClaimsElim
    <3>3. CASE m = n /\ op[o].pc = "rollback"
      <4>1. OfCreation(op[q]) /\ u # t
        BY <1>5, <2>1, <3>1, <3>3 DEF OwnInv, PromptInv, IInv, CreationAlone, OfCreation
      <4>2. Made(n, t) \/ UsedUp(n)
        BY <3>3, ClaimsElim
      <4> QED BY <1>4, <3>2, <3>3, <4>1, <4>2 DEF Made
    <3> QED BY <1>3, <1>4, <1>7, <3>2, <3>3
  <2> QED BY <2>1, ClaimsIntro
<1>9. Unregistered'
  <2>1. ~OfCreation(s)
    BY DEF OfCreation
  <2> QED BY <1>1, <2>1 DEF OwnInv, Unregistered, OfCreation
<1>10. LiveHasRealm'
  <2> SUFFICES ASSUME NEW u \in TenantID, Live(u)
               PROVE  \/ realms'[rows[u].realm] # NULL /\ realms'[rows[u].realm].by = u
                      \/ \E q \in Op : op'[q].pc = "softdelete" /\ op'[q].id = u
    BY DEF LiveHasRealm, Live
  <2>1. rows[u] # NULL /\ rows[u].realm \in Realm
    BY Typed DEF Live, OwnInv
  <2>2. CASE \E q \in Op : op[q].pc = "softdelete" /\ op[q].id = u
    BY <1>1, <2>2
  <2>3. CASE op[o].pc = "drop" /\ u = t
    BY <1>1, <2>3
  <2>4. CASE Made(rows[u].realm, u) /\ op[o].pc = "drop" /\ u # t
    <3>1. rows[u].realm # n
      BY <1>6, <2>1, <2>4 DEF OwnInv, PromptInv, IInv, OneRowPerRealm
    <3> QED BY <1>2, <2>1, <2>4, <3>1 DEF Made
  <2>5. CASE Made(rows[u].realm, u) /\ op[o].pc = "rollback"
    <3>1. Made(n, t) \/ UsedUp(n)
      BY <2>5, ClaimsElim
    <3>2. UsedUp(n) /\ rows[u].realm = n => ~Made(n, u)
      BY <2>1 DEF UsedUp, OwnInv, PromptInv, IInv, OneRowPerRealm
    <3>3. rows[u].realm # n
      BY <1>5, <2>1, <2>5, <3>1, <3>2 DEF Made
    <3> QED BY <1>2, <2>1, <2>5, <3>3 DEF Made
  <2> QED BY <2>2, <2>3, <2>4, <2>5 DEF OwnInv, LiveHasRealm, Made
<1>11. RealmHasOwner'
  <2> SUFFICES ASSUME NEW m \in Realm, realms'[m] # NULL
               PROVE  \/ Live(realms'[m].by) /\ rows[realms'[m].by].realm = m
                      \/ \E q \in Op : /\ op'[q].pc \in {"insert", "rollback"}
                                       /\ op'[q].id = realms'[m].by /\ op'[q].realm = m
    BY DEF RealmHasOwner, Live
  <2>1. m # n /\ realms'[m] = realms[m]
    BY <1>2
  <2> QED BY <1>1, <2>1 DEF OwnInv, RealmHasOwner
<1> QED BY <1>8, <1>9, <1>10, <1>11 DEF OwnInv

\* The row whose realm is gone is marked deleted.
LEMMA MarkKeeps ==
  ASSUME OwnInv, PromptInv', NEW o \in Op, SoftDelete(o),
         MarkDeleted(op[o].id), op' = [op EXCEPT ![o] = Idle]
  PROVE  OwnInv'
<1>1. op'[o] = Idle /\ \A q \in Op : q # o => op'[q] = op[q]
  BY OneMoves DEF OwnInv
<1>2. op[o].pc = "softdelete" /\ UNCHANGED realms
  BY DEF SoftDelete
<1>3. PICK t \in TenantID : op[o].id = t
  BY <1>2, Typed DEF OwnInv
<1>4. rows[t] \in Row /\ rows[t] # NULL
  BY <1>2, <1>3 DEF OwnInv, PromptInv, IInv, TypeOK, OpsKnowRow, KnowsRow, OfRow
<1> DEFINE row == Marked(rows[t])
<1>5. row.realm = rows[t].realm /\ row.deleted
  BY <1>4, MarkedRow
<1>6. rows'[t] = row /\ \A u \in TenantID : u # t => rows'[u] = rows[u]
  BY <1>3 DEF MarkDeleted, OwnInv, PromptInv, IInv, TypeOK
<1>7. \A u \in TenantID : /\ rows'[u] = NULL <=> rows[u] = NULL
                          /\ rows[u] # NULL => rows'[u].realm = rows[u].realm
  BY <1>2, <1>4, <1>5, <1>6, StatementStep DEF OwnInv, PromptInv
<1> HIDE DEF row
<1>8. \A m \in Realm : UsedUp(m) => UsedUp(m)'
  BY <1>2, <1>7, UsedUpStays DEF Made
<1>9. Claims'
  <2>1. ASSUME NEW q \in Op, NEW m \in Realm, NEW u \in TenantID,
               op'[q].pc \in {"insert", "rollback"}, op'[q].realm = m, op'[q].id = u
        PROVE  (Made(m, u) \/ UsedUp(m))'
    <3>1. op'[q] = op[q]
      BY <1>1, <2>1, IdleKind
    <3> QED BY <1>2, <1>8, <2>1, <3>1, ClaimsElim DEF Made
  <2> QED BY <2>1, ClaimsIntro
<1>10. Unregistered'
  <2> SUFFICES ASSUME NEW q \in Op, OfCreation(op'[q])
               PROVE  rows'[op'[q].id] = NULL
    BY DEF Unregistered, OfCreation
  <2>1. op'[q] = op[q]
    BY <1>1, IdleKind
  <2> QED BY <1>7, <2>1, Typed DEF OwnInv, Unregistered, OfCreation
<1>11. LiveHasRealm'
  <2> SUFFICES ASSUME NEW u \in TenantID, rows'[u] # NULL, ~rows'[u].deleted
               PROVE  \/ realms[rows'[u].realm] # NULL /\ realms[rows'[u].realm].by = u
                      \/ \E q \in Op : op'[q].pc = "softdelete" /\ op'[q].id = u
    BY <1>2 DEF LiveHasRealm, Live
  <2>1. u # t /\ rows'[u] = rows[u]
    BY <1>5, <1>6
  <2> QED BY <1>1, <1>3, <2>1 DEF OwnInv, LiveHasRealm, Live
<1>12. RealmHasOwner'
  <2> SUFFICES ASSUME NEW m \in Realm, realms[m] # NULL
               PROVE  \/ Live(realms[m].by)' /\ rows'[realms[m].by].realm = m
                      \/ \E q \in Op : /\ op'[q].pc \in {"insert", "rollback"}
                                       /\ op'[q].id = realms[m].by /\ op'[q].realm = m
    BY <1>2 DEF RealmHasOwner, Live
  <2>1. PICK u \in TenantID : realms[m].by = u /\ u # t
    BY <1>2, <1>3, Typed DEF OwnInv, PromptInv, Dropped
  <2>2. rows'[u] = rows[u]
    BY <1>6, <2>1
  <2>3. CASE Live(u) /\ rows[u].realm = m
    BY <1>2, <2>1, <2>2, <2>3 DEF Live
  <2>4. CASE \E q \in Op : /\ op[q].pc \in {"insert", "rollback"}
                           /\ op[q].id = u /\ op[q].realm = m
    BY <1>1, <1>2, <2>1, <2>4
  <2> QED BY <2>1, <2>3, <2>4 DEF OwnInv, RealmHasOwner
<1> QED BY <1>9, <1>10, <1>11, <1>12 DEF OwnInv
-----------------------------------------------------------------------------
LEMMA OwnStep ==
  ASSUME Faults = {}
  PROVE  OwnInv /\ [Next]_vars => OwnInv'
<1> SUFFICES ASSUME OwnInv, [Next]_vars PROVE OwnInv'
  OBVIOUS
<1>0. PromptInv' /\ PromptInv /\ IInv /\ TypeOK
  BY PromptStep DEF OwnInv, PromptInv, IInv
<1>1. ASSUME UNCHANGED vars
      PROVE  OwnInv'
  BY <1>0, <1>1 DEF OwnInv, vars, Claims, Unregistered, LiveHasRealm, RealmHasOwner,
                    Made, UsedUp, Live, OfCreation
<1>2. ASSUME NEW o \in Op, NEW t \in TenantID, NEW n \in Realm, NEW d \in Domain,
             CreateTenant(o, t, n, d)
      PROVE  OwnInv'
  <2> DEFINE s == [pc |-> "post", id |-> t, realm |-> n, domain |-> d, try |-> 1]
  <2>1. /\ op[o].pc = "idle" /\ op' = [op EXCEPT ![o] = s] /\ rows[t] = NULL
        /\ UNCHANGED <<rows, realms>>
    BY <1>0, <1>2 DEF CreateTenant, Goto, IInv, RowsDrawn
  <2>2. s.pc = "post" /\ s.id = t
    OBVIOUS
  <2> HIDE DEF s
  <2> QED BY <1>0, <2>1, <2>2, FrameKeeps
<1>3. ASSUME NEW o \in Op, NEW t \in TenantID,
             SuspendTenant(o, t) \/ EnableTenant(o, t) \/ DeleteTenant(o, t)
      PROVE  OwnInv'
  <2>1. UNCHANGED <<rows, realms, late, drawn>> /\ op[o].pc = "idle"
    BY <1>0, <1>3, StartKeeps DEF SuspendTenant, EnableTenant, DeleteTenant, SetStatus
  <2>2. CASE UNCHANGED op
    BY <1>1, <2>1, <2>2 DEF vars
  <2>3. CASE \E s \in OpState : op' = [op EXCEPT ![o] = s] /\ OfRow(s)
    <3>1. PICK s \in OpState : op' = [op EXCEPT ![o] = s] /\ OfRow(s)
      BY <2>3
    <3>2. s.pc \notin {"insert", "rollback"} /\ ~OfCreation(s)
      BY <3>1 DEF OfRow, OfCreation
    <3> QED BY <1>0, <2>1, <3>1, <3>2, FrameKeeps
  <2> QED BY <1>0, <1>3, <2>2, <2>3, StartKeeps
<1>4. ASSUME NEW o \in Op, CreateRealm(o)
      PROVE  OwnInv'
  <2>1. PICK n \in Realm, t \in TenantID : op[o].realm = n /\ op[o].id = t
    BY <1>0, <1>4, Typed DEF CreateRealm
  <2>2. /\ op[o].pc = "post" /\ realms' = Processed(op[o]) /\ UNCHANGED rows
        /\ IF realms[n] = NULL THEN Proceed(o, "insert") ELSE Finish(o)
    BY <1>4, <2>1 DEF CreateRealm, Attempt
  <2>3. CASE realms[n] = NULL
    <3> DEFINE s == NextCall(op[o], "insert")
    <3>1. realms' = [realms EXCEPT ![n] = [on |-> TRUE, by |-> t]] /\ op' = [op EXCEPT ![o] = s]
      BY <2>1, <2>2, <2>3 DEF Processed, Proceed, Goto
    <3>2. s.pc = "insert" /\ Moves(op[o], s)
      BY <1>0, <2>2, NextCallType DEF TypeOK
    <3>3. s.id = t /\ s.realm = n
      BY <2>1, <3>2, IdleKind DEF Moves, OfRow, OfCreation
    <3> HIDE DEF s
    <3> QED BY <1>0, <2>1, <2>2, <2>3, <3>1, <3>2, <3>3, MakeKeeps
  <2>4. CASE realms[n] # NULL
    <3>1. UNCHANGED realms /\ op' = [op EXCEPT ![o] = Idle]
      BY <2>1, <2>2, <2>4 DEF Processed, Finish, Goto
    <3> QED BY <1>0, <2>2, <3>1, IdleKind, FrameKeeps
  <2> QED BY <2>3, <2>4
<1>5. ASSUME NEW o \in Op, Create(o)
      PROVE  OwnInv'
  <2>1. PICK n \in Realm, t \in TenantID : op[o].realm = n /\ op[o].id = t
    BY <1>0, <1>5, Typed DEF Create
  <2>2. op[o].pc = "insert" /\ UNCHANGED realms /\ op[o] \in CreateOp
    BY <1>0, <1>5, Kinds DEF Create, TypeOK, OfCreation
  <2>3. CASE ~RealmTaken(n) /\ InsertRow(o) /\ Finish(o)
    <3> DEFINE row == [realm |-> n, domain |-> op[o].domain,
                       status |-> "active", deleted |-> FALSE, restamped |-> FALSE]
    <3>1. row \in Row /\ row.realm = n /\ ~row.deleted
      BY <2>2 DEF Row, Status, CreateOp
    <3>2. rows' = [rows EXCEPT ![t] = row] /\ op' = [op EXCEPT ![o] = Idle]
      BY <2>1, <2>3 DEF InsertRow, Finish, Goto
    <3> HIDE DEF row
    <3> QED BY <1>0, <2>1, <2>2, <2>3, <3>1, <3>2, RegisterKeeps
  <2>4. CASE UNCHANGED rows /\ Proceed(o, "rollback")
    <3> DEFINE s == NextCall(op[o], "rollback")
    <3>1. op' = [op EXCEPT ![o] = s]
      BY <2>4 DEF Proceed, Goto
    <3>2. s.pc = "rollback" /\ Moves(op[o], s)
      BY <1>0, <2>2, NextCallType DEF TypeOK
    <3>3. s.id = t /\ s.realm = n
      BY <2>1, <3>2, IdleKind DEF Moves, OfRow, OfCreation
    <3>4. rows[t] = NULL
      BY <2>1, <2>2 DEF OwnInv, Unregistered, OfCreation
    <3> HIDE DEF s
    <3> QED BY <1>0, <2>1, <2>2, <2>4, <3>1, <3>2, <3>3, <3>4, FrameKeeps
  <2> QED BY <1>5, <2>1, <2>3, <2>4 DEF Create, Execute
<1>6. ASSUME NEW o \in Op, Rollback(o)
      PROVE  OwnInv'
  <2>1. PICK n \in Realm, t \in TenantID : op[o].realm = n /\ op[o].id = t
    BY <1>0, <1>6, Typed DEF Rollback
  <2>2. /\ op[o].pc = "rollback" /\ realms' = [realms EXCEPT ![n] = NULL]
        /\ op' = [op EXCEPT ![o] = Idle] /\ UNCHANGED rows
    BY <1>6, <2>1 DEF Rollback, Attempt, Processed, Finish, Goto
  <2> QED BY <1>0, <2>1, <2>2, IdleKind, DropKeeps
<1>7. ASSUME NEW o \in Op, DeleteRealm(o)
      PROVE  OwnInv'
  <2> DEFINE s == NextCall(op[o], "softdelete")
  <2>1. PICK n \in Realm, t \in TenantID : op[o].realm = n /\ op[o].id = t
    BY <1>0, <1>7, Typed DEF DeleteRealm
  <2>2. /\ op[o].pc = "drop" /\ realms' = [realms EXCEPT ![n] = NULL]
        /\ op' = [op EXCEPT ![o] = s] /\ UNCHANGED rows
    BY <1>7, <2>1 DEF DeleteRealm, Attempt, Processed, Proceed, Goto
  <2>3. s.pc = "softdelete" /\ Moves(op[o], s)
    BY <1>0, <2>2, NextCallType DEF TypeOK
  <2>4. s.id = t
    BY <2>1, <2>3, IdleKind DEF Moves, OfRow, OfCreation
  <2> HIDE DEF s
  <2> QED BY <1>0, <2>1, <2>2, <2>3, <2>4, DropKeeps
<1>8. ASSUME NEW o \in Op, Update(o)
      PROVE  OwnInv'
  <2> DEFINE s == NextCall(op[o], "put")
  <2>1. /\ op[o].pc = "update" /\ UNCHANGED realms /\ op' = [op EXCEPT ![o] = s]
        /\ WriteStatus(op[o].id, op[o].status)
    BY <1>8 DEF Update, Execute, Proceed, Goto
  <2>2. s.pc = "put"
    BY <1>0, <2>1, NextCallType DEF TypeOK
  <2>3. PICK t \in TenantID : op[o].id = t
    BY <1>0, <2>1, Typed
  <2>4. \A u \in TenantID : /\ rows'[u] = NULL <=> rows[u] = NULL
                            /\ rows[u] # NULL => rows'[u].realm = rows[u].realm
    BY <1>0, <1>8, StatementStep
  <2>5. \A u \in TenantID : rows[u] # NULL => rows'[u].deleted = rows[u].deleted
    <3>1. CASE Live(t)
      <4> DEFINE row == [rows[t] EXCEPT !.status = op[o].status]
      <4>1. rows' = [rows EXCEPT ![t] = row]
        BY <2>1, <2>3, <3>1 DEF WriteStatus
      <4>2. row.deleted = rows[t].deleted
        BY <1>0, <2>3, <3>1 DEF TypeOK, Live, Row
      <4> HIDE DEF row
      <4> QED BY <1>0, <4>1, <4>2 DEF TypeOK
    <3>2. CASE ~Live(t)
      BY <2>1, <2>3, <3>2 DEF WriteStatus
    <3> QED BY <3>1, <3>2
  <2> HIDE DEF s
  <2> QED BY <1>0, <2>1, <2>2, <2>4, <2>5, FrameKeeps DEF OfCreation
<1>9. ASSUME NEW o \in Op, UpdateRealm(o)
      PROVE  OwnInv'
  <2>1. /\ op[o].pc = "put" /\ realms' = Processed(op[o]) /\ UNCHANGED rows
        /\ op' = [op EXCEPT ![o] = Idle] /\ op[o] \in OpState
    BY <1>0, <1>9 DEF UpdateRealm, Attempt, Finish, Goto, TypeOK
  <2>2. \A n \in Realm : /\ realms'[n] = NULL <=> realms[n] = NULL
                         /\ realms[n] # NULL => realms'[n].by = realms[n].by
    BY <1>0, <2>1, ProcessedEffect DEF Attempting
  <2> QED BY <1>0, <2>1, <2>2, IdleKind, FrameKeeps
<1>10. ASSUME NEW o \in Op, SoftDelete(o)
       PROVE  OwnInv'
  <2>1. MarkDeleted(op[o].id) /\ op' = [op EXCEPT ![o] = Idle]
    BY <1>10 DEF SoftDelete, Execute, Finish, Goto
  <2> QED BY <1>0, <1>10, <2>1, MarkKeeps
<1>11. ~Crash /\ \A c \in late : ~KcLate(c)
  BY <1>0 DEF Crash, PromptInv
<1> QED BY <1>1, <1>2, <1>3, <1>4, <1>5, <1>6, <1>7, <1>8, <1>9, <1>10, <1>11 DEF Next, Advance

LEMMA OwnInit == ASSUME Faults = {} PROVE Init => OwnInv
  BY InitInvariant DEF Init, OwnInv, Claims, Unregistered, LiveHasRealm, RealmHasOwner, Live,
     OfCreation, Idle

\* When nothing fails, a live tenant has the realm made for it, unless a
\* deletion of this very tenant has got past the realm; whatever operations
\* run at once.
THEOREM LiveHasRealmHolds ==
  ASSUME Faults = {}
  PROVE  Spec => []LiveHasRealm
<1>1. OwnInv => LiveHasRealm
  BY DEF OwnInv
<1> QED BY <1>1, OwnInit, OwnStep, PTL DEF Spec

\* When nothing fails, a realm belongs to a live tenant or to a creation that
\* will yet register it or roll it back.
THEOREM RealmHasOwnerHolds ==
  ASSUME Faults = {}
  PROVE  Spec => []RealmHasOwner
<1>1. OwnInv => RealmHasOwner
  BY DEF OwnInv
<1> QED BY <1>1, OwnInit, OwnStep, PTL DEF Spec
=============================================================================

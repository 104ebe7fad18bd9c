------------------------ MODULE TenantLifecycleProofs ------------------------
(***************************************************************************)
(* The safety of TenantLifecycle for any number of operations, tenants and *)
(* realm names and any set of faults.                                      *)
(*                                                                         *)
(* A deletion deletes a realm by a name it read earlier.  That this is its *)
(* own tenant's realm rests on three facts: no two rows, deleted or not,   *)
(* have the same realm; a row never changes its realm; an operation on a   *)
(* row, in flight or given up by the server, names the row's realm.        *)
(***************************************************************************)
EXTENDS TenantLifecycle, TLAPS

OfCreation(c) == c.pc \in {"post", "insert", "rollback"}
OfRow(c) == c.pc \in {"update", "put", "drop", "softdelete"}

\* Deleted rows keep their realms (UNIQUE).
OneRowPerRealm ==
  \A t, u \in TenantID :
    rows[t] # NULL /\ rows[u] # NULL /\ rows[t].realm = rows[u].realm => t = u

DeletedStatus ==
  \A t \in TenantID : rows[t] # NULL /\ rows[t].deleted => rows[t].status = "deleted"

RowsDrawn == \A t \in TenantID : rows[t] # NULL => t \in drawn

\* A creation has its uuid to itself.
CreationAlone ==
  \A o \in Op :
    OfCreation(op[o]) =>
      /\ op[o].id \in drawn
      /\ \A q \in Op : OfCreation(op[q]) /\ op[q].id = op[o].id => q = o

NotInserted ==
  \A o \in Op : op[o].pc \in {"post", "insert"} => rows[op[o].id] = NULL

\* An operation on a row names its realm.
KnowsRow(c) == OfRow(c) => rows[c.id] # NULL /\ rows[c.id].realm = c.realm

OpsKnowRow == \A o \in Op : KnowsRow(op[o])
LateKnowRow == \A c \in late : KnowsRow(c)

IInv ==
  /\ TypeOK
  /\ OneRowPerRealm
  /\ DeletedStatus
  /\ RowsDrawn
  /\ CreationAlone
  /\ NotInserted
  /\ OpsKnowRow
  /\ LateKnowRow

(***************************************************************************)
(* When nothing is processed late, a realm bears the name its creation     *)
(* gave it, and none is made for a tenant whose row exists.                *)
(***************************************************************************)

RealmsDrawn == \A n \in Realm : realms[n] # NULL => realms[n].by \in drawn

RealmOfCreation ==
  \A o \in Op, n \in Realm :
    OfCreation(op[o]) /\ realms[n] # NULL /\ realms[n].by = op[o].id => n = op[o].realm

RealmOfRow ==
  \A n \in Realm :
    realms[n] # NULL /\ rows[realms[n].by] # NULL => rows[realms[n].by].realm = n

Dropped ==
  \A o \in Op, n \in Realm :
    op[o].pc = "softdelete" /\ realms[n] # NULL => realms[n].by # op[o].id

PromptInv ==
  /\ IInv
  /\ late = {}
  /\ RealmsDrawn
  /\ RealmOfCreation
  /\ RealmOfRow
  /\ Dropped
  /\ DeletedLeavesNoRealm
-----------------------------------------------------------------------------
(***************************************************************************)
(* What one step of an operation does to its own record.                   *)
(***************************************************************************)

\* s is where the operation c may move: its end, or further on the same
\* tenant and realm.
Moves(c, s) ==
  \/ s = Idle
  \/ OfRow(c) /\ OfRow(s) /\ s.id = c.id /\ s.realm = c.realm
  \/ /\ OfCreation(c) /\ OfCreation(s) /\ s.id = c.id /\ s.realm = c.realm
     /\ s.pc \in {"post", "insert"} => c.pc \in {"post", "insert"}

LEMMA Kinds ==
  ASSUME NEW c \in OpState
  PROVE  /\ OfCreation(c) => c \in CreateOp
         /\ c.pc \in {"update", "put"} => c \in SetOp
         /\ c.pc \in {"drop", "softdelete"} => c \in DeleteOp
         /\ c.pc # "idle" => c.id \in TenantID /\ c.realm \in Realm
         /\ c.pc # "idle" <=> OfCreation(c) \/ OfRow(c)
  BY DEF OpState, IdleOp, CreateOp, SetOp, DeleteOp, OfCreation, OfRow

LEMMA IdleKind == Idle \in OpState /\ Idle.pc = "idle" /\ ~OfCreation(Idle) /\ ~OfRow(Idle)
  BY DEF OpState, IdleOp, Idle, OfCreation, OfRow

\* The attempt after this one.
LEMMA Again ==
  ASSUME NEW c \in OpState, Attempting(c), c.try < MaxAttempts
  PROVE  /\ [c EXCEPT !.try = @ + 1] \in OpState
         /\ Moves(c, [c EXCEPT !.try = @ + 1])
         /\ [c EXCEPT !.try = @ + 1].pc # "softdelete"
<1>1. CASE c \in CreateOp
  BY <1>1 DEF CreateOp, OpState, Moves, OfRow, OfCreation, Attempting, MaxAttempts
<1>2. CASE c \in SetOp
  BY <1>2 DEF SetOp, OpState, Moves, OfRow, OfCreation, Attempting, MaxAttempts
<1>3. CASE c \in DeleteOp
  BY <1>3 DEF DeleteOp, OpState, Moves, OfRow, OfCreation, Attempting, MaxAttempts
<1> QED BY <1>1, <1>2, <1>3 DEF OpState, IdleOp, Attempting

\* Attempts are counted anew.
LEMMA FirstTry ==
  ASSUME NEW c
  PROVE  /\ c \in CreateOp => [c EXCEPT !.try = 1] \in CreateOp
         /\ c \in SetOp => [c EXCEPT !.try = 1] \in SetOp
         /\ c \in DeleteOp => [c EXCEPT !.try = 1] \in DeleteOp
<1>1. ASSUME c \in CreateOp PROVE [c EXCEPT !.try = 1] \in CreateOp
  BY <1>1 DEF CreateOp, MaxAttempts
<1>2. ASSUME c \in SetOp PROVE [c EXCEPT !.try = 1] \in SetOp
  BY <1>2 DEF SetOp, MaxAttempts
<1>3. ASSUME c \in DeleteOp PROVE [c EXCEPT !.try = 1] \in DeleteOp
  BY <1>3 DEF DeleteOp, MaxAttempts
<1> QED BY <1>1, <1>2, <1>3

\* The next call of the same operation.
LEMMA NextCallType ==
  ASSUME NEW c \in OpState, NEW pc,
         \/ c.pc = "post" /\ pc = "insert"
         \/ c.pc = "insert" /\ pc = "rollback"
         \/ c.pc = "update" /\ pc = "put"
         \/ c.pc = "drop" /\ pc = "softdelete"
  PROVE  /\ NextCall(c, pc) \in OpState
         /\ Moves(c, NextCall(c, pc))
         /\ NextCall(c, pc).pc = pc
<1> DEFINE d == [c EXCEPT !.pc = pc]
           s == NextCall(c, pc)
<1>1. s = [d EXCEPT !.try = 1]
  BY DEF NextCall
<1>2. CASE (c.pc = "post" /\ pc = "insert") \/ (c.pc = "insert" /\ pc = "rollback")
  <2>1. c \in CreateOp
    BY <1>2, Kinds DEF OfCreation
  <2>2. d \in CreateOp
    BY <1>2, <2>1 DEF CreateOp
  <2>3. s \in CreateOp
    BY <1>1, <2>2, FirstTry
  <2>4. s.pc = pc /\ s.id = c.id /\ s.realm = c.realm
    BY <2>1 DEF CreateOp, NextCall
  <2> QED BY <1>2, <2>3, <2>4 DEF OpState, Moves, OfCreation
<1>3. CASE c.pc = "update" /\ pc = "put"
  <2>1. c \in SetOp
    BY <1>3, Kinds
  <2>2. d \in SetOp
    BY <1>3, <2>1 DEF SetOp
  <2>3. s \in SetOp
    BY <1>1, <2>2, FirstTry
  <2>4. s.pc = pc /\ s.id = c.id /\ s.realm = c.realm
    BY <2>1 DEF SetOp, NextCall
  <2> QED BY <1>3, <2>3, <2>4 DEF OpState, Moves, OfRow
<1>4. CASE c.pc = "drop" /\ pc = "softdelete"
  <2>1. c \in DeleteOp
    BY <1>4, Kinds
  <2>2. d \in DeleteOp
    BY <1>4, <2>1 DEF DeleteOp
  <2>3. s \in DeleteOp
    BY <1>1, <2>2, FirstTry
  <2>4. s.pc = pc /\ s.id = c.id /\ s.realm = c.realm
    BY <2>1 DEF DeleteOp, NextCall
  <2> QED BY <1>4, <2>3, <2>4 DEF OpState, Moves, OfRow
<1> QED BY <1>2, <1>3, <1>4

LEMMA ProcessedType ==
  ASSUME TypeOK, NEW c \in OpState, Attempting(c)
  PROVE  Processed(c) \in [Realm -> RealmRep \cup {NULL}]
<1>1. CASE c.pc = "post"
  BY <1>1, Kinds DEF TypeOK, Processed, RealmRep, OfCreation, CreateOp
<1>2. CASE c.pc \in {"rollback", "drop"}
  BY <1>2, Kinds DEF TypeOK, Processed, OfCreation, OfRow
<1>3. CASE c.pc = "put"
  <2>1. c.realm \in Realm /\ (c.status = "active") \in BOOLEAN
    BY <1>3, Kinds
  <2>2. CASE realms[c.realm] = NULL
    BY <1>3, <2>2 DEF TypeOK, Processed
  <2>3. CASE realms[c.realm] # NULL
    <3>1. [realms[c.realm] EXCEPT !.on = (c.status = "active")] \in RealmRep
      BY <2>1, <2>3 DEF TypeOK, RealmRep
    <3> QED BY <1>3, <2>1, <2>3, <3>1 DEF TypeOK, Processed
  <2> QED BY <2>2, <2>3
<1> QED BY <1>1, <1>2, <1>3 DEF Attempting

\* An attempt at Keycloak takes effect or does not, and the operation ends,
\* tries again or goes on.
LEMMA AttemptStep ==
  ASSUME TypeOK, NEW o \in Op,
         CreateRealm(o) \/ Rollback(o) \/ UpdateRealm(o) \/ DeleteRealm(o)
  PROVE  \E s \in OpState :
           /\ op' = [op EXCEPT ![o] = s]
           /\ Moves(op[o], s)
           /\ op[o] \in OpState /\ Attempting(op[o])
           /\ s # op[o]
           /\ realms' \in {realms, Processed(op[o])}
           /\ late' = late \/ ("late" \in Faults /\ late' = late \cup {op[o]})
           /\ s.pc = "softdelete" => op[o].pc = "drop" /\ realms' = Processed(op[o])
           /\ UNCHANGED <<rows, drawn>>
<1> DEFINE again == [op[o] EXCEPT !.try = @ + 1]
<1>1. op[o] \in OpState /\ Attempting(op[o])
  BY DEF TypeOK, CreateRealm, Rollback, UpdateRealm, DeleteRealm, Attempting
<1>2. ASSUME TryAgain(o)
      PROVE  \E s \in OpState : /\ op' = [op EXCEPT ![o] = s] /\ Moves(op[o], s)
                                /\ s.pc # "softdelete" /\ s # op[o]
  <2>1. CASE op[o].try < MaxAttempts
    <3>1. op' = [op EXCEPT ![o] = again]
      BY <1>2, <2>1 DEF TryAgain, Goto
    <3>2. again # op[o]
      BY <1>1, Kinds DEF Attempting, OfCreation, CreateOp, SetOp, DeleteOp
    <3> QED BY <1>1, <2>1, <3>1, <3>2, Again
  <2>2. CASE ~(op[o].try < MaxAttempts)
    BY <1>1, <1>2, <2>2, IdleKind DEF TryAgain, Finish, Goto, Moves, Attempting
  <2> QED BY <2>1, <2>2
<1>3. ASSUME Finish(o)
      PROVE  \E s \in OpState : /\ op' = [op EXCEPT ![o] = s] /\ Moves(op[o], s)
                                /\ s.pc # "softdelete" /\ s # op[o]
  BY <1>1, <1>3, IdleKind DEF Finish, Goto, Moves, Attempting
<1>4. ASSUME NEW pc, Proceed(o, pc),
             \/ op[o].pc = "post" /\ pc = "insert"
             \/ op[o].pc = "drop" /\ pc = "softdelete"
      PROVE  \E s \in OpState : /\ op' = [op EXCEPT ![o] = s] /\ Moves(op[o], s)
                                /\ s.pc = pc /\ s # op[o]
  <2>1. op' = [op EXCEPT ![o] = NextCall(op[o], pc)]
    BY <1>4 DEF Proceed, Goto
  <2> QED BY <1>1, <1>4, <2>1, NextCallType
<1>5. CASE CreateRealm(o)
  <2>1. CASE realms' = Processed(op[o]) /\ late' = late /\ Proceed(o, "insert")
    BY <1>1, <1>4, <1>5, <2>1 DEF CreateRealm
  <2>2. CASE TryAgain(o) \/ Finish(o)
    BY <1>1, <1>2, <1>3, <1>5, <2>2 DEF CreateRealm, Attempt
  <2> QED BY <1>5, <2>1, <2>2 DEF CreateRealm, Attempt
<1>6. CASE Rollback(o)
  BY <1>1, <1>2, <1>3, <1>6 DEF Rollback, Attempt
<1>7. CASE UpdateRealm(o)
  BY <1>1, <1>2, <1>3, <1>7 DEF UpdateRealm, Attempt
<1>8. CASE DeleteRealm(o)
  BY <1>1, <1>2, <1>3, <1>4, <1>8 DEF DeleteRealm, Attempt
<1> QED BY <1>5, <1>6, <1>7, <1>8
-----------------------------------------------------------------------------
(***************************************************************************)
(* The invariant of every fault model.                                     *)
(***************************************************************************)

LEMMA InitInvariant == Init => IInv /\ ("late" \notin Faults => PromptInv)
  BY DEF Init, IInv, PromptInv, TypeOK, OneRowPerRealm, DeletedStatus, RowsDrawn,
         CreationAlone, NotInserted, OpsKnowRow, LateKnowRow, KnowsRow, OfCreation, OfRow,
         RealmsDrawn, RealmOfCreation, RealmOfRow, Dropped, DeletedLeavesNoRealm,
         OpState, IdleOp, Idle

\* A step that moves one operation along and leaves the rows their realms.
LEMMA MoveKeeps ==
  ASSUME IInv, NEW o \in Op, NEW s \in OpState,
         op' = [op EXCEPT ![o] = s],
         Moves(op[o], s) \/ (KnowsRow(s) /\ OfRow(s)),
         rows' \in [TenantID -> Row \cup {NULL}],
         \A t \in TenantID : /\ rows'[t] = NULL <=> rows[t] = NULL
                             /\ rows[t] # NULL => rows'[t].realm = rows[t].realm,
         DeletedStatus',
         realms' \in [Realm -> RealmRep \cup {NULL}],
         late' = late \/ (Attempting(op[o]) /\ late' = late \cup {op[o]}),
         drawn' = drawn
  PROVE  IInv'
<1> USE DEF IInv
<1>1. op[o] \in OpState /\ op'[o] = s /\ \A q \in Op : q # o => op'[q] = op[q]
  BY DEF TypeOK
<1>2. OfCreation(s) => /\ OfCreation(op[o]) /\ s.id = op[o].id
                       /\ s.pc \in {"post", "insert"} => op[o].pc \in {"post", "insert"}
  BY IdleKind DEF Moves, OfRow, OfCreation
<1>3. OfRow(s) => KnowsRow(s)
  <2>1. CASE OfRow(op[o]) /\ s.id = op[o].id /\ s.realm = op[o].realm
    BY <2>1 DEF OpsKnowRow, KnowsRow
  <2> QED BY <2>1, IdleKind DEF Moves, KnowsRow, OfCreation, OfRow
<1>4. \A c \in OpState : KnowsRow(c) => KnowsRow(c)'
  BY Kinds DEF KnowsRow
<1>5. TypeOK'
  BY <1>1 DEF TypeOK
<1>6. OneRowPerRealm' /\ RowsDrawn'
  BY DEF OneRowPerRealm, RowsDrawn
<1>7. CreationAlone'
  BY <1>1, <1>2 DEF CreationAlone
<1>8. NotInserted'
  <2> SUFFICES ASSUME NEW q \in Op, op'[q].pc \in {"post", "insert"}
               PROVE  rows'[op'[q].id] = NULL
    BY DEF NotInserted
  <2>1. op[q] \in OpState
    BY DEF TypeOK
  <2>2. op[q].pc \in {"post", "insert"} /\ op'[q].id = op[q].id
    BY <1>1, <1>2 DEF OfCreation
  <2> QED BY <2>1, <2>2, Kinds DEF NotInserted
<1>9. OpsKnowRow'
  <2>1. \A q \in Op : op'[q] \in OpState /\ KnowsRow(op'[q])
    BY <1>1, <1>3 DEF OpsKnowRow, TypeOK, KnowsRow
  <2> QED BY <1>4, <2>1 DEF OpsKnowRow, KnowsRow
<1>10. LateKnowRow'
  BY <1>1, <1>4 DEF LateKnowRow, OpsKnowRow, TypeOK, KnowsRow
<1> QED BY <1>5, <1>6, <1>7, <1>8, <1>9, <1>10

LEMMA CreateTenantKeeps ==
  ASSUME IInv, NEW o \in Op, NEW t \in TenantID, NEW n \in Realm, NEW d \in Domain,
         CreateTenant(o, t, n, d)
  PROVE  IInv'
<1> DEFINE s == [pc |-> "post", id |-> t, realm |-> n, domain |-> d, try |-> 1]
<1> USE DEF IInv
<1>1. s \in OpState /\ s.pc = "post" /\ s.id = t
  BY DEF OpState, CreateOp, MaxAttempts
<1>2. /\ op' = [op EXCEPT ![o] = s] /\ t \notin drawn /\ drawn' = drawn \cup {t}
      /\ UNCHANGED <<rows, realms, late>>
  BY DEF CreateTenant, Goto
<1> HIDE DEF s
<1>3. op'[o] = s /\ \A q \in Op : q # o => op'[q] = op[q]
  BY <1>2 DEF TypeOK
<1>4. TypeOK'
  BY <1>1, <1>2 DEF TypeOK
<1>5. OneRowPerRealm' /\ DeletedStatus' /\ RowsDrawn' /\ LateKnowRow'
  BY <1>2 DEF OneRowPerRealm, DeletedStatus, RowsDrawn, LateKnowRow, KnowsRow
<1>6. CreationAlone'
  BY <1>1, <1>2, <1>3 DEF CreationAlone
<1>7. NotInserted'
  BY <1>1, <1>2, <1>3 DEF NotInserted, RowsDrawn
<1>8. OpsKnowRow'
  BY <1>1, <1>2, <1>3 DEF OpsKnowRow, KnowsRow, OfRow
<1> QED BY <1>4, <1>5, <1>6, <1>7, <1>8

\* The insert of a creation's row; what becomes of the operation is open.
LEMMA InsertKeeps ==
  ASSUME IInv, NEW o \in Op, op[o].pc = "insert",
         ~RealmTaken(op[o].realm), InsertRow(o),
         Finish(o) \/ Proceed(o, "rollback"),
         UNCHANGED <<realms, late, drawn>>
  PROVE  IInv'
<1> DEFINE c == op[o]
           row == [realm |-> c.realm, domain |-> c.domain,
                   status |-> "active", deleted |-> FALSE, restamped |-> FALSE]
<1> USE DEF IInv
<1>1. c \in OpState /\ c \in CreateOp /\ OfCreation(c) /\ rows[c.id] = NULL /\ c.id \in drawn
  BY Kinds DEF TypeOK, OfCreation, NotInserted, CreationAlone
<1>2. row \in Row /\ row # NULL /\ row.realm = c.realm /\ ~row.deleted
  <2>1. c.realm \in Realm /\ c.domain \in Domain
    BY <1>1 DEF CreateOp
  <2>2. row \in Row
    BY <2>1 DEF Row, Status
  <2> QED BY <2>2, NullAssumption
<1>3. PICK s \in OpState : /\ op' = [op EXCEPT ![o] = s]
                          /\ \/ s.pc = "idle"
                             \/ s.pc = "rollback" /\ s.id = c.id
  <2>1. CASE Finish(o)
    BY <2>1, IdleKind DEF Finish, Goto
  <2>2. CASE Proceed(o, "rollback")
    <3>1. op' = [op EXCEPT ![o] = NextCall(c, "rollback")]
      BY <2>2 DEF Proceed, Goto
    <3>2. /\ NextCall(c, "rollback") \in OpState
          /\ NextCall(c, "rollback").pc = "rollback"
          /\ Moves(c, NextCall(c, "rollback"))
      BY <1>1, NextCallType
    <3> QED BY <3>1, <3>2, IdleKind DEF Moves, OfRow, OfCreation
  <2> QED BY <2>1, <2>2
<1>4. op'[o] = s /\ \A q \in Op : q # o => op'[q] = op[q]
  <2>1. op \in [Op -> OpState]
    BY DEF TypeOK
  <2> QED BY <1>3, <2>1
<1>5. rows' = [rows EXCEPT ![c.id] = row]
  BY DEF InsertRow
<1> HIDE DEF c, row
<1>6. c.id \in TenantID /\ rows'[c.id] = row /\ \A t \in TenantID : t # c.id => rows'[t] = rows[t]
  BY <1>1, <1>5 DEF CreateOp, TypeOK
<1>7. TypeOK'
  <2>1. rows' \in [TenantID -> Row \cup {NULL}]
    BY <1>2, <1>5, <1>6 DEF TypeOK
  <2>2. op' \in [Op -> OpState]
    BY <1>3 DEF TypeOK
  <2> QED BY <2>1, <2>2 DEF TypeOK
<1>8. OneRowPerRealm'
  BY <1>2, <1>6 DEF OneRowPerRealm, RealmTaken, c
<1>9. DeletedStatus' /\ RowsDrawn'
  BY <1>1, <1>2, <1>6 DEF DeletedStatus, RowsDrawn
<1>10. CreationAlone'
  BY <1>1, <1>3, <1>4 DEF CreationAlone, OfCreation, c
<1>11. NotInserted'
  <2> SUFFICES ASSUME NEW q \in Op, op'[q].pc \in {"post", "insert"}
               PROVE  rows'[op'[q].id] = NULL
    BY DEF NotInserted
  <2>1. q # o /\ op'[q] = op[q]
    BY <1>3, <1>4, IdleKind
  <2>2. op[q].id # c.id /\ op[q].id \in TenantID
    BY <1>1, <2>1, Kinds DEF CreationAlone, OfCreation, TypeOK, c
  <2> QED BY <1>6, <2>1, <2>2 DEF NotInserted
<1>12. \A x \in OpState : KnowsRow(x) => KnowsRow(x)'
  BY <1>1, <1>6, Kinds DEF KnowsRow
<1>13. OpsKnowRow'
  <2>1. \A q \in Op : op'[q] \in OpState /\ KnowsRow(op'[q])
    BY <1>3, <1>4 DEF OpsKnowRow, KnowsRow, OfRow, TypeOK
  <2> QED BY <1>12, <2>1 DEF OpsKnowRow, KnowsRow
<1>14. LateKnowRow'
  BY <1>12 DEF LateKnowRow, KnowsRow, TypeOK
<1> QED BY <1>7, <1>8, <1>9, <1>10, <1>11, <1>13, <1>14

\* A row marked deleted stays so, but for the time of its deletion.
StaysDeleted ==
  \A u \in TenantID : rows[u] # NULL /\ rows[u].deleted =>
    /\ rows'[u] \in {rows[u], Restamped(rows[u])}
    /\ rows'[u].deleted

\* What marking a row makes of it.
LEMMA MarkedRow ==
  ASSUME NEW r \in Row
  PROVE  /\ Marked(r) \in Row
         /\ Marked(r).realm = r.realm /\ Marked(r).domain = r.domain
         /\ Marked(r).status = "deleted" /\ Marked(r).deleted
         /\ r.deleted /\ r.status = "deleted" => Marked(r) = Restamped(r)
<1> DEFINE s == [r EXCEPT !.status = "deleted"]
           d == [s EXCEPT !.deleted = TRUE]
           m == [d EXCEPT !.restamped = r.deleted]
<1>1. Marked(r) = m
  BY DEF Marked
<1>2. /\ s \in Row /\ s.realm = r.realm /\ s.domain = r.domain /\ s.status = "deleted"
      /\ s.deleted = r.deleted /\ r.deleted \in BOOLEAN
      /\ r.status = "deleted" => s = r
  BY DEF Row, Status
<1> HIDE DEF s
<1>3. /\ d \in Row /\ d.realm = r.realm /\ d.domain = r.domain /\ d.status = "deleted"
      /\ d.deleted
      /\ r.deleted => d = s
  BY <1>2 DEF Row
<1> HIDE DEF d
<1>4. /\ m \in Row /\ m.realm = r.realm /\ m.domain = r.domain /\ m.status = "deleted"
      /\ m.deleted
  BY <1>2, <1>3 DEF Row
<1>5. r.deleted /\ r.status = "deleted" => m = Restamped(r)
  BY <1>2, <1>3 DEF Restamped
<1> QED BY <1>1, <1>4, <1>5

\* The status writes leave the rows, their realms and the deleted ones alone.
LEMMA StatusKeeps ==
  ASSUME IInv, NEW t \in TenantID, rows[t] # NULL,
         \/ \E st \in {"active", "suspended"} : WriteStatus(t, st)
         \/ MarkDeleted(t)
  PROVE  /\ rows' \in [TenantID -> Row \cup {NULL}]
         /\ \A u \in TenantID : /\ rows'[u] = NULL <=> rows[u] = NULL
                                /\ rows[u] # NULL => rows'[u].realm = rows[u].realm
         /\ DeletedStatus'
         /\ StaysDeleted
<1> USE DEF IInv
<1>1. rows[t] \in Row
  BY DEF TypeOK
<1>2. ASSUME NEW r \in Row, rows' = [rows EXCEPT ![t] = r], r.realm = rows[t].realm,
             r.deleted => r.status = "deleted", rows[t].deleted => r.deleted /\ r \in {rows[t], Restamped(rows[t])}
      PROVE  /\ rows' \in [TenantID -> Row \cup {NULL}]
             /\ \A u \in TenantID : /\ rows'[u] = NULL <=> rows[u] = NULL
                                    /\ rows[u] # NULL => rows'[u].realm = rows[u].realm
             /\ DeletedStatus'
             /\ StaysDeleted
  BY <1>2, NullAssumption DEF TypeOK, DeletedStatus, StaysDeleted
<1>3. CASE \E st \in {"active", "suspended"} : WriteStatus(t, st)
  <2> PICK st \in {"active", "suspended"} : WriteStatus(t, st)
    BY <1>3
  <2> DEFINE r == [rows[t] EXCEPT !.status = st]
  <2>1. CASE Live(t)
    <3>1. r \in Row /\ r.realm = rows[t].realm /\ r.deleted = rows[t].deleted
      BY <1>1 DEF Row, Status
    <3>2. rows' = [rows EXCEPT ![t] = r]
      BY <2>1 DEF WriteStatus
    <3> HIDE DEF r
    <3> QED BY <1>2, <2>1, <3>1, <3>2 DEF Live
  <2>2. CASE ~Live(t)
    BY <2>2 DEF WriteStatus, TypeOK, DeletedStatus, StaysDeleted
  <2> QED BY <2>1, <2>2
<1>4. CASE MarkDeleted(t)
  <2> DEFINE r == Marked(rows[t])
  <2>1. rows' = [rows EXCEPT ![t] = r]
    BY <1>4 DEF MarkDeleted
  <2>2. /\ r \in Row /\ r.realm = rows[t].realm /\ r.status = "deleted" /\ r.deleted
        /\ rows[t].deleted => r = Restamped(rows[t])
    BY <1>1, MarkedRow DEF DeletedStatus
  <2> HIDE DEF r
  <2> QED BY <1>2, <2>1, <2>2
<1> QED BY <1>3, <1>4

\* A step that starts an operation on a row.
LEMMA StartKeeps ==
  ASSUME IInv, NEW o \in Op, NEW t \in TenantID,
         SuspendTenant(o, t) \/ EnableTenant(o, t) \/ DeleteTenant(o, t)
  PROVE  /\ IInv'
         /\ UNCHANGED <<rows, realms, late, drawn>>
         /\ UNCHANGED op \/ (\E s \in OpState : /\ op' = [op EXCEPT ![o] = s]
                                              /\ OfRow(s) /\ s.pc # "softdelete")
<1> USE DEF IInv
<1>1. UNCHANGED <<rows, realms, late, drawn>>
  BY DEF SuspendTenant, EnableTenant, SetStatus, DeleteTenant
<1>2. CASE UNCHANGED op
  BY <1>1, <1>2 DEF TypeOK, OneRowPerRealm, DeletedStatus, RowsDrawn, CreationAlone,
                    NotInserted, OpsKnowRow, LateKnowRow, KnowsRow
<1>3. CASE Live(t) /\ ~UNCHANGED op
  <2>1. rows[t] \in Row /\ rows[t].realm \in Realm
    BY <1>3 DEF TypeOK, Live, Row
  <2>2. PICK s \in OpState : /\ op' = [op EXCEPT ![o] = s] /\ OfRow(s) /\ s.id = t
                            /\ s.realm = rows[t].realm /\ s.pc # "softdelete"
    <3> DEFINE set(st) == [pc |-> "update", id |-> t, realm |-> rows[t].realm,
                           status |-> st, try |-> 1]
               del == [pc |-> "drop", id |-> t, realm |-> rows[t].realm, try |-> 1]
    <3>1. /\ set("active") \in SetOp /\ set("suspended") \in SetOp /\ del \in DeleteOp
      BY <2>1 DEF SetOp, DeleteOp, MaxAttempts
    <3>2. \/ op' = [op EXCEPT ![o] = set("active")]
          \/ op' = [op EXCEPT ![o] = set("suspended")]
          \/ op' = [op EXCEPT ![o] = del]
      BY <1>3 DEF SuspendTenant, EnableTenant, SetStatus, DeleteTenant, Goto
    <3>3. /\ OfRow(set("active")) /\ OfRow(set("suspended")) /\ OfRow(del)
          /\ set("active").pc = "update" /\ set("suspended").pc = "update" /\ del.pc = "drop"
          /\ \A x \in {set("active"), set("suspended"), del} :
               x.id = t /\ x.realm = rows[t].realm
      BY DEF OfRow
    <3> HIDE DEF set, del
    <3> QED BY <3>1, <3>2, <3>3 DEF OpState
  <2>3. KnowsRow(s)
    BY <1>3, <2>2 DEF KnowsRow, Live
  <2> QED BY <1>1, <2>2, <2>3, MoveKeeps DEF TypeOK, DeletedStatus
<1> QED BY <1>2, <1>3 DEF SuspendTenant, EnableTenant, SetStatus, DeleteTenant

\* The statements on an existing row.
LEMMA StatementStep ==
  ASSUME IInv, NEW o \in Op, Update(o) \/ SoftDelete(o)
  PROVE  /\ \E s \in OpState : /\ op' = [op EXCEPT ![o] = s] /\ Moves(op[o], s)
                              /\ s.pc # "softdelete"
         /\ rows' \in [TenantID -> Row \cup {NULL}]
         /\ \A u \in TenantID : /\ rows'[u] = NULL <=> rows[u] = NULL
                                /\ rows[u] # NULL => rows'[u].realm = rows[u].realm
         /\ DeletedStatus'
         /\ StaysDeleted
         /\ UNCHANGED <<realms, late, drawn>>
<1> DEFINE c == op[o]
<1>1. /\ c \in OpState /\ c.id \in TenantID /\ rows[c.id] # NULL
      /\ c.pc = "update" => c.status \in {"active", "suspended"}
  BY Kinds DEF IInv, TypeOK, Update, SoftDelete, OpsKnowRow, KnowsRow, OfRow, SetOp
<1>2. \/ UNCHANGED rows
      \/ \E st \in {"active", "suspended"} : WriteStatus(c.id, st)
      \/ MarkDeleted(c.id)
  BY <1>1 DEF Update, SoftDelete, Execute
<1>3. /\ rows' \in [TenantID -> Row \cup {NULL}]
      /\ \A u \in TenantID : /\ rows'[u] = NULL <=> rows[u] = NULL
                             /\ rows[u] # NULL => rows'[u].realm = rows[u].realm
      /\ DeletedStatus'
      /\ StaysDeleted
  <2>1. CASE UNCHANGED rows
    BY <2>1 DEF IInv, TypeOK, DeletedStatus, StaysDeleted
  <2> QED BY <1>1, <1>2, <2>1, StatusKeeps
<1>4. \E s \in OpState : /\ op' = [op EXCEPT ![o] = s] /\ Moves(op[o], s)
                         /\ s.pc # "softdelete"
  <2>1. CASE Finish(o)
    BY <2>1, IdleKind DEF Finish, Goto, Moves
  <2>2. CASE c.pc = "update" /\ Proceed(o, "put")
    <3>1. op' = [op EXCEPT ![o] = NextCall(c, "put")]
      BY <2>2 DEF Proceed, Goto
    <3> QED BY <1>1, <2>2, <3>1, NextCallType
  <2> QED BY <2>1, <2>2 DEF Update, SoftDelete, Execute
<1> QED BY <1>3, <1>4 DEF Update, SoftDelete

\* An insert takes effect or does not; a creation that meets an error, or a
\* name that is taken, goes on to the rollback.
LEMMA CreateStep ==
  ASSUME IInv, NEW o \in Op, Create(o)
  PROVE  /\ op[o].pc = "insert" /\ UNCHANGED <<realms, late, drawn>>
         /\ \E s \in OpState : /\ op' = [op EXCEPT ![o] = s] /\ Moves(op[o], s)
                              /\ s.pc # "softdelete"
         /\ Finish(o) \/ Proceed(o, "rollback")
         /\ \/ UNCHANGED rows
            \/ ~RealmTaken(op[o].realm) /\ InsertRow(o)
<1>1. op[o] \in OpState /\ op[o].pc = "insert"
  BY DEF IInv, TypeOK, Create
<1>2. Finish(o) \/ Proceed(o, "rollback")
  BY DEF Create, Execute
<1>3. \E s \in OpState : /\ op' = [op EXCEPT ![o] = s] /\ Moves(op[o], s)
                         /\ s.pc # "softdelete"
  <2>1. CASE Finish(o)
    BY <2>1, IdleKind DEF Finish, Goto, Moves
  <2>2. CASE Proceed(o, "rollback")
    <3>1. op' = [op EXCEPT ![o] = NextCall(op[o], "rollback")]
      BY <2>2 DEF Proceed, Goto
    <3>2. /\ NextCall(op[o], "rollback") \in OpState
          /\ Moves(op[o], NextCall(op[o], "rollback"))
          /\ NextCall(op[o], "rollback").pc = "rollback"
      BY <1>1, NextCallType
    <3> QED BY <3>1, <3>2
  <2> QED BY <1>2, <2>1, <2>2
<1> QED BY <1>1, <1>2, <1>3 DEF Create, Execute

THEOREM StepInvariant == IInv /\ [Next]_vars => IInv'
<1> SUFFICES ASSUME IInv, [Next]_vars PROVE IInv'
  OBVIOUS
<1>1. ASSUME NEW o \in Op, NEW t \in TenantID, NEW n \in Realm, NEW d \in Domain,
             CreateTenant(o, t, n, d)
      PROVE  IInv'
  BY <1>1, CreateTenantKeeps
<1>2. ASSUME NEW o \in Op, NEW t \in TenantID,
             SuspendTenant(o, t) \/ EnableTenant(o, t) \/ DeleteTenant(o, t)
      PROVE  IInv'
  BY <1>2, StartKeeps
<1>3. ASSUME NEW o \in Op,
             CreateRealm(o) \/ Rollback(o) \/ UpdateRealm(o) \/ DeleteRealm(o)
      PROVE  IInv'
  <2>1. PICK s \in OpState :
           /\ op' = [op EXCEPT ![o] = s]
           /\ Moves(op[o], s)
           /\ op[o] \in OpState /\ Attempting(op[o])
           /\ realms' \in {realms, Processed(op[o])}
           /\ late' = late \/ late' = late \cup {op[o]}
           /\ UNCHANGED <<rows, drawn>>
    BY <1>3, AttemptStep DEF IInv
  <2>2. realms' \in [Realm -> RealmRep \cup {NULL}]
    BY <2>1, ProcessedType DEF IInv, TypeOK
  <2> QED BY <2>1, <2>2, MoveKeeps DEF IInv, TypeOK, DeletedStatus
<1>4. ASSUME NEW o \in Op, Create(o)
      PROVE  IInv'
  <2>1. CASE UNCHANGED rows
    BY <1>4, <2>1, CreateStep, MoveKeeps DEF IInv, TypeOK, DeletedStatus
  <2> QED BY <1>4, <2>1, CreateStep, InsertKeeps
<1>5. ASSUME NEW o \in Op, Update(o) \/ SoftDelete(o)
      PROVE  IInv'
  <2>1. realms \in [Realm -> RealmRep \cup {NULL}]
    BY DEF IInv, TypeOK
  <2> QED BY <1>5, <2>1, StatementStep, MoveKeeps
<1>6. ASSUME NEW c \in late, KcLate(c)
      PROVE  IInv'
  <2>1. c \in OpState /\ Attempting(c)
    BY DEF IInv, TypeOK
  <2>2. TypeOK'
    BY <1>6, <2>1, ProcessedType DEF KcLate, IInv, TypeOK
  <2> QED BY <1>6, <2>2 DEF KcLate, IInv, OneRowPerRealm, DeletedStatus, RowsDrawn,
             CreationAlone, NotInserted, OpsKnowRow, LateKnowRow, KnowsRow
<1>7. CASE Crash
  <2>1. TypeOK'
    BY <1>7, IdleKind DEF Crash, IInv, TypeOK
  <2> QED BY <1>7, <2>1, IdleKind DEF Crash, IInv, OneRowPerRealm, DeletedStatus,
             RowsDrawn, CreationAlone, NotInserted, OpsKnowRow, LateKnowRow, KnowsRow
<1>8. CASE UNCHANGED vars
  BY <1>8 DEF vars, IInv, TypeOK, OneRowPerRealm, DeletedStatus, RowsDrawn,
              CreationAlone, NotInserted, OpsKnowRow, LateKnowRow, KnowsRow
<1> QED BY <1>1, <1>2, <1>3, <1>4, <1>5, <1>6, <1>7, <1>8 DEF Next, Advance

\* What Keycloak does to a realm it finds, or makes.
LEMMA ProcessedEffect ==
  ASSUME TypeOK, NEW c \in OpState, Attempting(c), NEW n \in Realm
  PROVE  /\ realms[n] # NULL /\ Processed(c)[n] = NULL
              => c.pc \in {"rollback", "drop"} /\ n = c.realm
         /\ Processed(c)[n] # NULL =>
              \/ realms[n] # NULL /\ Processed(c)[n].by = realms[n].by
              \/ c.pc = "post" /\ n = c.realm /\ Processed(c)[n].by = c.id
         /\ c.pc \in {"rollback", "drop"} => Processed(c)[c.realm] = NULL
<1>1. CASE c.pc = "post"
  <2>1. Processed(c) = realms \/ Processed(c) = [realms EXCEPT ![c.realm] = [on |-> TRUE, by |-> c.id]]
    BY <1>1 DEF Processed
  <2>2. [on |-> TRUE, by |-> c.id] \in RealmRep
    BY <1>1, Kinds DEF RealmRep
  <2> QED BY <1>1, <2>1, <2>2, NullAssumption DEF TypeOK
<1>2. CASE c.pc \in {"rollback", "drop"}
  BY <1>2, Kinds DEF TypeOK, Processed
<1>3. CASE c.pc = "put"
  <2>1. CASE realms[c.realm] = NULL
    BY <1>3, <2>1 DEF Processed
  <2>2. CASE realms[c.realm] # NULL
    <3> DEFINE r == [realms[c.realm] EXCEPT !.on = (c.status = "active")]
    <3>1. c.realm \in Realm /\ realms[c.realm] \in RealmRep
      BY <1>3, <2>2, Kinds DEF TypeOK
    <3>2. r \in RealmRep /\ r.by = realms[c.realm].by
      BY <3>1 DEF RealmRep
    <3>3. Processed(c) = [realms EXCEPT ![c.realm] = r]
      BY <1>3, <2>2 DEF Processed
    <3> HIDE DEF r
    <3> QED BY <1>3, <3>1, <3>2, <3>3, NullAssumption DEF TypeOK
  <2> QED BY <2>1, <2>2
<1> QED BY <1>1, <1>2, <1>3 DEF Attempting

\* Every variable keeps its type.
THEOREM TypeCorrect == Spec => []TypeOK
<1>1. IInv => TypeOK
  BY DEF IInv
<1> QED BY <1>1, InitInvariant, StepInvariant, PTL DEF Spec

\* Rows stay, with their realms, and those marked deleted stay as they are,
\* but for the time of their deletion.
LEMMA RowsStay ==
  ASSUME IInv, [Next]_vars, NEW t \in TenantID, rows[t] # NULL
  PROVE  /\ rows'[t] # NULL /\ rows'[t].realm = rows[t].realm
         /\ rows[t].deleted => /\ rows'[t] \in {rows[t], Restamped(rows[t])}
                               /\ rows'[t].deleted
<1>1. ASSUME NEW o \in Op, Create(o)
      PROVE  rows'[t] = rows[t]
  <2>1. rows[op[o].id] = NULL
    BY <1>1, CreateStep DEF IInv, NotInserted
  <2> QED BY <1>1, <2>1, CreateStep DEF InsertRow, IInv, TypeOK
<1>2. ASSUME NEW o \in Op, Update(o) \/ SoftDelete(o)
      PROVE  /\ rows'[t] # NULL /\ rows'[t].realm = rows[t].realm
             /\ rows[t].deleted => /\ rows'[t] \in {rows[t], Restamped(rows[t])}
                                   /\ rows'[t].deleted
  BY <1>2, StatementStep DEF StaysDeleted
<1>3. CASE UNCHANGED rows
  BY <1>3
<1> QED BY <1>1, <1>2, <1>3 DEF Next, Advance, CreateTenant, SuspendTenant, EnableTenant,
                DeleteTenant, SetStatus, CreateRealm, Rollback, UpdateRealm, DeleteRealm,
                KcLate, Crash, vars

\* No step changes a tenant marked deleted: the time of its deletion at most.
THEOREM DeletedIsFinalHolds == Spec => DeletedIsFinal
<1>1. IInv /\ [Next]_vars =>
        [\A t \in TenantID : rows[t] # NULL /\ rows[t].deleted
           => rows'[t] \in {rows[t], Restamped(rows[t])}]_vars
  BY RowsStay
<1> QED BY <1>1, InitInvariant, StepInvariant, PTL DEF Spec, DeletedIsFinal

\* A live tenant loses its realm to its own deletion or to a rollback only.
THEOREM RealmLostOnlyToItsOwnerHolds == Spec => RealmLostOnlyToItsOwner
<1> DEFINE Lost(t) == Live(t) /\ realms[rows[t].realm] # NULL /\ realms'[rows[t].realm] = NULL
           Owners == {op[o] : o \in {p \in Op : op'[p] # op[p]}} \cup (late \ late')
           Owner(t) == \E c \in Owners :
                         /\ c.pc \in {"drop", "rollback"} /\ c.realm = rows[t].realm
                         /\ c.pc = "drop" => c.id = t
<1>1. ASSUME IInv, NEW t \in TenantID, Lost(t), NEW c \in Owners, c \in OpState,
             Attempting(c), KnowsRow(c), realms' = Processed(c)
      PROVE  Owner(t)
  <2>1. rows[t] # NULL /\ rows[t].realm \in Realm
    BY <1>1 DEF IInv, TypeOK, Live, Row
  <2>2. c.pc \in {"rollback", "drop"} /\ c.realm = rows[t].realm
    BY <1>1, <2>1, ProcessedEffect DEF IInv
  <2>3. c.pc = "drop" => c.id = t
    BY <1>1, <2>1, <2>2, Kinds DEF KnowsRow, OfRow, IInv, OneRowPerRealm
  <2> QED BY <1>1, <2>2, <2>3
<1>2. ASSUME IInv, [Next]_vars, NEW t \in TenantID, Lost(t)
      PROVE  Owner(t)
  <2>1. ASSUME NEW o \in Op,
               CreateRealm(o) \/ Rollback(o) \/ UpdateRealm(o) \/ DeleteRealm(o)
        PROVE  Owner(t)
    <3>1. PICK s \in OpState :
             /\ op' = [op EXCEPT ![o] = s] /\ s # op[o]
             /\ op[o] \in OpState /\ Attempting(op[o])
             /\ realms' \in {realms, Processed(op[o])}
      BY <1>2, <2>1, AttemptStep DEF IInv
    <3>2. op[o] \in Owners
      BY <1>2, <3>1 DEF IInv, TypeOK
    <3>3. realms' = Processed(op[o]) /\ KnowsRow(op[o])
      BY <1>2, <3>1 DEF IInv, OpsKnowRow
    <3> QED BY <1>1, <1>2, <3>1, <3>2, <3>3
  <2>2. ASSUME NEW c \in late, KcLate(c)
        PROVE  Owner(t)
    <3>1. c \in OpState /\ Attempting(c) /\ KnowsRow(c) /\ c \in Owners
      BY <1>2, <2>2 DEF IInv, TypeOK, LateKnowRow, KcLate
    <3>2. realms' = Processed(c)
      BY <2>2 DEF KcLate
    <3> QED BY <1>1, <1>2, <3>1, <3>2
  <2>3. CASE UNCHANGED realms
    BY <1>2, <2>3
  <2> QED BY <1>2, <2>1, <2>2, <2>3 DEF Next, Advance, CreateTenant, SuspendTenant, EnableTenant,
                DeleteTenant, SetStatus, Create, Update, SoftDelete, Crash, vars
<1>3. IInv /\ [Next]_vars => [\A t \in TenantID : Lost(t) => Owner(t)]_vars
  BY <1>2
<1> QED BY <1>3, InitInvariant, StepInvariant, PTL DEF Spec, RealmLostOnlyToItsOwner
-----------------------------------------------------------------------------
(***************************************************************************)
(* A deletion leaves no realm, when nothing is processed late.             *)
(***************************************************************************)

\* A step that moves one operation along and inserts no row.
LEMMA PromptMoveKeeps ==
  ASSUME PromptInv, NEW o \in Op, NEW s \in OpState,
         op' = [op EXCEPT ![o] = s],
         Moves(op[o], s) \/ OfRow(s),
         \A t \in TenantID : /\ rows'[t] = NULL <=> rows[t] = NULL
                             /\ rows[t] # NULL => rows'[t].realm = rows[t].realm,
         \A t \in TenantID :
           rows'[t] # NULL /\ rows'[t].deleted =>
             \/ rows[t].deleted
             \/ op[o].pc = "softdelete" /\ op[o].id = t,
         realms' = realms \/ (Attempting(op[o]) /\ realms' = Processed(op[o])),
         s.pc = "softdelete" => op[o].pc = "drop" /\ realms' = Processed(op[o]) /\ Moves(op[o], s),
         late' = late, drawn' = drawn, IInv'
  PROVE  PromptInv'
<1> USE DEF PromptInv, IInv
<1>1. op[o] \in OpState /\ op'[o] = s /\ \A q \in Op : q # o => op'[q] = op[q]
  BY DEF TypeOK
<1>2. ASSUME NEW n \in Realm, realms'[n] # NULL
      PROVE  \/ realms[n] # NULL /\ realms'[n].by = realms[n].by
             \/ op[o].pc = "post" /\ n = op[o].realm /\ realms'[n].by = op[o].id
  BY <1>1, <1>2, ProcessedEffect
<1>3. ASSUME op[o].pc = "post"
      PROVE  op[o].id \in TenantID /\ op[o].id \in drawn /\ rows[op[o].id] = NULL
  BY <1>1, <1>3, Kinds DEF NotInserted, CreationAlone, OfCreation
<1>4. OfCreation(s) => OfCreation(op[o]) /\ s.id = op[o].id /\ s.realm = op[o].realm
  BY IdleKind DEF Moves, OfRow, OfCreation
<1>5. \A n \in Realm : realms'[n] # NULL => realms'[n].by \in TenantID
  BY DEF TypeOK, RealmRep
<1>6. RealmsDrawn'
  BY <1>2, <1>3 DEF RealmsDrawn
<1>7. RealmOfCreation'
  <2> SUFFICES ASSUME NEW q \in Op, NEW n \in Realm, OfCreation(op'[q]),
                      realms'[n] # NULL, realms'[n].by = op'[q].id
               PROVE  n = op'[q].realm
    BY DEF RealmOfCreation, OfCreation
  <2>1. OfCreation(op[q]) /\ op'[q].id = op[q].id /\ op'[q].realm = op[q].realm
    BY <1>1, <1>4
  <2>2. CASE realms[n] # NULL /\ realms'[n].by = realms[n].by
    BY <2>1, <2>2 DEF RealmOfCreation
  <2>3. CASE op[o].pc = "post" /\ n = op[o].realm /\ realms'[n].by = op[o].id
    BY <2>1, <2>3 DEF CreationAlone, OfCreation
  <2> QED BY <1>2, <2>2, <2>3
<1>8. RealmOfRow'
  BY <1>2, <1>3, <1>5 DEF RealmOfRow
<1>9. Dropped'
  <2> SUFFICES ASSUME NEW q \in Op, NEW n \in Realm, op'[q].pc = "softdelete",
                      realms'[n] # NULL, realms'[n].by = op'[q].id
               PROVE  FALSE
    BY DEF Dropped
  <2>1. CASE q = o
    <3>1. op[o].pc = "drop" /\ realms' = Processed(op[o]) /\ Moves(op[o], s)
      BY <1>1, <2>1
    <3>2. s.id = op[o].id /\ OfRow(op[o]) /\ ~OfCreation(op[o])
      BY <1>1, <2>1, <3>1, IdleKind DEF Moves, OfRow, OfCreation
    <3>3. rows[op[o].id] # NULL /\ rows[op[o].id].realm = op[o].realm
      BY <3>2 DEF OpsKnowRow, KnowsRow
    <3>4. realms[n] # NULL /\ realms[n].by = op[o].id
      BY <1>1, <1>2, <2>1, <3>1, <3>2
    <3>5. n = op[o].realm
      BY <3>3, <3>4 DEF RealmOfRow
    <3> QED BY <1>1, <3>1, <3>5, ProcessedEffect DEF Attempting
  <2>2. CASE q # o
    <3>1. op[q].pc = "softdelete" /\ op'[q] = op[q] /\ rows[op[q].id] # NULL
      BY <1>1, <2>2 DEF OpsKnowRow, KnowsRow, OfRow
    <3> QED BY <1>2, <1>3, <3>1 DEF Dropped
  <2> QED BY <2>1, <2>2
<1>10. DeletedLeavesNoRealm'
  <2> SUFFICES ASSUME NEW t \in TenantID, rows'[t] # NULL, rows'[t].deleted,
                      NEW n \in Realm, realms'[n] # NULL, realms'[n].by = t
               PROVE  FALSE
    BY DEF DeletedLeavesNoRealm
  <2>1. rows[t] # NULL /\ realms[n] # NULL /\ realms[n].by = t
    BY <1>2, <1>3
  <2> QED BY <2>1 DEF DeletedLeavesNoRealm, Dropped
<1> QED BY <1>6, <1>7, <1>8, <1>9, <1>10

LEMMA PromptCreateTenantKeeps ==
  ASSUME PromptInv, NEW o \in Op, NEW t \in TenantID, NEW n \in Realm, NEW d \in Domain,
         CreateTenant(o, t, n, d), IInv'
  PROVE  PromptInv'
<1> DEFINE s == [pc |-> "post", id |-> t, realm |-> n, domain |-> d, try |-> 1]
<1> USE DEF PromptInv, IInv
<1>1. /\ op' = [op EXCEPT ![o] = s] /\ t \notin drawn /\ drawn' = drawn \cup {t}
      /\ UNCHANGED <<rows, realms, late>>
  BY DEF CreateTenant, Goto
<1>2. s.pc = "post" /\ s.id = t
  OBVIOUS
<1>3. op'[o] = s /\ \A q \in Op : q # o => op'[q] = op[q]
  BY <1>1 DEF TypeOK, OpState, CreateOp
<1> HIDE DEF s
<1>4. RealmOfCreation'
  BY <1>1, <1>2, <1>3 DEF RealmOfCreation, RealmsDrawn, OfCreation
<1>5. Dropped'
  BY <1>1, <1>2, <1>3 DEF Dropped
<1>6. RealmsDrawn' /\ RealmOfRow' /\ DeletedLeavesNoRealm' /\ late' = {}
  BY <1>1 DEF RealmsDrawn, RealmOfRow, DeletedLeavesNoRealm
<1> QED BY <1>4, <1>5, <1>6

LEMMA PromptInsertKeeps ==
  ASSUME PromptInv, NEW o \in Op, Create(o), InsertRow(o), IInv'
  PROVE  PromptInv'
<1> DEFINE row == [realm |-> op[o].realm, domain |-> op[o].domain,
                   status |-> "active", deleted |-> FALSE, restamped |-> FALSE]
<1> USE DEF PromptInv, IInv
<1>1. PICK s \in OpState : /\ op' = [op EXCEPT ![o] = s] /\ Moves(op[o], s)
                          /\ s.pc # "softdelete"
  BY CreateStep
<1>2. op[o] \in OpState /\ op[o].pc = "insert" /\ op[o].id \in TenantID
  BY CreateStep, Kinds DEF TypeOK
<1>3. /\ UNCHANGED <<realms, late, drawn>>
      /\ rows' = [rows EXCEPT ![op[o].id] = row]
  BY CreateStep DEF InsertRow
<1>4. row.realm = op[o].realm /\ ~row.deleted
  OBVIOUS
<1>5. rows'[op[o].id] = row /\ \A t \in TenantID : t # op[o].id => rows'[t] = rows[t]
  BY <1>2, <1>3 DEF TypeOK
<1> HIDE DEF row
<1>6. op'[o] = s /\ \A q \in Op : q # o => op'[q] = op[q]
  BY <1>1 DEF TypeOK
<1>7. OfCreation(s) => s.id = op[o].id /\ s.realm = op[o].realm /\ OfCreation(op[o])
  BY <1>1, IdleKind DEF Moves, OfRow, OfCreation
<1>8. RealmOfCreation'
  BY <1>3, <1>6, <1>7 DEF RealmOfCreation, OfCreation
<1>9. RealmOfRow'
  <2> SUFFICES ASSUME NEW n \in Realm, realms[n] # NULL, rows'[realms[n].by] # NULL
               PROVE  rows'[realms[n].by].realm = n
    BY <1>3 DEF RealmOfRow
  <2>1. realms[n].by \in TenantID
    BY DEF TypeOK, RealmRep
  <2>2. CASE realms[n].by = op[o].id
    BY <1>2, <1>4, <1>5, <2>2 DEF RealmOfCreation, OfCreation
  <2>3. CASE realms[n].by # op[o].id
    BY <1>5, <2>1, <2>3 DEF RealmOfRow
  <2> QED BY <2>2, <2>3
<1>10. Dropped'
  BY <1>1, <1>3, <1>6 DEF Dropped
<1>11. DeletedLeavesNoRealm'
  BY <1>3, <1>4, <1>5 DEF DeletedLeavesNoRealm
<1>12. RealmsDrawn' /\ late' = {}
  BY <1>3 DEF RealmsDrawn
<1> QED BY <1>8, <1>9, <1>10, <1>11, <1>12

LEMMA PromptStep ==
  ASSUME "late" \notin Faults
  PROVE  PromptInv /\ [Next]_vars => PromptInv'
<1> SUFFICES ASSUME PromptInv, [Next]_vars PROVE PromptInv'
  OBVIOUS
<1> USE DEF PromptInv
<1>0. IInv' /\ TypeOK
  BY StepInvariant DEF IInv
<1>1. ASSUME NEW o \in Op, NEW t \in TenantID, NEW n \in Realm, NEW d \in Domain,
             CreateTenant(o, t, n, d)
      PROVE  PromptInv'
  BY <1>0, <1>1, PromptCreateTenantKeeps
<1>2. ASSUME UNCHANGED vars
      PROVE  PromptInv'
  BY <1>0, <1>2 DEF vars, RealmsDrawn, RealmOfCreation, RealmOfRow, Dropped,
                    DeletedLeavesNoRealm, OfCreation
<1>3. ASSUME NEW o \in Op, NEW t \in TenantID,
             SuspendTenant(o, t) \/ EnableTenant(o, t) \/ DeleteTenant(o, t)
      PROVE  PromptInv'
  <2>1. CASE UNCHANGED op
    BY <1>2, <1>3, <2>1, StartKeeps DEF vars
  <2>2. CASE ~UNCHANGED op
    <3>1. PICK s \in OpState : /\ op' = [op EXCEPT ![o] = s]
                              /\ OfRow(s) /\ s.pc # "softdelete"
      BY <1>3, <2>2, StartKeeps
    <3>2. UNCHANGED <<rows, realms, late, drawn>>
      BY <1>3, StartKeeps
    <3> QED BY <1>0, <3>1, <3>2, PromptMoveKeeps
  <2> QED BY <2>1, <2>2
<1>4. ASSUME NEW o \in Op,
             CreateRealm(o) \/ Rollback(o) \/ UpdateRealm(o) \/ DeleteRealm(o)
      PROVE  PromptInv'
  <2>1. PICK s \in OpState :
           /\ op' = [op EXCEPT ![o] = s]
           /\ Moves(op[o], s)
           /\ Attempting(op[o])
           /\ realms' \in {realms, Processed(op[o])}
           /\ late' = late
           /\ s.pc = "softdelete" => op[o].pc = "drop" /\ realms' = Processed(op[o])
           /\ UNCHANGED <<rows, drawn>>
    BY <1>0, <1>4, AttemptStep
  <2> QED BY <1>0, <2>1, PromptMoveKeeps
<1>5. ASSUME NEW o \in Op, Create(o)
      PROVE  PromptInv'
  <2>1. CASE InsertRow(o)
    BY <1>0, <1>5, <2>1, PromptInsertKeeps
  <2>2. CASE UNCHANGED rows
    <3>1. PICK s \in OpState : /\ op' = [op EXCEPT ![o] = s] /\ Moves(op[o], s)
                              /\ s.pc # "softdelete"
      BY <1>5, CreateStep
    <3>2. UNCHANGED <<realms, late, drawn>>
      BY <1>5, CreateStep
    <3> QED BY <1>0, <2>2, <3>1, <3>2, PromptMoveKeeps
  <2> QED BY <1>5, <2>1, <2>2, CreateStep
<1>6. ASSUME NEW o \in Op, Update(o) \/ SoftDelete(o)
      PROVE  PromptInv'
  <2>1. PICK s \in OpState : /\ op' = [op EXCEPT ![o] = s] /\ Moves(op[o], s)
                            /\ s.pc # "softdelete"
    BY <1>6, StatementStep
  <2>2. \A t \in TenantID :
          rows'[t] # NULL /\ rows'[t].deleted =>
            \/ rows[t].deleted
            \/ op[o].pc = "softdelete" /\ op[o].id = t
    <3> DEFINE c == op[o]
    <3>1. /\ c.id \in TenantID /\ rows[c.id] \in Row
          /\ c.pc = "update" => c.status \in {"active", "suspended"}
      BY <1>6, Kinds DEF IInv, TypeOK, Update, SoftDelete, OpsKnowRow, KnowsRow, OfRow, SetOp
    <3>2. CASE UNCHANGED rows
      BY <3>2
    <3>3. CASE c.pc = "update" /\ WriteStatus(c.id, c.status)
      <4>1. [rows[c.id] EXCEPT !.status = c.status].deleted = rows[c.id].deleted
        BY <3>1 DEF Row
      <4> QED BY <1>0, <3>1, <3>3, <4>1 DEF WriteStatus, Live, TypeOK
    <3>4. CASE c.pc = "softdelete" /\ MarkDeleted(c.id)
      BY <1>0, <3>4 DEF MarkDeleted, TypeOK
    <3> QED BY <1>6, <3>2, <3>3, <3>4 DEF Update, SoftDelete, Execute
  <2>3. /\ UNCHANGED <<realms, late, drawn>>
        /\ \A u \in TenantID : /\ rows'[u] = NULL <=> rows[u] = NULL
                               /\ rows[u] # NULL => rows'[u].realm = rows[u].realm
    BY <1>6, StatementStep
  <2> QED BY <1>0, <2>1, <2>2, <2>3, PromptMoveKeeps
<1>7. ASSUME NEW c \in late, KcLate(c)
      PROVE  PromptInv'
  BY <1>7
<1>8. CASE Crash
  BY <1>0, <1>8, IdleKind DEF Crash, RealmsDrawn, RealmOfCreation, RealmOfRow, Dropped,
                              DeletedLeavesNoRealm, OfCreation
<1> QED BY <1>1, <1>2, <1>3, <1>4, <1>5, <1>6, <1>7, <1>8 DEF Next, Advance

\* A tenant marked deleted has no realm left, and gets none, whatever fails,
\* if Keycloak processes no attempt after its caller has given up on it.
THEOREM DeletedLeavesNoRealmHolds ==
  ASSUME "late" \notin Faults
  PROVE  Spec => []DeletedLeavesNoRealm
<1>1. Init => PromptInv
  BY InitInvariant
<1>2. PromptInv /\ [Next]_vars => PromptInv'
  BY PromptStep
<1>3. PromptInv => DeletedLeavesNoRealm
  BY DEF PromptInv
<1> QED BY <1>1, <1>2, <1>3, PTL DEF Spec
-----------------------------------------------------------------------------
(***************************************************************************)
(* A closed tenant stays closed: realms are made by creations, and the     *)
(* creation of a tenant that has a row is past its POST.                   *)
(***************************************************************************)

Made(n, t) == realms[n] # NULL /\ realms[n].by = t

LEMMA NoNewRealm ==
  ASSUME PromptInv, NEW o \in Op, Attempting(op[o]), realms' \in {realms, Processed(op[o])},
         NEW t \in TenantID, rows[t] # NULL, NEW n \in Realm, Made(n, t)'
  PROVE  Made(n, t)
<1>1. TypeOK /\ NotInserted /\ op[o] \in OpState
  BY DEF PromptInv, IInv, TypeOK
<1>2. CASE realms' = Processed(op[o])
  <2>1. \/ realms[n] # NULL /\ realms'[n].by = realms[n].by
        \/ op[o].pc = "post" /\ realms'[n].by = op[o].id
    BY <1>1, <1>2, ProcessedEffect DEF Made
  <2> QED BY <1>1, <2>1 DEF Made, NotInserted
<1> QED BY <1>2 DEF Made

LEMMA ClosedStays ==
  ASSUME PromptInv, [Next]_vars, "late" \notin Faults, NEW t \in TenantID,
         StatusView(t) = "closed"
  PROVE  StatusView(t)' = "closed"
<1>1. /\ IInv /\ TypeOK /\ late = {}
  BY DEF PromptInv, IInv
<1>2. rows[t] # NULL
  BY DEF StatusView
<1>3. rows[t] \in Row /\ rows[t].realm \in Realm /\ rows[t].status # "closed"
  BY <1>1, <1>2 DEF TypeOK, Row, Status
<1>4. /\ rows'[t] # NULL /\ rows'[t].realm = rows[t].realm
      /\ rows[t].deleted => rows'[t].deleted
  BY <1>1, <1>2, RowsStay
<1>5. CASE rows[t].deleted
  BY <1>2, <1>4, <1>5 DEF StatusView, Live
<1>6. CASE ~HasRealm(t)
  <2>1. ASSUME NEW o \in Op,
               CreateRealm(o) \/ Rollback(o) \/ UpdateRealm(o) \/ DeleteRealm(o)
        PROVE  ~HasRealm(t)'
    <3>1. Attempting(op[o]) /\ realms' \in {realms, Processed(op[o])}
      BY <1>1, <2>1, AttemptStep
    <3>2. PICK n \in Realm : n = rows[t].realm
      BY <1>3
    <3>3. ~Made(n, t)
      BY <1>6, <3>2 DEF HasRealm, Made
    <3>4. ~Made(n, t)'
      BY <1>2, <3>1, <3>3, NoNewRealm
    <3> QED BY <1>4, <3>2, <3>4 DEF HasRealm, Made
  <2>2. ASSUME UNCHANGED realms
        PROVE  ~HasRealm(t)'
    BY <1>4, <1>6, <2>2 DEF HasRealm
  <2>3. ~HasRealm(t)'
    BY <1>1, <2>1, <2>2 DEF Next, Advance, CreateTenant, SuspendTenant, EnableTenant,
       DeleteTenant, SetStatus, Create, Update, SoftDelete, Crash, vars
  <2> QED BY <1>4, <2>3 DEF StatusView
<1> QED BY <1>2, <1>3, <1>5, <1>6 DEF StatusView, Live

\* A tenant that was deleted, or lost its realm to a rollback, is never open
\* again, whatever fails, if Keycloak processes no attempt after its caller
\* has given up on it.
THEOREM ClosedIsFinalHolds ==
  ASSUME "late" \notin Faults
  PROVE  Spec => ClosedIsFinal
<1>1. Init => PromptInv
  BY InitInvariant
<1>2. PromptInv /\ [Next]_vars => PromptInv'
  BY PromptStep
<1>3. PromptInv /\ [Next]_vars =>
        [\A t \in TenantID : StatusView(t) = "closed" => StatusView(t)' = "closed"]_vars
  BY ClosedStays
<1> QED BY <1>1, <1>2, <1>3, PTL DEF Spec, ClosedIsFinal
=============================================================================

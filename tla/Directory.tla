------------------------------ MODULE Directory ------------------------------
(***************************************************************************)
(* Users, groups and roles of one realm, kept by Keycloak and edited by    *)
(* concurrent requests: each checks who asks, makes one or more calls of   *)
(* the admin client, each up to Tries attempts, and logs what was done.    *)
(*                                                                         *)
(* A request is an element of Op, and happens once. What it asks Keycloak  *)
(* for is a record; the handlers differ in that record, in what they look  *)
(* up before it, and in whether they log. Where a path names an object, it *)
(* is one that exists or existed; objects are named by ids, which Keycloak *)
(* never uses twice, but roles are deleted and looked up by their names.   *)
(***************************************************************************)
EXTENDS Integers, AuditTrail

CONSTANTS
  Op,       \* requests
  Id,       \* ids of users, groups and roles
  Name,     \* e-mail addresses, group names, role names
  Content,  \* what the realm holds at first
  Tries,    \* attempts per call
  Faults,   \* what may happen to an attempt
  NULL      \* no object, no name

ASSUME EntryAssumption == Entry = Op
ASSUME TriesAssumption == Tries \in Nat \ {0}
ASSUME FaultsAssumption == Faults \subseteq {"fail", "lost", "crash"}

VARIABLES
  things,  \* Keycloak: the users, groups and roles by id
  links,   \* Keycloak: who has which role and is in which group
  op       \* the requests

vars == <<things, links, op, stamped, row>>
directory == <<things, links>>

Sort == {"user", "group", "role"}
Thing == [sort : Sort, name : Name, on : BOOLEAN]
Gone == [sort |-> "gone"]
ASSUME ContentAssumption == Content \in [Id -> Thing \cup {NULL}]
ASSUME NullAssumption == NULL \notin Id \cup Name \cup Thing \cup {Gone}

Live(i, sort) == i \in Id /\ things[i] # NULL /\ things[i].sort = sort
Known(sort) == {i \in Id : Live(i, sort) \/ Live(i, "gone")}
Bearer(sort, n) == {i \in Id : Live(i, sort) /\ things[i].name = n}

\* Keycloak is asked to do verb with the object i, or the one named n; refs
\* are the other ends of a link: for roles, names is what was asked for and
\* todo what of it is not looked up yet.
Ask(verb, sort, i, n) == [verb |-> verb, sort |-> sort, id |-> i, name |-> n,
  on |-> FALSE, names |-> {}, todo |-> {}, refs |-> {}]

Init ==
  /\ things = Content
  /\ links = {}
  /\ op = [o \in Op |-> [pc |-> "idle"]]
  /\ TrailInit
-----------------------------------------------------------------------------
(***************************************************************************)
(* Who may ask.                                                            *)
(***************************************************************************)
\* What the guards read of a token: those of its realm roles whose names they
\* know, and whether its issuer is the realm in the path. Roles are names, a
\* realm may have roles of any name, and a token keeps the roles it was issued
\* with: a request may come with any.
Token == [roles : SUBSET {"super_admin", "realm_admin"}, home : BOOLEAN]

HasRole(t, r) == r \in t.roles

\* The routes under /realms/{realm}.
RequireRealmAdmin(t) == HasRole(t, "realm_admin") \/ HasRole(t, "super_admin")

assertRealmAccess(t) == HasRole(t, "super_admin") \/ t.home

Ended(o, out) == [pc |-> "done", out |-> out, audited |-> op[o].audited,
  applied |-> op[o].applied, lost |-> op[o].lost, before |-> op[o].before]

\* before: the requests already answered when this one comes.
Started(audited, q) == [pc |-> "call", audited |-> audited, q |-> q, try |-> 1,
  applied |-> FALSE, lost |-> FALSE, before |-> {p \in Op : op[p].pc = "done"}]
Forbidden == [pc |-> "forbidden"]

Start(o, audited, q) ==
  /\ op' = [op EXCEPT ![o] = Started(audited, q)]
  /\ UNCHANGED <<things, links, stamped, row>>

\* A request under /realms/{realm}.
Admin(o, q) ==
  \E t \in Token :
    \/ RequireRealmAdmin(t) /\ assertRealmAccess(t) /\ Start(o, TRUE, q)
    \/ /\ ~(RequireRealmAdmin(t) /\ assertRealmAccess(t))
       /\ op' = [op EXCEPT ![o] = Forbidden]
       /\ UNCHANGED <<things, links, stamped, row>>

\* A request under /profile, of a user about themself: any token will do, and
\* nothing is logged.
Own(o, q) == Start(o, FALSE, q)
-----------------------------------------------------------------------------
(***************************************************************************)
(* What the services ask Keycloak for.                                     *)
(***************************************************************************)
CreatesUser(n, b) == [Ask("create", "user", NULL, n) EXCEPT !.on = b]

\* The profile of the request has no field for enabled, so its zero value is
\* sent; an empty name is not.
UpdatesUser(i, n) == Ask("update", "user", i, n)
EnablesUser(i, b) == [Ask("enable", "user", i, NULL) EXCEPT !.on = b]
DeletesUser(i) == Ask("delete", "user", i, NULL)
ResetsPassword(i) == Ask("password", "user", i, NULL)
AssignsRoles(i, names) ==
  [Ask("link", "role", i, NULL) EXCEPT !.names = names, !.todo = names]
RemovesRoles(i, names) ==
  [Ask("unlink", "role", i, NULL) EXCEPT !.names = names, !.todo = names]

CreatesGroup(n) == Ask("create", "group", NULL, n)
UpdatesGroup(i, n) == Ask("update", "group", i, n)
DeletesGroup(i) == Ask("delete", "group", i, NULL)
AddsToGroup(i, g) == [Ask("link", "group", i, NULL) EXCEPT !.refs = {g}]
RemovesFromGroup(i, g) == [Ask("unlink", "group", i, NULL) EXCEPT !.refs = {g}]

CreatesRole(n) == Ask("create", "role", NULL, n)
DeletesRole(n) == Ask("delete", "role", NULL, n)
-----------------------------------------------------------------------------
(***************************************************************************)
(* The handlers.                                                           *)
(***************************************************************************)
CreateUser(o) == \E n \in Name, b \in BOOLEAN : Admin(o, CreatesUser(n, b))
UpdateUser(o) ==
  \E i \in Known("user"), n \in Name \cup {NULL} : Admin(o, UpdatesUser(i, n))
SetUserEnabled(o) ==
  \E i \in Known("user"), b \in BOOLEAN : Admin(o, EnablesUser(i, b))
DeleteUser(o) == \E i \in Known("user") : Admin(o, DeletesUser(i))
ResetUserPassword(o) == \E i \in Known("user") : Admin(o, ResetsPassword(i))
AssignRoles(o) ==
  \E i \in Known("user"), names \in SUBSET Name : Admin(o, AssignsRoles(i, names))
RemoveRoles(o) ==
  \E i \in Known("user"), names \in SUBSET Name : Admin(o, RemovesRoles(i, names))

CreateGroup(o) == \E n \in Name : Admin(o, CreatesGroup(n))
UpdateGroup(o) == \E i \in Known("group"), n \in Name : Admin(o, UpdatesGroup(i, n))
DeleteGroup(o) == \E i \in Known("group") : Admin(o, DeletesGroup(i))
AddUserToGroup(o) ==
  \E i \in Known("user"), g \in Known("group") : Admin(o, AddsToGroup(i, g))
RemoveUserFromGroup(o) ==
  \E i \in Known("user"), g \in Known("group") : Admin(o, RemovesFromGroup(i, g))

CreateRole(o) == \E n \in Name : Admin(o, CreatesRole(n))
DeleteRole(o) == \E n \in Name : Admin(o, DeletesRole(n))

\* The first and last name only, neither of which is modelled.
UpdateProfile(o) == \E i \in Known("user") : Own(o, UpdatesUser(i, NULL))
ChangePassword(o) == \E i \in Known("user") : Own(o, ResetsPassword(i))

Begin(o) ==
  /\ op[o].pc = "idle"
  /\ \/ CreateUser(o) \/ UpdateUser(o) \/ SetUserEnabled(o) \/ DeleteUser(o)
     \/ ResetUserPassword(o) \/ AssignRoles(o) \/ RemoveRoles(o)
     \/ CreateGroup(o) \/ UpdateGroup(o) \/ DeleteGroup(o)
     \/ AddUserToGroup(o) \/ RemoveUserFromGroup(o) \/ CreateRole(o) \/ DeleteRole(o)
     \/ UpdateProfile(o) \/ ChangePassword(o)
-----------------------------------------------------------------------------
(***************************************************************************)
(* Keycloak, to a request q.                                               *)
(***************************************************************************)
Conflicts(q) ==
  q.verb \in {"create", "update"} /\ q.name # NULL /\ Bearer(q.sort, q.name) \ {q.id} # {}

Owner(q) == IF q.verb \in {"link", "unlink"} THEN "user" ELSE q.sort
Missing(q) ==
  \/ q.id # NULL /\ ~Live(q.id, Owner(q))
  \/ q.verb = "delete" /\ q.id = NULL /\ Bearer(q.sort, q.name) = {}
  \/ \E i \in q.refs : ~Live(i, q.sort)

Accepts(q) == ~Conflicts(q) /\ ~Missing(q)

Fresh == CHOOSE i \in Id : things[i] = NULL
Victims(q) == IF q.id # NULL THEN {q.id} ELSE Bearer(q.sort, q.name)
Pairs(q) == {q.id} \X q.refs

ThingsAfter(q) ==
  CASE q.verb = "create" ->
         [things EXCEPT ![Fresh] = [sort |-> q.sort, name |-> q.name, on |-> q.on]]
    [] q.verb \in {"update", "enable"} ->
         [things EXCEPT ![q.id].on = q.on, ![q.id].name = IF q.name = NULL THEN @ ELSE q.name]
    [] q.verb = "delete" -> [i \in Id |-> IF i \in Victims(q) THEN Gone ELSE things[i]]
    [] OTHER -> things

\* What is deleted leaves no link behind.
LinksAfter(q) ==
  CASE q.verb = "link" -> links \cup Pairs(q)
    [] q.verb = "unlink" -> links \ Pairs(q)
    [] q.verb = "delete" -> {l \in links : l[1] \notin Victims(q) /\ l[2] \notin Victims(q)}
    [] OTHER -> links

\* Id bounds the objects that are ever created.
Process(q) ==
  /\ q.verb = "create" => \E i \in Id : things[i] = NULL
  /\ things' = ThingsAfter(q)
  /\ links' = LinksAfter(q)
-----------------------------------------------------------------------------
(***************************************************************************)
(* The services: the names first, then the change, then the log.           *)
(***************************************************************************)
Calls(o) == op[o].pc = "call"
Becomes(o, c) == op' = [op EXCEPT ![o] = c]

\* Mutants: an unknown name is passed over; each role is granted when found.
LookUpSkipping(o) ==
  /\ Calls(o)
  /\ \E n \in op[o].q.todo :
       Becomes(o, [op[o] EXCEPT !.q.todo = @ \ {n}, !.q.refs = @ \cup Bearer("role", n)])
  /\ UNCHANGED <<directory, stamped, row>>
LookUpGranting(o) ==
  /\ Calls(o)
  /\ \E n \in op[o].q.todo :
       IF Bearer("role", n) = {} THEN Becomes(o, Ended(o, "refused")) /\ UNCHANGED links
       ELSE /\ Becomes(o, [op[o] EXCEPT !.q.todo = @ \ {n}, !.applied = TRUE])
            /\ links' = links \cup ({op[o].q.id} \X Bearer("role", n))
  /\ UNCHANGED <<things, stamped, row>>

\* The names are looked up one call at a time; the first that is not found
\* ends the request.
LookUp(o) ==
  /\ Calls(o)
  /\ \E n \in op[o].q.todo :
       IF Bearer("role", n) = {} THEN Becomes(o, Ended(o, "refused"))
       ELSE Becomes(o, [op[o] EXCEPT !.q.todo = @ \ {n}, !.q.refs = @ \cup Bearer("role", n)])
  /\ UNCHANGED <<directory, stamped, row>>

\* None of the attempts to look a name up was answered.
LookUpFails(o) ==
  /\ Calls(o) /\ op[o].q.todo # {} /\ "fail" \in Faults
  /\ Becomes(o, Ended(o, "error"))
  /\ UNCHANGED <<directory, stamped, row>>

Attempts(o) == Calls(o) /\ op[o].q.todo = {}

\* Keycloak does what it is asked for; the service logs it and answers.
Done(o) ==
  /\ Attempts(o)
  /\ Accepts(op[o].q)
  /\ Process(op[o].q)
  /\ Becomes(o, [Ended(o, "ok") EXCEPT !.applied = TRUE])
  /\ IF op[o].audited THEN Log(o) ELSE UNCHANGED trail

\* Mutant: the entry is logged before the error is looked at.
RefusedLogged(o) ==
  /\ Attempts(o)
  /\ ~Accepts(op[o].q)
  /\ Becomes(o, Ended(o, "refused"))
  /\ Log(o)
  /\ UNCHANGED directory

\* A conflict, or something not found: an error answer, nothing logged.
Refused(o) ==
  /\ Attempts(o)
  /\ ~Accepts(op[o].q)
  /\ Becomes(o, Ended(o, "refused"))
  /\ UNCHANGED <<directory, stamped, row>>

\* Mutant: one attempt too many.
AgainOnceMore(o, c) ==
  Becomes(o, IF op[o].try <= Tries THEN [c EXCEPT !.try = @ + 1]
             ELSE [Ended(o, "error") EXCEPT !.applied = c.applied, !.lost = c.lost])

\* Up to Tries attempts; then the request fails, whatever they did.
Again(o, c) ==
  Becomes(o, IF op[o].try < Tries THEN [c EXCEPT !.try = @ + 1]
             ELSE [Ended(o, "error") EXCEPT !.applied = c.applied, !.lost = c.lost])

\* Mutant: after the last attempt that fails the count begins again.
AttemptFailsReset(o) ==
  /\ Attempts(o) /\ "fail" \in Faults
  /\ Becomes(o, [op[o] EXCEPT !.try = IF @ < Tries THEN @ + 1 ELSE 1])
  /\ UNCHANGED <<directory, stamped, row>>

\* The attempt did not reach Keycloak, or failed there.
AttemptFails(o) ==
  /\ Attempts(o) /\ "fail" \in Faults
  /\ Again(o, op[o])
  /\ UNCHANGED <<directory, stamped, row>>

\* Keycloak did it and its answer was lost, or was 5xx.
AnswerLost(o) ==
  /\ Attempts(o) /\ "lost" \in Faults
  /\ Accepts(op[o].q)
  /\ Process(op[o].q)
  /\ Again(o, [op[o] EXCEPT !.applied = TRUE, !.lost = TRUE])
  /\ UNCHANGED trail
-----------------------------------------------------------------------------
(***************************************************************************)
(* The process.                                                            *)
(***************************************************************************)
Unsettled == {o \in Op : row[o] \in {"logged", "writing"}}

\* Shutdown waits for the requests in flight, then the pool is closed.
Shutdown ==
  /\ \A o \in Op : ~Calls(o)
  /\ \E o \in Op : row[o] = "logged"
  /\ PoolCloses
  /\ UNCHANGED <<directory, op>>

Crash ==
  /\ "crash" \in Faults
  /\ Unsettled # {} \/ \E o \in Op : Calls(o)
  /\ op' = [o \in Op |-> IF Calls(o) THEN Ended(o, "cut") ELSE op[o]]
  /\ Die
  /\ UNCHANGED directory

Step(o) ==
  LookUp(o) \/ LookUpFails(o) \/ Done(o) \/ Refused(o) \/ AttemptFails(o) \/ AnswerLost(o)

\* Every request has been answered and every entry is settled.
Quiet ==
  /\ \A o \in Op : op[o].pc \in {"done", "forbidden"}
  /\ Unsettled = {}
  /\ UNCHANGED vars

Next ==
  \/ \E o \in Op : Begin(o) \/ Step(o)
  \/ \E o \in Op : Write(o) /\ UNCHANGED <<directory, op>>
  \/ Shutdown \/ Crash \/ Quiet

Spec == Init /\ [][Next]_vars

\* A call ends within its time; the scheduler runs the goroutines, and an
\* insert ends.
FairSpec ==
  /\ Spec
  /\ \A o \in Op : WF_vars(Step(o)) /\ WF_vars(Write(o) /\ UNCHANGED <<directory, op>>)
-----------------------------------------------------------------------------
(***************************************************************************)
(* Properties                                                              *)
(***************************************************************************)
Outcome == {"ok", "refused", "error", "cut"}
AskState == [verb : {"create", "update", "enable", "delete", "password", "link", "unlink"},
  sort : Sort, id : Id \cup {NULL}, name : Name \cup {NULL}, on : BOOLEAN,
  names : SUBSET Name, todo : SUBSET Name, refs : SUBSET Id]
CallState == [pc : {"call"}, audited : BOOLEAN, q : AskState, try : 1..Tries,
  applied : BOOLEAN, lost : BOOLEAN, before : SUBSET Op]
DoneState == [pc : {"done"}, out : Outcome, audited : BOOLEAN, applied : BOOLEAN,
  lost : BOOLEAN, before : SUBSET Op]

\* Every variable keeps its type, and links join live objects.
TypeOK ==
  /\ things \in [Id -> Thing \cup {NULL, Gone}]
  /\ \A l \in links : Live(l[1], "user") /\ (Live(l[2], "role") \/ Live(l[2], "group"))
  /\ op \in [Op -> [pc : {"idle", "forbidden"}] \cup CallState \cup DoneState]
  /\ stamped \in Seq(Op)
  /\ row \in [Op -> RowState]

\* The trail tells what happened: an entry is of a request that changed the
\* directory, and a change by an administrator that was answered has its
\* entry, unless an answer of Keycloak was lost on the way.
TrailTellsTheTruth ==
  \A o \in Op : op[o].pc = "done" =>
    /\ row[o] # "none" => op[o].applied /\ op[o].audited
    /\ op[o].applied /\ op[o].audited /\ op[o].out # "cut" /\ ~op[o].lost => row[o] # "none"

\* A request answered with an error has changed nothing, unless an answer of
\* Keycloak was lost: roles are assigned and removed all or none.
ErrorChangedNothing ==
  \A o \in Op : op[o].pc = "done" /\ op[o].out \in {"refused", "error"} /\ ~op[o].lost
    => ~op[o].applied

\* Whoever asks after having been answered is listed later: entries are
\* ordered by created_at as their requests were, whenever they are written.
TrailInOrder ==
  \A j \in DOMAIN stamped : \A i \in 1..(j - 1) :
    stamped[j] \notin op[stamped[i]].before

\* An assignment that succeeds gives the user a role of every name asked
\* for, although each was looked up by a call of its own.
GrantsAsNamed ==
  [][\A o \in Op : /\ op[o].pc = "call" /\ op[o].q.verb = "link" /\ op[o].q.sort = "role"
                   /\ op'[o].pc = "done" /\ op'[o].out = "ok"
       => \A n \in op[o].q.names : \E i \in Bearer("role", n) : <<op[o].q.id, i>> \in links']_vars

\* Every request is answered: it does not stay in flight.
RequestsEnd == \A o \in Op : []<>(op[o].pc # "call")

\* Every entry is settled: written, or lost to a failing database, a
\* shutdown or a crash, but never left waiting.
EntriesSettle == \A o \in Op : []<>(o \notin Unsettled)

\* Editing a profile leaves the account enabled.
UpdateKeepsEnabled ==
  [][\A o \in Op : op[o].pc = "call" /\ op[o].q.verb = "update" /\ op'[o] # op[o]
       => \A i \in Id : Live(i, "user") => things'[i].on = things[i].on]_vars
=============================================================================

---------------------------- MODULE DirectoryProofs ----------------------------
(***************************************************************************)
(* Theorems about Directory, for every set of requests, ids and names,     *)
(* every content, any number of attempts and all faults.                   *)
(*                                                                         *)
(* What a request knows when it makes its last call it learned in earlier  *)
(* ones, while other requests changed the directory. Two facts carry that  *)
(* over: an id that named a role names the same role or nothing for ever   *)
(* (RolesStay), and a request in flight is in nobody's past (PastIsDone).  *)
(***************************************************************************)
EXTENDS Directory, TLAPS

Verb == {"create", "update", "enable", "delete", "password", "link", "unlink"}

\* What a handler asks for is something Keycloak can be asked for.
WellAsked(q) ==
  /\ q \in AskState
  /\ q.verb = "create" => q.name \in Name
  /\ q.verb \in {"update", "enable", "link", "unlink"} => q.id \in Id
  /\ q.verb \in {"update", "enable"} => q.sort \in {"user", "group"}
  /\ q.verb \in {"link", "unlink"} => q.sort \in {"role", "group"}

Sane(c) ==
  /\ c.pc = "call" => WellAsked(c.q) /\ (c.applied => c.lost)
  /\ c.pc = "done" /\ c.out \in {"refused", "error"} /\ ~c.lost => ~c.applied

OpState == [pc : {"idle", "forbidden"}] \cup CallState \cup DoneState

\* Each name of a role that was looked up is that of a role of refs, unless
\* the role has been deleted since.
Named(c) ==
  c.pc = "call" /\ c.q.verb = "link" /\ c.q.sort = "role" =>
    \A n \in c.q.names \ c.q.todo :
      \E i \in c.q.refs \cap Id : things[i] = Gone \/ (Live(i, "role") /\ things[i].name = n)

Past(c) == c.pc \in {"call", "done"} => \A p \in c.before : op[p].pc = "done"

TypeInv ==
  /\ things \in [Id -> Thing \cup {NULL, Gone}]
  /\ \A l \in links : Live(l[1], "user") /\ (Live(l[2], "role") \/ Live(l[2], "group"))
  /\ op \in [Op -> OpState]
  /\ stamped \in Seq(Op)
  /\ row \in [Op -> RowState]

Unlogged == \A o \in Op : op[o].pc # "done" => row[o] = "none"
StampedDone == \A i \in DOMAIN stamped : op[stamped[i]].pc = "done"

IInv ==
  /\ TypeInv
  /\ \A o \in Op : Sane(op[o]) /\ Named(op[o]) /\ Past(op[o])
  /\ Unlogged /\ StampedDone
  /\ TrailTellsTheTruth
  /\ TrailInOrder

LEMMA Implies ==
  ASSUME IInv PROVE TypeOK /\ ErrorChangedNothing
<1>1. TypeOK
  BY DEF IInv, TypeInv, TypeOK, OpState
<1> QED BY <1>1 DEF IInv, Sane, ErrorChangedNothing
-----------------------------------------------------------------------------
(***************************************************************************)
(* What is asked for.                                                      *)
(***************************************************************************)
LEMMA AskTyped ==
  ASSUME NEW v \in Verb, NEW s \in Sort, NEW i \in Id \cup {NULL}, NEW n \in Name \cup {NULL}
  PROVE  Ask(v, s, i, n) \in AskState
  BY DEF Ask, AskState, Verb

LEMMA SetAsk ==
  ASSUME NEW q \in AskState
  PROVE  /\ \A v \in BOOLEAN : [q EXCEPT !.on = v] \in AskState
         /\ \A v \in SUBSET Name : [q EXCEPT !.names = v] \in AskState
         /\ \A v \in SUBSET Name : [q EXCEPT !.todo = v] \in AskState
         /\ \A v \in SUBSET Id : [q EXCEPT !.refs = v] \in AskState
  BY DEF AskState

\* Nothing is looked up yet.
Blank(q) == WellAsked(q) /\ (q.verb = "link" /\ q.sort = "role" => q.todo = q.names)

LEMMA PlainBlank ==
  ASSUME NEW v \in Verb, NEW s \in Sort, NEW i \in Id \cup {NULL}, NEW n \in Name \cup {NULL},
         v = "create" => n \in Name,
         v \in {"update", "enable"} => i \in Id /\ s \in {"user", "group"},
         v \in {"link", "unlink"} => i \in Id /\ s \in {"role", "group"}
  PROVE  /\ Blank(Ask(v, s, i, n))
         /\ \A b \in BOOLEAN : Blank([Ask(v, s, i, n) EXCEPT !.on = b])
         /\ \A g \in Id : Blank([Ask(v, s, i, n) EXCEPT !.refs = {g}])
         /\ \A names \in SUBSET Name :
              Blank([Ask(v, s, i, n) EXCEPT !.names = names, !.todo = names])
<1> DEFINE q == Ask(v, s, i, n)
<1>1. q \in AskState /\ q.verb = v /\ q.sort = s /\ q.id = i /\ q.name = n
      /\ (v = "link" /\ s = "role" => q.todo = q.names)
  BY AskTyped DEF Ask
<1> HIDE DEF q
<1>2. Blank(q)
  BY <1>1 DEF Blank, WellAsked
<1>3. \A b \in BOOLEAN : Blank([q EXCEPT !.on = b])
  <2> SUFFICES ASSUME NEW b \in BOOLEAN PROVE Blank([q EXCEPT !.on = b])
    OBVIOUS
  <2>1. [q EXCEPT !.on = b] \in AskState
    BY <1>1, SetAsk
  <2> QED BY <1>1, <2>1 DEF Blank, WellAsked, AskState
<1>4. \A g \in Id : Blank([q EXCEPT !.refs = {g}])
  <2> SUFFICES ASSUME NEW g \in Id PROVE Blank([q EXCEPT !.refs = {g}])
    OBVIOUS
  <2>1. [q EXCEPT !.refs = {g}] \in AskState
    BY <1>1, SetAsk
  <2> QED BY <1>1, <2>1 DEF Blank, WellAsked, AskState
<1>5. \A names \in SUBSET Name : Blank([q EXCEPT !.names = names, !.todo = names])
  <2> SUFFICES ASSUME NEW names \in SUBSET Name
               PROVE  Blank([q EXCEPT !.names = names, !.todo = names])
    OBVIOUS
  <2> DEFINE q1 == [q EXCEPT !.names = names]
             q2 == [q1 EXCEPT !.todo = names]
  <2>1. [q EXCEPT !.names = names, !.todo = names] = q2
    OBVIOUS
  <2>2. /\ q1 \in AskState /\ q1.verb = v /\ q1.sort = s /\ q1.id = i /\ q1.name = n
        /\ q1.names = names
    BY <1>1, SetAsk DEF AskState
  <2> HIDE DEF q1
  <2>3. q2 \in AskState
    BY <2>2, SetAsk
  <2>4. q2.verb = v /\ q2.sort = s /\ q2.id = i /\ q2.name = n /\ q2.names = q2.todo
    BY <2>2 DEF AskState
  <2> HIDE DEF q2
  <2> QED BY <1>1, <2>1, <2>3, <2>4 DEF Blank, WellAsked
<1> QED BY <1>2, <1>3, <1>4, <1>5 DEF q
-----------------------------------------------------------------------------
(***************************************************************************)
(* How a request begins.                                                   *)
(***************************************************************************)
LEMMA StartedSane ==
  ASSUME IInv, NEW audited \in BOOLEAN, NEW q, Blank(q)
  PROVE  LET c == Started(audited, q)
         IN  /\ c \in CallState /\ c.pc = "call"
             /\ Sane(c) /\ Named(c) /\ Past(c)
<1> DEFINE c == Started(audited, q)
<1>1. c \in CallState /\ c.pc = "call"
  BY TriesAssumption DEF Started, CallState, Blank, WellAsked
<1>2. Sane(c)
  BY <1>1 DEF Sane, Started, Blank
<1>3. Named(c)
  BY DEF Named, Started, Blank
<1>4. Past(c)
  BY DEF Past, Started
<1> QED BY <1>1, <1>2, <1>3, <1>4
LEMMA EndedSane ==
  ASSUME IInv, NEW o \in Op, Calls(o), NEW out \in Outcome
  PROVE  /\ Ended(o, out) \in DoneState
         /\ Ended(o, out).pc = "done" /\ Ended(o, out).out = out
         /\ Ended(o, out).applied = op[o].applied /\ Ended(o, out).lost = op[o].lost
         /\ Ended(o, out).audited = op[o].audited
         /\ Sane(Ended(o, out)) /\ Named(Ended(o, out)) /\ Past(Ended(o, out))
<1>1. op[o] \in CallState
  BY DEF IInv, TypeInv, OpState, Calls, DoneState
<1>2. Sane(op[o]) /\ Past(op[o]) /\ op[o].pc = "call"
  BY DEF IInv, Calls
<1>3. Ended(o, out) \in DoneState
  BY <1>1 DEF Ended, CallState, DoneState
<1>4. Sane(Ended(o, out))
  BY <1>1, <1>2 DEF Ended, Sane, CallState
<1>5. Named(Ended(o, out)) /\ Past(Ended(o, out))
  BY <1>2 DEF Ended, Named, Past
<1> QED BY <1>3, <1>4, <1>5 DEF Ended
-----------------------------------------------------------------------------
(***************************************************************************)
(* What a step may do to the rest.                                         *)
(***************************************************************************)

\* An id that named a role names the same role or nothing for ever.
RolesStay ==
  \A i \in Id : things[i] = Gone \/ Live(i, "role") => things'[i] \in {things[i], Gone}

\* What another request, or Keycloak, may do to the directory.
Moves ==
  /\ things' \in [Id -> Thing \cup {NULL, Gone}]
  /\ (\A l \in links : Live(l[1], "user") /\ (Live(l[2], "role") \/ Live(l[2], "group")))'
  /\ RolesStay

LEMMA NoMove == ASSUME IInv, UNCHANGED directory PROVE Moves
  BY DEF IInv, TypeInv, directory, Moves, RolesStay, Live

LEMMA NamedStays == ASSUME Moves, NEW c, Named(c) PROVE Named(c)'
<1> SUFFICES ASSUME c.pc = "call", c.q.verb = "link", c.q.sort = "role",
                    NEW n \in c.q.names \ c.q.todo
             PROVE  \E i \in c.q.refs \cap Id :
                      things'[i] = Gone \/ (Live(i, "role")' /\ things'[i].name = n)
  BY DEF Named
<1>1. PICK i \in c.q.refs \cap Id : things[i] = Gone \/ (Live(i, "role") /\ things[i].name = n)
  BY DEF Named
<1>2. things'[i] \in {things[i], Gone}
  BY <1>1 DEF Moves, RolesStay
<1> QED BY <1>1, <1>2 DEF Live

LEMMA RequestsKept ==
  ASSUME IInv, NEW o \in Op, NEW c \in OpState, Becomes(o, c), op[o].pc \in {"idle", "call"},
         Sane(c), Named(c), Past(c), Moves
  PROVE  /\ op' \in [Op -> OpState]
         /\ op'[o] = c /\ \A p \in Op : p # o => op'[p] = op[p]
         /\ \A p \in Op : op[p].pc = "done" => op'[p] = op[p]
         /\ \A p \in Op : Sane(op'[p]) /\ Named(op[p])' /\ Past(op[p])'
<1>1. /\ op' \in [Op -> OpState]
      /\ op'[o] = c /\ \A p \in Op : p # o => op'[p] = op[p]
      /\ \A p \in Op : op[p].pc = "done" => op'[p] = op[p]
  BY DEF IInv, TypeInv, Becomes
<1>2. \A p \in Op : Sane(op'[p])
  BY <1>1 DEF IInv
<1>3. \A p \in Op : Named(op[p])'
  <2>1. Named(c)' /\ \A p \in Op : Named(op[p])
    BY NamedStays DEF IInv
  <2>2. Named(op[o])'
    BY <1>1, <2>1 DEF Named
  <2>3. ASSUME NEW p \in Op, p # o PROVE Named(op[p])'
    <3> DEFINE d == op[p]
    <3>1. Named(d)
      BY <2>1
    <3> HIDE DEF d
    <3>2. \E e : e = d /\ Named(e)
      BY <3>1
    <3>3. PICK e : e = d /\ Named(e)
      BY <3>2
    <3>4. Named(e)'
      BY <3>3, NamedStays
    <3> QED BY <1>1, <2>3, <3>3, <3>4 DEF Named, d
  <2> QED BY <2>2, <2>3
<1>4. \A p \in Op : Past(op[p])'
  <2>1. \A d \in OpState : d.pc \in {"call", "done"} => d.before \subseteq Op
    BY DEF OpState, CallState, DoneState
  <2>2. \A d \in OpState : Past(d) => Past(d)'
    BY <1>1, <2>1 DEF Past
  <2>3. Past(op[o])'
    BY <1>1, <2>2 DEF Past
  <2>4. ASSUME NEW p \in Op, p # o PROVE Past(op[p])'
    <3>1. op[p] \in OpState /\ Past(op[p]) /\ op'[p] = op[p]
      BY <1>1, <2>4 DEF IInv, TypeInv
    <3>2. PICK d \in OpState : d = op[p] /\ Past(d)
      BY <3>1
    <3>3. Past(d)'
      BY <2>2, <3>2
    <3> QED BY <3>1, <3>2, <3>3 DEF Past
  <2> QED BY <2>3, <2>4
<1> QED BY <1>1, <1>2, <1>3, <1>4
\* Nothing to be logged: the request goes on, or ends without a change that
\* is owed an entry.
LEMMA StepUnlogged ==
  ASSUME IInv, NEW o \in Op, NEW c \in OpState, Becomes(o, c), op[o].pc \in {"idle", "call"},
         Sane(c), Named(c), Past(c), Moves, UNCHANGED trail,
         c.pc = "done" /\ c.applied /\ c.audited => c.out = "cut" \/ c.lost
  PROVE  IInv'
<1>1. /\ op' \in [Op -> OpState]
      /\ op'[o] = c /\ \A p \in Op : p # o => op'[p] = op[p]
      /\ \A p \in Op : op[p].pc = "done" => op'[p] = op[p]
      /\ \A p \in Op : Sane(op'[p]) /\ Named(op[p])' /\ Past(op[p])'
  BY RequestsKept
<1>2. row[o] = "none" /\ UNCHANGED <<stamped, row>>
  BY DEF IInv, Unlogged, trail
<1>3. TypeInv'
  BY <1>1, <1>2 DEF IInv, TypeInv, Moves
<1>4. Unlogged' /\ TrailTellsTheTruth'
  BY <1>1, <1>2 DEF IInv, Unlogged, TrailTellsTheTruth
<1>5. \A i \in DOMAIN stamped : stamped[i] \in Op /\ op'[stamped[i]] = op[stamped[i]]
  BY <1>1 DEF IInv, TypeInv, StampedDone
<1>6. StampedDone' /\ TrailInOrder'
  BY <1>1, <1>2, <1>5 DEF IInv, TypeInv, StampedDone, TrailInOrder
<1> QED BY <1>1, <1>3, <1>4, <1>6 DEF IInv

\* The entry of a request that has just ended comes after those of all that
\* ended before: it is not in their past.
LEMMA StepLogged ==
  ASSUME IInv, NEW o \in Op, NEW c \in OpState, Becomes(o, c), op[o].pc = "call",
         Sane(c), Named(c), Past(c), Moves, Log(o), c.pc = "done", c.applied, c.audited
  PROVE  IInv'
<1>1. /\ op' \in [Op -> OpState]
      /\ op'[o] = c /\ \A p \in Op : p # o => op'[p] = op[p]
      /\ \A p \in Op : op[p].pc = "done" => op'[p] = op[p]
      /\ \A p \in Op : Sane(op'[p]) /\ Named(op[p])' /\ Past(op[p])'
  BY RequestsKept
<1>2. /\ stamped \in Seq(Op) /\ stamped' = Append(stamped, o)
      /\ row' = [row EXCEPT ![o] = "logged"] /\ row \in [Op -> RowState]
  BY EntryAssumption DEF Log, Pass, IInv, TypeInv
<1>3. TypeInv'
  BY <1>1, <1>2 DEF IInv, TypeInv, Moves, RowState
<1>4. Unlogged' /\ TrailTellsTheTruth'
  BY <1>1, <1>2 DEF IInv, Unlogged, TrailTellsTheTruth
<1>5. \A i \in 1..Len(stamped) :
        /\ stamped[i] \in Op /\ op[stamped[i]].pc = "done"
        /\ op'[stamped[i]] = op[stamped[i]] /\ o \notin op[stamped[i]].before
  BY <1>1, <1>2 DEF IInv, StampedDone, Past
<1>6. /\ Len(stamped') = Len(stamped) + 1 /\ Len(stamped) \in Nat
      /\ DOMAIN stamped' = 1..Len(stamped') /\ DOMAIN stamped = 1..Len(stamped)
      /\ \A i \in 1..Len(stamped) : stamped'[i] = stamped[i]
      /\ stamped'[Len(stamped')] = o
  BY <1>2
<1>7. StampedDone'
  BY <1>1, <1>5, <1>6 DEF StampedDone
<1>8. TrailInOrder'
  <2> SUFFICES ASSUME NEW j \in 1..Len(stamped'), NEW i \in 1..(j - 1)
               PROVE  stamped'[j] \notin op'[stamped'[i]].before
    BY <1>6 DEF TrailInOrder
  <2>1. i \in 1..Len(stamped) /\ stamped'[i] = stamped[i]
    BY <1>6
  <2>2. CASE j = Len(stamped')
    BY <1>5, <1>6, <2>1, <2>2
  <2>3. CASE j # Len(stamped')
    <3>1. j \in 1..Len(stamped) /\ stamped'[j] = stamped[j]
      BY <1>6, <2>3
    <3>2. stamped[j] \notin op[stamped[i]].before
      BY <1>6, <3>1 DEF IInv, TrailInOrder
    <3> QED BY <1>5, <2>1, <3>1, <3>2
  <2> QED BY <2>2, <2>3
<1> QED BY <1>1, <1>3, <1>4, <1>7, <1>8 DEF IInv
-----------------------------------------------------------------------------
(***************************************************************************)
(* What Keycloak does to the directory.                                    *)
(***************************************************************************)
LEMMA ProcessMoves ==
  ASSUME IInv, NEW q, WellAsked(q), Accepts(q), Process(q)
  PROVE  Moves
<1> DEFINE Linked(ls) ==
             \A l \in ls : Live(l[1], "user") /\ (Live(l[2], "role") \/ Live(l[2], "group"))
<1>1. /\ things \in [Id -> Thing \cup {NULL, Gone}] /\ Linked(links)
      /\ q \in AskState
  BY DEF IInv, TypeInv, WellAsked
<1>2. /\ Gone.sort = "gone" /\ Gone # NULL /\ NULL \notin Thing
      /\ \A t \in Thing : t.sort \in Sort /\ t.sort # "gone" /\ t # Gone
  BY NullAssumption DEF Gone, Thing, Sort
<1>3. CASE q.verb = "create"
  <2> DEFINE t == [sort |-> q.sort, name |-> q.name, on |-> q.on]
  <2>1. Fresh \in Id /\ things[Fresh] = NULL
    BY <1>3 DEF Process, Fresh
  <2>2. /\ things' = [things EXCEPT ![Fresh] = t] /\ links' = links
    BY <1>3 DEF Process, ThingsAfter, LinksAfter
  <2>3. t \in Thing /\ t.sort \in Sort
    BY <1>1, <1>3 DEF AskState, Thing, WellAsked
  <2> HIDE DEF t
  <2>4. \A i \in Id : i # Fresh => things'[i] = things[i]
    BY <1>1, <2>1, <2>2
  <2>5. things' \in [Id -> Thing \cup {NULL, Gone}]
    BY <1>1, <2>1, <2>2, <2>3
  <2>6. \A i : \A s \in Sort : Live(i, s) => Live(i, s)'
    BY <1>2, <2>1, <2>4 DEF Live
  <2>7. (Linked(links))'
    BY <1>1, <2>2, <2>6 DEF Sort
  <2>8. RolesStay
    BY <1>2, <2>1, <2>4 DEF RolesStay, Live
  <2> QED BY <2>5, <2>7, <2>8 DEF Moves
<1>4. CASE q.verb \in {"update", "enable"}
  <2> DEFINE t == [things[q.id] EXCEPT !.on = q.on, !.name = IF q.name = NULL THEN @ ELSE q.name]
             t1 == [things[q.id] EXCEPT !.on = q.on]
             n == IF q.name = NULL THEN t1.name ELSE q.name
  <2>1. /\ q.id \in Id /\ Live(q.id, q.sort) /\ q.sort \in {"user", "group"}
        /\ things[q.id] \in Thing
    BY <1>1, <1>2, <1>4, NullAssumption DEF WellAsked, Accepts, Missing, Owner, Live
  <2>2. things' = [things EXCEPT ![q.id] = t] /\ links' = links
    BY <1>1, <1>4 DEF Process, ThingsAfter, LinksAfter
  <2>3. t1 \in Thing /\ t1.sort = things[q.id].sort /\ q.name \in Name \cup {NULL}
    BY <1>1, <2>1 DEF Thing, AskState
  <2>4. t = [t1 EXCEPT !.name = n]
    OBVIOUS
  <2>5. n \in Name
    BY <2>3 DEF Thing
  <2> HIDE DEF t, t1, n
  <2>6. t \in Thing /\ t.sort = things[q.id].sort
    BY <2>3, <2>4, <2>5 DEF Thing
  <2>7. /\ things' \in [Id -> Thing \cup {NULL, Gone}] /\ things'[q.id] = t
        /\ \A i \in Id : i # q.id => things'[i] = things[i]
    BY <1>1, <2>1, <2>2, <2>6
  <2>8. \A i : \A s \in Sort : Live(i, s) => Live(i, s)'
    BY <1>2, <2>6, <2>7 DEF Live
  <2>9. (Linked(links))'
    BY <1>1, <2>2, <2>8 DEF Sort
  <2>10. RolesStay
    BY <1>2, <2>1, <2>7 DEF RolesStay, Live
  <2> QED BY <2>7, <2>9, <2>10 DEF Moves
<1>5. CASE q.verb = "delete"
  <2>1. /\ things' = [i \in Id |-> IF i \in Victims(q) THEN Gone ELSE things[i]]
        /\ links' = {l \in links : l[1] \notin Victims(q) /\ l[2] \notin Victims(q)}
    BY <1>5 DEF Process, ThingsAfter, LinksAfter
  <2>2. things' \in [Id -> Thing \cup {NULL, Gone}] /\ RolesStay
    BY <1>1, <2>1 DEF RolesStay
  <2>3. \A i : \A s \in Sort : Live(i, s) /\ i \notin Victims(q) => Live(i, s)'
    BY <2>1 DEF Live
  <2>4. (Linked(links))'
    BY <1>1, <2>1, <2>3 DEF Sort
  <2> QED BY <2>2, <2>4 DEF Moves
<1>6. CASE q.verb = "link"
  <2>1. things' = things /\ links' = links \cup Pairs(q)
    BY <1>6 DEF Process, ThingsAfter, LinksAfter
  <2>2. q.id \in Id /\ q.sort \in {"role", "group"} /\ q.id # NULL
    BY <1>6, NullAssumption DEF WellAsked
  <2>3. Live(q.id, "user") /\ \A i \in q.refs : Live(i, q.sort)
    BY <1>6, <2>2 DEF Accepts, Missing, Owner
  <2>4. \A l \in Pairs(q) : l[1] = q.id /\ l[2] \in q.refs
    BY DEF Pairs
  <2>5. (Linked(links))'
    BY <1>1, <2>1, <2>2, <2>3, <2>4 DEF Live
  <2> QED BY <1>1, <2>1, <2>5 DEF Moves, RolesStay
<1>7. CASE q.verb = "unlink"
  <2>1. things' = things /\ links' = links \ Pairs(q)
    BY <1>7 DEF Process, ThingsAfter, LinksAfter
  <2> QED BY <1>1, <2>1 DEF Moves, RolesStay, Live
<1>8. CASE q.verb = "password"
  <2>1. things' = things /\ links' = links
    BY <1>8 DEF Process, ThingsAfter, LinksAfter
  <2> QED BY <1>1, <2>1 DEF Moves, RolesStay, Live
<1> QED BY <1>1, <1>3, <1>4, <1>5, <1>6, <1>7, <1>8 DEF AskState
-----------------------------------------------------------------------------
(***************************************************************************)
(* The handlers: each begins with a request that is blank.                 *)
(***************************************************************************)
LEMMA AdminKeeps ==
  ASSUME IInv, NEW o \in Op, op[o].pc = "idle", NEW q, Blank(q), Admin(o, q) PROVE IInv'
<1>1. \/ Start(o, TRUE, q)
      \/ op' = [op EXCEPT ![o] = Forbidden] /\ UNCHANGED <<things, links, stamped, row>>
  BY DEF Admin
<1>2. CASE Start(o, TRUE, q)
  <2> DEFINE c == Started(TRUE, q)
  <2>1. c \in CallState /\ c.pc = "call" /\ Sane(c) /\ Named(c) /\ Past(c)
    BY StartedSane
  <2>2. Becomes(o, c) /\ UNCHANGED trail /\ Moves
    BY <1>2, NoMove DEF Start, Becomes, trail, directory
  <2> HIDE DEF c
  <2> QED BY <2>1, <2>2, StepUnlogged DEF OpState
<1>3. CASE op' = [op EXCEPT ![o] = Forbidden] /\ UNCHANGED <<things, links, stamped, row>>
  <2>1. Forbidden \in OpState /\ Forbidden.pc = "forbidden"
    BY DEF Forbidden, OpState
  <2>2. Sane(Forbidden) /\ Named(Forbidden) /\ Past(Forbidden)
    BY <2>1 DEF Sane, Named, Past
  <2>3. Becomes(o, Forbidden) /\ UNCHANGED trail /\ Moves
    BY <1>3, NoMove DEF Becomes, trail, directory
  <2> QED BY <2>1, <2>2, <2>3, StepUnlogged
<1> QED BY <1>1, <1>2, <1>3

LEMMA OwnKeeps ==
  ASSUME IInv, NEW o \in Op, op[o].pc = "idle", NEW q, Blank(q), Own(o, q) PROVE IInv'
<1> DEFINE c == Started(FALSE, q)
<1>1. c \in CallState /\ c.pc = "call" /\ Sane(c) /\ Named(c) /\ Past(c)
  BY StartedSane
<1>2. Becomes(o, c) /\ UNCHANGED trail /\ Moves
  BY NoMove DEF Own, Start, Becomes, trail, directory
<1> HIDE DEF c
<1> QED BY <1>1, <1>2, StepUnlogged DEF OpState

LEMMA BeginKeeps == ASSUME IInv, NEW o \in Op, Begin(o) PROVE IInv'
<1>1. op[o].pc = "idle"
  BY DEF Begin
<1>2. CASE CreateUser(o)
  <2>1. PICK n \in Name, b \in BOOLEAN : Admin(o, CreatesUser(n, b))
    BY <1>2 DEF CreateUser
  <2>2. Blank(CreatesUser(n, b))
    BY PlainBlank DEF CreatesUser, Verb, Sort
  <2> QED BY <1>1, <2>1, <2>2, AdminKeeps
<1>3. CASE UpdateUser(o)
  <2>1. PICK i \in Known("user"), n \in Name \cup {NULL} : Admin(o, UpdatesUser(i, n))
    BY <1>3 DEF UpdateUser
  <2>2. Blank(UpdatesUser(i, n))
    BY PlainBlank DEF UpdatesUser, Verb, Sort, Known
  <2> QED BY <1>1, <2>1, <2>2, AdminKeeps
<1>4. CASE SetUserEnabled(o)
  <2>1. PICK i \in Known("user"), b \in BOOLEAN : Admin(o, EnablesUser(i, b))
    BY <1>4 DEF SetUserEnabled
  <2>2. Blank(EnablesUser(i, b))
    BY PlainBlank DEF EnablesUser, Verb, Sort, Known
  <2> QED BY <1>1, <2>1, <2>2, AdminKeeps
<1>5. CASE DeleteUser(o)
  <2>1. PICK i \in Known("user") : Admin(o, DeletesUser(i))
    BY <1>5 DEF DeleteUser
  <2>2. Blank(DeletesUser(i))
    BY PlainBlank DEF DeletesUser, Verb, Sort, Known
  <2> QED BY <1>1, <2>1, <2>2, AdminKeeps
<1>6. CASE ResetUserPassword(o)
  <2>1. PICK i \in Known("user") : Admin(o, ResetsPassword(i))
    BY <1>6 DEF ResetUserPassword
  <2>2. Blank(ResetsPassword(i))
    BY PlainBlank DEF ResetsPassword, Verb, Sort, Known
  <2> QED BY <1>1, <2>1, <2>2, AdminKeeps
<1>7. CASE AssignRoles(o)
  <2>1. PICK i \in Known("user"), names \in SUBSET Name : Admin(o, AssignsRoles(i, names))
    BY <1>7 DEF AssignRoles
  <2>2. Blank(AssignsRoles(i, names))
    BY PlainBlank DEF AssignsRoles, Verb, Sort, Known
  <2> QED BY <1>1, <2>1, <2>2, AdminKeeps
<1>8. CASE RemoveRoles(o)
  <2>1. PICK i \in Known("user"), names \in SUBSET Name : Admin(o, RemovesRoles(i, names))
    BY <1>8 DEF RemoveRoles
  <2>2. Blank(RemovesRoles(i, names))
    BY PlainBlank DEF RemovesRoles, Verb, Sort, Known
  <2> QED BY <1>1, <2>1, <2>2, AdminKeeps
<1>9. CASE CreateGroup(o)
  <2>1. PICK n \in Name : Admin(o, CreatesGroup(n))
    BY <1>9 DEF CreateGroup
  <2>2. Blank(CreatesGroup(n))
    BY PlainBlank DEF CreatesGroup, Verb, Sort, Known
  <2> QED BY <1>1, <2>1, <2>2, AdminKeeps
<1>10. CASE UpdateGroup(o)
  <2>1. PICK i \in Known("group"), n \in Name : Admin(o, UpdatesGroup(i, n))
    BY <1>10 DEF UpdateGroup
  <2>2. Blank(UpdatesGroup(i, n))
    BY PlainBlank DEF UpdatesGroup, Verb, Sort, Known
  <2> QED BY <1>1, <2>1, <2>2, AdminKeeps
<1>11. CASE DeleteGroup(o)
  <2>1. PICK i \in Known("group") : Admin(o, DeletesGroup(i))
    BY <1>11 DEF DeleteGroup
  <2>2. Blank(DeletesGroup(i))
    BY PlainBlank DEF DeletesGroup, Verb, Sort, Known
  <2> QED BY <1>1, <2>1, <2>2, AdminKeeps
<1>12. CASE AddUserToGroup(o)
  <2>1. PICK i \in Known("user"), g \in Known("group") : Admin(o, AddsToGroup(i, g))
    BY <1>12 DEF AddUserToGroup
  <2>2. Blank(AddsToGroup(i, g))
    BY PlainBlank DEF AddsToGroup, Verb, Sort, Known
  <2> QED BY <1>1, <2>1, <2>2, AdminKeeps
<1>13. CASE RemoveUserFromGroup(o)
  <2>1. PICK i \in Known("user"), g \in Known("group") : Admin(o, RemovesFromGroup(i, g))
    BY <1>13 DEF RemoveUserFromGroup
  <2>2. Blank(RemovesFromGroup(i, g))
    BY PlainBlank DEF RemovesFromGroup, Verb, Sort, Known
  <2> QED BY <1>1, <2>1, <2>2, AdminKeeps
<1>14. CASE CreateRole(o)
  <2>1. PICK n \in Name : Admin(o, CreatesRole(n))
    BY <1>14 DEF CreateRole
  <2>2. Blank(CreatesRole(n))
    BY PlainBlank DEF CreatesRole, Verb, Sort, Known
  <2> QED BY <1>1, <2>1, <2>2, AdminKeeps
<1>15. CASE DeleteRole(o)
  <2>1. PICK n \in Name : Admin(o, DeletesRole(n))
    BY <1>15 DEF DeleteRole
  <2>2. Blank(DeletesRole(n))
    BY PlainBlank DEF DeletesRole, Verb, Sort, Known
  <2> QED BY <1>1, <2>1, <2>2, AdminKeeps
<1>16. CASE UpdateProfile(o)
  <2>1. PICK i \in Known("user") : Own(o, UpdatesUser(i, NULL))
    BY <1>16 DEF UpdateProfile
  <2>2. Blank(UpdatesUser(i, NULL))
    BY PlainBlank DEF UpdatesUser, Verb, Sort, Known
  <2> QED BY <1>1, <2>1, <2>2, OwnKeeps
<1>17. CASE ChangePassword(o)
  <2>1. PICK i \in Known("user") : Own(o, ResetsPassword(i))
    BY <1>17 DEF ChangePassword
  <2>2. Blank(ResetsPassword(i))
    BY PlainBlank DEF ResetsPassword, Verb, Sort, Known
  <2> QED BY <1>1, <2>1, <2>2, OwnKeeps
<1> QED BY <1>2, <1>3, <1>4, <1>5, <1>6, <1>7, <1>8, <1>9, <1>10, <1>11, <1>12, <1>13,
           <1>14, <1>15, <1>16, <1>17 DEF Begin
-----------------------------------------------------------------------------
(***************************************************************************)
(* The services.                                                           *)
(***************************************************************************)
LEMMA Calling ==
  ASSUME IInv, NEW o \in Op, Calls(o)
  PROVE  /\ op[o] \in CallState /\ op[o].pc = "call"
         /\ Sane(op[o]) /\ Named(op[o]) /\ Past(op[o])
         /\ WellAsked(op[o].q) /\ (op[o].applied => op[o].lost) /\ row[o] = "none"
  BY DEF IInv, TypeInv, OpState, Calls, DoneState, Sane, Unlogged

\* A request that ends with an error is owed no entry.
LEMMA EndKeeps ==
  ASSUME IInv, NEW o \in Op, Calls(o), NEW out \in {"refused", "error"},
         Becomes(o, Ended(o, out)), UNCHANGED <<directory, stamped, row>>
  PROVE  IInv'
<1> DEFINE c == Ended(o, out)
<1>1. /\ c \in OpState /\ c.pc = "done" /\ Sane(c) /\ Named(c) /\ Past(c)
      /\ (c.applied => c.lost)
  BY EndedSane, Calling DEF OpState, Outcome
<1>2. Becomes(o, c) /\ UNCHANGED trail /\ Moves /\ op[o].pc = "call"
  BY NoMove DEF trail, Calls
<1> HIDE DEF c
<1> QED BY <1>1, <1>2, StepUnlogged

LEMMA LookUpKeeps == ASSUME IInv, NEW o \in Op, LookUp(o) PROVE IInv'
<1>1. Calls(o) /\ UNCHANGED <<directory, stamped, row>>
  BY DEF LookUp
<1>2. PICK n \in op[o].q.todo :
        IF Bearer("role", n) = {} THEN Becomes(o, Ended(o, "refused"))
        ELSE Becomes(o, [op[o] EXCEPT !.q.todo = @ \ {n}, !.q.refs = @ \cup Bearer("role", n)])
  BY DEF LookUp
<1>3. CASE Bearer("role", n) = {}
  BY <1>1, <1>2, <1>3, EndKeeps
<1>4. CASE Bearer("role", n) # {}
  <2> DEFINE d == op[o]
             todo == d.q.todo \ {n}
             refs == d.q.refs \cup Bearer("role", n)
             q1 == [d.q EXCEPT !.todo = todo]
             q2 == [q1 EXCEPT !.refs = refs]
             c == [d EXCEPT !.q = q2]
  <2>1. [op[o] EXCEPT !.q.todo = @ \ {n}, !.q.refs = @ \cup Bearer("role", n)] = c
    <3>1. d \in CallState
      BY <1>1, Calling
    <3> QED BY <3>1 DEF CallState, AskState
  <2>2. Becomes(o, c)
    BY <1>2, <1>4, <2>1
  <2>3. /\ d \in CallState /\ d.pc = "call" /\ Sane(d) /\ Named(d) /\ Past(d)
        /\ WellAsked(d.q) /\ (d.applied => d.lost)
    BY <1>1, Calling
  <2>4. \A i \in Bearer("role", n) : i \in Id /\ Live(i, "role") /\ things[i].name = n
    BY DEF Bearer
  <2>5. todo \in SUBSET Name /\ refs \in SUBSET Id /\ d.q \in AskState
    BY <2>3, <2>4 DEF WellAsked, AskState
  <2> HIDE DEF todo, refs
  <2>6. q1 \in AskState /\ q1.todo = todo
    BY <2>5, SetAsk DEF AskState
  <2>7. /\ q1.verb = d.q.verb /\ q1.sort = d.q.sort /\ q1.id = d.q.id
        /\ q1.name = d.q.name /\ q1.names = d.q.names
    BY <2>5 DEF AskState
  <2> HIDE DEF q1
  <2>8. q2 \in AskState /\ q2.refs = refs /\ q2.todo = todo
    BY <2>5, <2>6, SetAsk DEF AskState
  <2>9. /\ q2.verb = d.q.verb /\ q2.sort = d.q.sort /\ q2.id = d.q.id
        /\ q2.name = d.q.name /\ q2.names = d.q.names
    BY <2>6, <2>7 DEF AskState
  <2> HIDE DEF q2
  <2>10. WellAsked(q2)
    BY <2>3, <2>8, <2>9 DEF WellAsked
  <2>11. /\ c \in CallState /\ c.pc = "call" /\ c.q = q2 /\ c.audited = d.audited
         /\ c.applied = d.applied
         /\ c.lost = d.lost /\ c.before = d.before
    BY <2>3, <2>8 DEF CallState
  <2> HIDE DEF c
  <2>12. Sane(c) /\ Past(c)
    BY <2>3, <2>10, <2>11 DEF Sane, Past
  <2>13. Named(c)
    <3> SUFFICES ASSUME q2.verb = "link", q2.sort = "role", NEW m \in q2.names \ q2.todo
                 PROVE  \E i \in q2.refs \cap Id :
                          things[i] = Gone \/ (Live(i, "role") /\ things[i].name = m)
      BY <2>11 DEF Named
    <3>1. CASE m = n
      BY <1>4, <2>4, <2>8, <3>1 DEF refs
    <3>2. CASE m # n
      <4>1. m \in d.q.names \ d.q.todo
        BY <2>8, <2>9, <3>2 DEF todo
      <4>2. PICK i \in d.q.refs \cap Id :
              things[i] = Gone \/ (Live(i, "role") /\ things[i].name = m)
        BY <2>3, <2>9, <4>1 DEF Named
      <4> QED BY <2>8, <4>2 DEF refs
    <3> QED BY <3>1, <3>2
  <2>14. UNCHANGED trail /\ Moves
    BY <1>1, NoMove DEF trail
  <2> QED BY <1>1, <2>2, <2>11, <2>12, <2>13, <2>14, StepUnlogged DEF OpState, Calls
<1> QED BY <1>3, <1>4

LEMMA LookUpFailsKeeps == ASSUME IInv, NEW o \in Op, LookUpFails(o) PROVE IInv'
  BY EndKeeps DEF LookUpFails

LEMMA RefusedKeeps == ASSUME IInv, NEW o \in Op, Refused(o) PROVE IInv'
  BY EndKeeps DEF Refused, Attempts

LEMMA DoneKeeps == ASSUME IInv, NEW o \in Op, Done(o) PROVE IInv'
<1> DEFINE e == Ended(o, "ok")
           c == [e EXCEPT !.applied = TRUE]
<1>1. /\ Calls(o) /\ Accepts(op[o].q) /\ Process(op[o].q) /\ Becomes(o, c)
      /\ IF op[o].audited THEN Log(o) ELSE UNCHANGED trail
  BY DEF Done, Attempts
<1>2. /\ e \in DoneState /\ e.pc = "done" /\ e.out = "ok" /\ e.audited = op[o].audited
      /\ Sane(e) /\ Past(e)
  BY <1>1, EndedSane DEF Outcome
<1> HIDE DEF e
<1>3. /\ c \in DoneState /\ c.pc = "done" /\ c.out = "ok" /\ c.applied
      /\ c.audited = op[o].audited
      /\ c.before = e.before
  BY <1>2 DEF DoneState
<1> HIDE DEF c
<1>4. Sane(c) /\ Named(c) /\ Past(c)
  BY <1>2, <1>3 DEF Sane, Named, Past
<1>5. Moves /\ op[o].pc = "call"
  BY <1>1, ProcessMoves, Calling
<1>6. CASE op[o].audited
  BY <1>1, <1>3, <1>4, <1>5, <1>6, StepLogged DEF OpState
<1>7. CASE ~op[o].audited
  BY <1>1, <1>3, <1>4, <1>5, <1>7, StepUnlogged DEF OpState
<1> QED BY <1>6, <1>7

\* Another attempt, or the end, of a request c with the attempt's outcome.
LEMMA AgainKeeps ==
  ASSUME IInv, NEW o \in Op, Calls(o), NEW c \in CallState, Again(o, c),
         c.pc = "call", c.q = op[o].q, c.try = op[o].try,
         c.audited = op[o].audited, c.before = op[o].before,
         c.applied => c.lost, Moves, UNCHANGED trail
  PROVE  IInv'
<1>1. /\ op[o] \in CallState /\ op[o].pc = "call" /\ WellAsked(op[o].q)
      /\ Sane(op[o]) /\ Named(op[o]) /\ Past(op[o])
  BY Calling
<1>2. CASE op[o].try < Tries
  <2> DEFINE d == [c EXCEPT !.try = @ + 1]
  <2>1. c.try + 1 \in 1..Tries
    BY <1>1, <1>2, TriesAssumption DEF CallState
  <2>2. /\ d \in CallState /\ d.pc = "call" /\ d.q = c.q
        /\ d.audited = c.audited /\ d.before = c.before
        /\ d.applied = c.applied /\ d.lost = c.lost
    BY <2>1 DEF CallState
  <2>3. Becomes(o, d)
    BY <1>2 DEF Again
  <2> HIDE DEF d
  <2>4. Sane(d) /\ Named(d) /\ Past(d)
    BY <1>1, <2>2 DEF Sane, Named, Past
  <2> QED BY <1>1, <2>2, <2>3, <2>4, StepUnlogged DEF OpState
<1>3. CASE ~(op[o].try < Tries)
  <2> DEFINE e == Ended(o, "error")
             e1 == [e EXCEPT !.applied = c.applied]
             d == [e1 EXCEPT !.lost = c.lost]
  <2>1. [e EXCEPT !.applied = c.applied, !.lost = c.lost] = d
    OBVIOUS
  <2>2. Becomes(o, d)
    BY <1>3, <2>1 DEF Again
  <2>3. /\ e \in DoneState /\ e.pc = "done" /\ e.out = "error"
        /\ Sane(e) /\ Past(e)
    BY EndedSane DEF Outcome
  <2> HIDE DEF e
  <2>4. /\ e1 \in DoneState /\ e1.applied = c.applied /\ e1.pc = "done" /\ e1.out = "error"
        /\ e1.audited = e.audited
        /\ e1.before = e.before
    BY <2>3 DEF DoneState, CallState
  <2> HIDE DEF e1
  <2>5. /\ d \in DoneState /\ d.applied = c.applied /\ d.lost = c.lost
        /\ d.pc = "done" /\ d.out = "error"
        /\ d.audited = e.audited /\ d.before = e.before
    BY <2>4 DEF DoneState, CallState
  <2> HIDE DEF d
  <2>6. Sane(d) /\ Named(d) /\ Past(d)
    BY <2>3, <2>5 DEF Sane, Named, Past
  <2> QED BY <1>1, <2>2, <2>5, <2>6, StepUnlogged DEF OpState
<1> QED BY <1>2, <1>3

LEMMA AttemptFailsKeeps == ASSUME IInv, NEW o \in Op, AttemptFails(o) PROVE IInv'
<1>1. Calls(o) /\ Again(o, op[o]) /\ UNCHANGED directory /\ UNCHANGED trail
  BY DEF AttemptFails, Attempts, trail
<1>2. op[o] \in CallState /\ op[o].pc = "call" /\ (op[o].applied => op[o].lost)
  BY <1>1, Calling
<1> QED BY <1>1, <1>2, NoMove, AgainKeeps

LEMMA AnswerLostKeeps == ASSUME IInv, NEW o \in Op, AnswerLost(o) PROVE IInv'
<1> DEFINE d == op[o]
           c1 == [d EXCEPT !.applied = TRUE]
           c == [c1 EXCEPT !.lost = TRUE]
<1>1. [op[o] EXCEPT !.applied = TRUE, !.lost = TRUE] = c
  OBVIOUS
<1>2. /\ Calls(o) /\ Accepts(d.q) /\ Process(d.q) /\ Again(o, c) /\ UNCHANGED trail
  BY <1>1 DEF AnswerLost, Attempts
<1>3. d \in CallState /\ d.pc = "call" /\ WellAsked(d.q)
  BY <1>2, Calling
<1>4. Moves
  BY <1>2, <1>3, ProcessMoves
<1>5. /\ c1 \in CallState /\ c1.pc = "call" /\ c1.q = d.q /\ c1.try = d.try
      /\ c1.audited = d.audited
      /\ c1.before = d.before
  BY <1>3 DEF CallState
<1> HIDE DEF c1
<1>6. /\ c \in CallState /\ c.pc = "call" /\ c.q = d.q /\ c.try = d.try
      /\ c.audited = d.audited
      /\ c.before = d.before /\ c.lost
  BY <1>5 DEF CallState
<1> HIDE DEF c
<1> QED BY <1>2, <1>4, <1>6, AgainKeeps
-----------------------------------------------------------------------------
(***************************************************************************)
(* The trail and the process.                                              *)
(***************************************************************************)

\* The writing of entries decides neither which there are nor their order.
TrailGoesOn ==
  /\ stamped' = stamped
  /\ row' \in [Op -> RowState]
  /\ \A o \in Op : row'[o] = "none" <=> row[o] = "none"

LEMMA TrailStep == ASSUME IInv, TrailGoesOn, UNCHANGED <<directory, op>> PROVE IInv'
<1>1. /\ things' = things /\ links' = links /\ op' = op /\ stamped' = stamped
  BY DEF TrailGoesOn, directory
<1>2. TypeInv'
  BY <1>1 DEF IInv, TypeInv, TrailGoesOn, Live
<1>3. \A o \in Op : Sane(op'[o]) /\ Named(op[o])' /\ Past(op[o])'
  BY <1>1 DEF IInv, Named, Past, Live
<1>4. Unlogged' /\ StampedDone' /\ TrailTellsTheTruth' /\ TrailInOrder'
  BY <1>1 DEF IInv, TrailGoesOn, Unlogged, StampedDone, TrailTellsTheTruth, TrailInOrder
<1> QED BY <1>2, <1>3, <1>4 DEF IInv

LEMMA WriteGoesOn == ASSUME IInv, NEW o \in Op, Write(o) PROVE TrailGoesOn
<1>1. row \in [Op -> RowState]
  BY DEF IInv, TypeInv
<1>2. CASE Acquire(o)
  BY <1>1, <1>2 DEF Acquire, Pass, TrailGoesOn, RowState
<1>3. CASE Written(o)
  BY <1>1, <1>3 DEF Written, Pass, TrailGoesOn, RowState
<1>4. CASE WriteFails(o)
  BY <1>1, <1>4 DEF WriteFails, Pass, TrailGoesOn, RowState
<1> QED BY <1>2, <1>3, <1>4 DEF Write

LEMMA ShutdownKeeps == ASSUME IInv, Shutdown PROVE IInv'
<1>1. row \in [Op -> RowState]
  BY DEF IInv, TypeInv
<1>2. TrailGoesOn
  BY <1>1, EntryAssumption DEF Shutdown, PoolCloses, TrailGoesOn, RowState
<1> QED BY <1>2, TrailStep DEF Shutdown

LEMMA CrashKeeps == ASSUME IInv, Crash PROVE IInv'
<1>1. /\ row \in [Op -> RowState] /\ op \in [Op -> OpState] /\ UNCHANGED directory
      /\ op' = [o \in Op |-> IF Calls(o) THEN Ended(o, "cut") ELSE op[o]]
      /\ Die
  BY DEF IInv, TypeInv, Crash
<1>2. TrailGoesOn
  <2>1. PICK committed \in SUBSET {e \in Op : row[e] = "writing"} :
          row' = [e \in Op |->
            IF e \in committed THEN "written"
            ELSE IF row[e] \in {"logged", "writing"} THEN "lost" ELSE row[e]]
    BY <1>1, EntryAssumption DEF Die
  <2>2. stamped' = stamped
    BY <1>1 DEF Die
  <2> QED BY <1>1, <2>1, <2>2 DEF TrailGoesOn, RowState
<1>3. things' = things /\ links' = links /\ stamped' = stamped
  BY <1>1, <1>2 DEF directory, TrailGoesOn
<1>4. \A o \in Op : ~Calls(o) => op'[o] = op[o]
  BY <1>1
<1>5. ASSUME NEW o \in Op, Calls(o)
      PROVE  /\ op'[o] \in DoneState /\ op'[o].pc = "done" /\ op'[o].out = "cut"
             /\ Sane(op'[o]) /\ row[o] = "none"
             /\ op'[o].before = op[o].before
  <2>1. op'[o] = Ended(o, "cut")
    BY <1>1, <1>5
  <2>2. Ended(o, "cut").before = op[o].before
    BY DEF Ended
  <2> QED BY <1>5, <2>1, <2>2, EndedSane, Calling DEF Outcome
<1>6. TypeInv'
  BY <1>2, <1>3, <1>4, <1>5, <1>1 DEF IInv, TypeInv, TrailGoesOn, Live, OpState
<1>7. \A o \in Op : op[o].pc = "done" => op'[o] = op[o]
  BY <1>4 DEF Calls
<1>8. ASSUME NEW o \in Op PROVE Sane(op'[o]) /\ Named(op[o])' /\ Past(op[o])'
  <2>1. Sane(op[o]) /\ Named(op[o]) /\ Past(op[o])
    BY DEF IInv
  <2>2. op[o].pc \in {"call", "done"} => op[o].before \subseteq Op
    BY <1>1 DEF OpState, CallState, DoneState
  <2>3. CASE Calls(o)
    BY <1>5, <1>7, <2>1, <2>2, <2>3 DEF Named, Past, Calls
  <2>4. CASE ~Calls(o)
    BY <1>3, <1>4, <1>7, <2>1, <2>2, <2>4 DEF Named, Past, Live
  <2> QED BY <2>3, <2>4
<1>9. Unlogged' /\ TrailTellsTheTruth'
  BY <1>2, <1>4, <1>5 DEF IInv, TrailGoesOn, Unlogged, TrailTellsTheTruth
<1>10. StampedDone' /\ TrailInOrder'
  <2>1. \A i \in DOMAIN stamped : stamped[i] \in Op /\ op'[stamped[i]] = op[stamped[i]]
    BY <1>7 DEF IInv, TypeInv, StampedDone
  <2> QED BY <1>3, <2>1 DEF IInv, TypeInv, StampedDone, TrailInOrder
<1> QED BY <1>6, <1>8, <1>9, <1>10 DEF IInv
-----------------------------------------------------------------------------
LEMMA InitIInv == ASSUME Init PROVE IInv
<1>1. op = [o \in Op |-> [pc |-> "idle"]] /\ row = [o \in Op |-> "none"]
      /\ stamped = <<>> /\ things = Content /\ links = {}
  BY EntryAssumption DEF Init, TrailInit
<1>2. TypeInv
  BY <1>1, ContentAssumption DEF TypeInv, OpState, RowState
<1> QED BY <1>1, <1>2 DEF IInv, Sane, Named, Past, Unlogged, StampedDone,
     TrailTellsTheTruth, TrailInOrder

LEMMA NextKeeps == ASSUME IInv, [Next]_vars PROVE IInv'
<1>1. ASSUME NEW o \in Op, Begin(o) PROVE IInv'
  BY <1>1, BeginKeeps
<1>2. ASSUME NEW o \in Op, Step(o) PROVE IInv'
  BY <1>2, LookUpKeeps, LookUpFailsKeeps, DoneKeeps, RefusedKeeps, AttemptFailsKeeps,
     AnswerLostKeeps DEF Step
<1>3. ASSUME NEW o \in Op, Write(o), UNCHANGED <<directory, op>> PROVE IInv'
  BY <1>3, WriteGoesOn, TrailStep
<1>4. CASE UNCHANGED vars
  <2>1. TrailGoesOn /\ UNCHANGED <<directory, op>>
    BY <1>4 DEF vars, TrailGoesOn, directory, IInv, TypeInv
  <2> QED BY <2>1, TrailStep
<1> QED BY <1>1, <1>2, <1>3, <1>4, ShutdownKeeps, CrashKeeps DEF Next, Quiet

THEOREM Invariant == Spec => []IInv
<1>1. Init => IInv
  BY InitIInv
<1>2. IInv /\ [Next]_vars => IInv'
  BY NextKeeps
<1> QED BY <1>1, <1>2, PTL DEF Spec
-----------------------------------------------------------------------------
(***************************************************************************)
(* Theorems                                                                *)
(***************************************************************************)

\* Every variable keeps its type, and links join live objects: what Keycloak
\* does for a request, in its own call, leaves no link to what another
\* deleted meanwhile.
THEOREM TypeCorrect == Spec => []TypeOK
  BY Invariant, Implies, PTL

\* The audit trail has an entry of a request just when the request changed
\* the directory, unless an answer of Keycloak was lost or the process died.
THEOREM TrailTellsTheTruthHolds == Spec => []TrailTellsTheTruth
<1>1. IInv => TrailTellsTheTruth
  BY DEF IInv
<1> QED BY <1>1, Invariant, PTL

\* Requests answered with an error have changed nothing, unless an answer of
\* Keycloak was lost.
THEOREM ErrorChangedNothingHolds == Spec => []ErrorChangedNothing
  BY Invariant, Implies, PTL

\* The times of the entries order them as the requests were, however late
\* their goroutines write them.
THEOREM TrailInOrderHolds == Spec => []TrailInOrder
<1>1. IInv => TrailInOrder
  BY DEF IInv
<1> QED BY <1>1, Invariant, PTL

\* A request is answered with success only by the call that made the change.
LEMMA OkIsDone ==
  ASSUME IInv, [Next]_vars, NEW o \in Op, op[o].pc = "call",
         op'[o].pc = "done", op'[o].out = "ok"
  PROVE  Done(o)
<1>1. op \in [Op -> OpState] /\ op[o] \in CallState
  BY Calling DEF IInv, TypeInv, Calls
<1>2. op'[o] # op[o]
  OBVIOUS
<1>3. \A p \in Op : Begin(p) => op[p].pc = "idle" /\ \E c : op' = [op EXCEPT ![p] = c]
  BY DEF Begin, CreateUser, UpdateUser, SetUserEnabled, DeleteUser, ResetUserPassword,
     AssignRoles, RemoveRoles, CreateGroup, UpdateGroup, DeleteGroup, AddUserToGroup,
     RemoveUserFromGroup, CreateRole, DeleteRole, UpdateProfile, ChangePassword,
     Admin, Own, Start
<1>4. \A p \in Op : ~Begin(p)
  BY <1>1, <1>2, <1>3
<1>5. \A p \in Op : Step(p) => \E c : op' = [op EXCEPT ![p] = c]
  BY DEF Step, LookUp, LookUpFails, Done, Refused, AttemptFails, AnswerLost, Again, Becomes
<1>6. \A p \in Op : Step(p) => p = o
  BY <1>1, <1>2, <1>5
<1>7. \A out \in Outcome : Becomes(o, Ended(o, out)) => op'[o].out = out
  BY <1>1 DEF Becomes, Ended
<1>8. ~LookUp(o)
  <2> SUFFICES ASSUME LookUp(o) PROVE FALSE
    OBVIOUS
  <2>1. PICK n \in op[o].q.todo :
          \/ Becomes(o, Ended(o, "refused"))
          \/ Becomes(o, [op[o] EXCEPT !.q.todo = @ \ {n}, !.q.refs = @ \cup Bearer("role", n)])
    BY DEF LookUp
  <2>2. [op[o] EXCEPT !.q.todo = @ \ {n}, !.q.refs = @ \cup Bearer("role", n)].pc = "call"
    BY <1>1 DEF CallState
  <2> QED BY <1>1, <1>7, <2>1, <2>2 DEF Becomes, Outcome
<1>9. ~LookUpFails(o) /\ ~Refused(o)
  BY <1>7 DEF LookUpFails, Refused, Outcome
<1>10. ASSUME NEW c, Again(o, c), c \in CallState PROVE FALSE
  <2> DEFINE e == Ended(o, "error")
             d == [e EXCEPT !.applied = c.applied, !.lost = c.lost]
  <2>1. [c EXCEPT !.try = @ + 1].pc = "call"
    BY <1>10 DEF CallState
  <2>2. e \in DoneState /\ e.out = "error"
    BY EndedSane DEF Outcome, Calls
  <2> HIDE DEF e
  <2>3. d.out = "error"
    BY <2>2 DEF DoneState
  <2> QED BY <1>1, <1>10, <2>1, <2>3 DEF Again, Becomes, e
<1>11. ~AttemptFails(o)
  BY <1>1, <1>10 DEF AttemptFails
<1>12. ~AnswerLost(o)
  <2>1. [op[o] EXCEPT !.applied = TRUE, !.lost = TRUE] \in CallState
    <3> DEFINE c1 == [op[o] EXCEPT !.applied = TRUE]
    <3>1. c1 \in CallState
      BY <1>1 DEF CallState
    <3> HIDE DEF c1
    <3>2. [c1 EXCEPT !.lost = TRUE] \in CallState
      BY <3>1 DEF CallState
    <3> QED BY <3>2 DEF c1
  <2> QED BY <1>10, <2>1 DEF AnswerLost
<1>13. ~Crash
  BY <1>1, <1>2 DEF Crash, Calls, Ended
<1> QED BY <1>2, <1>4, <1>6, <1>8, <1>9, <1>11, <1>12, <1>13
     DEF Next, vars, Step, Shutdown, Quiet, directory

\* Roles are granted as they were named, although others edit the realm
\* between the lookups and the assignment.
THEOREM GrantsAsNamedHolds == Spec => GrantsAsNamed
<1>1. ASSUME IInv, [Next]_vars, NEW o \in Op,
             op[o].pc = "call" /\ op[o].q.verb = "link" /\ op[o].q.sort = "role",
             op'[o].pc = "done" /\ op'[o].out = "ok", NEW n \in op[o].q.names
      PROVE  \E i \in Bearer("role", n) : <<op[o].q.id, i>> \in links'
  <2>1. Done(o)
    BY <1>1, OkIsDone
  <2>2. /\ Accepts(op[o].q) /\ op[o].q.todo = {}
        /\ links' = links \cup Pairs(op[o].q)
    BY <1>1, <2>1 DEF Done, Attempts, Process, LinksAfter
  <2>3. PICK i \in op[o].q.refs \cap Id :
          things[i] = Gone \/ (Live(i, "role") /\ things[i].name = n)
    BY <1>1, <2>2 DEF IInv, Named
  <2>4. Live(i, "role")
    BY <1>1, <2>2, <2>3 DEF Accepts, Missing
  <2>5. i \in Bearer("role", n)
    BY <2>3, <2>4 DEF Live, Gone, Bearer
  <2>6. <<op[o].q.id, i>> \in links'
    BY <2>2, <2>3 DEF Pairs
  <2> QED BY <2>5, <2>6
<1>2. IInv /\ [Next]_vars =>
        \A o \in Op : /\ op[o].pc = "call" /\ op[o].q.verb = "link" /\ op[o].q.sort = "role"
                      /\ op'[o].pc = "done" /\ op'[o].out = "ok"
          => \A n \in op[o].q.names : \E i \in Bearer("role", n) : <<op[o].q.id, i>> \in links'
  BY <1>1
<1> QED BY <1>2, Invariant, PTL DEF Spec, GrantsAsNamed
=============================================================================

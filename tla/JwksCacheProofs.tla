---------------------------- MODULE JwksCacheProofs ----------------------------
(***************************************************************************)
(* Theorems about JwksCache, for every number of requests, realms and key  *)
(* ids: it is type-correct, and behaves like KeyView.                      *)
(*                                                                         *)
(* The cache is looked at, a lock is taken, Keycloak is asked and the      *)
(* cache is written in four steps; what makes them look like one is that   *)
(* the holder of the lock still finds, when the answer comes, what it      *)
(* found when it took the lock (StillDue), and is alone (TypeOK).          *)
(***************************************************************************)
EXTENDS JwksCache, TLAPS

\* Whoever waits for Keycloak has found the realm due and the key unknown.
StillDue ==
  \A r \in Req : req[r].pc = "fetch" => Due(req[r].realm) /\ ~Known(req[r])

IInv == TypeOK /\ StillDue

LEMMA ResolvesToRealm == Resolvable \subseteq Realm
<1> SUFFICES ASSUME NEW h \in Hints PROVE Resolve(h) \in Realm
  BY DEF Resolvable
<1>1. /\ h.subdomain \in Realm \cup {NULL} /\ h.header \in Realm \cup {NULL}
      /\ h.query \in Realm \cup {NULL}
  BY DEF Hints, Hint
<1> QED BY <1>1, MasterAssumption DEF Resolve

LEMMA InitIInv == ASSUME Init PROVE IInv
<1>1. published \in [Realm -> SUBSET Kid] /\ cache = [n \in Realm |-> NULL] /\ lock = NULL
      /\ req = [r \in Req |-> Idle("none")]
  BY DEF Init
<1>2. Idle("none") \in ReqState /\ Idle("none").pc = "idle"
  BY DEF Idle, ReqState, IdleReq, Verdict
<1> HIDE DEF Init
<1>3. \A r \in Req : req[r] \in ReqState /\ req[r].pc = "idle"
  BY <1>1, <1>2
<1>4. TypeOK
  BY <1>1, <1>2, <1>3, NullAssumption DEF TypeOK
<1> QED BY <1>3, <1>4 DEF IInv, StillDue

\* What a request can be, and become.
LEMMA Busy ==
  ASSUME TypeOK, NEW r \in Req, req[r].pc # "idle"
  PROVE  /\ req[r].realm \in Realm /\ req[r].iss \in Realm /\ req[r].kid \in Kid
         /\ req[r].pc \in {"lookup", "lock", "fetch", "install"}
         /\ req[r].pc = "install" => req[r].got \in (SUBSET Kid) \ {{}}
<1>1. req[r] \in IdleReq \cup BusyReq \cup InstallReq
  BY DEF TypeOK, ReqState
<1> QED BY <1>1 DEF IdleReq, BusyReq, InstallReq

LEMMA GoneTo ==
  ASSUME TypeOK, NEW r \in Req, req[r].pc # "idle", NEW pc \in {"lookup", "lock", "fetch"},
         Goto(r, pc)
  PROVE  /\ req' \in [Req -> ReqState] /\ \A q \in Req : q # r => req'[q] = req[q]
         /\ req'[r].pc = pc /\ req'[r].realm = req[r].realm /\ req'[r].kid = req[r].kid
         /\ TokenOf(req'[r]) = TokenOf(req[r])
<1> DEFINE c == [pc |-> pc, realm |-> req[r].realm, iss |-> req[r].iss, kid |-> req[r].kid]
<1>1. req' = [req EXCEPT ![r] = c] /\ req \in [Req -> ReqState]
  BY DEF Goto, TypeOK
<1>2. c \in ReqState /\ c.pc = pc /\ c.realm = req[r].realm /\ c.kid = req[r].kid
      /\ TokenOf(c) = TokenOf(req[r])
  BY Busy DEF ReqState, BusyReq, TokenOf
<1> HIDE DEF c
<1> QED BY <1>1, <1>2

LEMMA Returned ==
  ASSUME TypeOK, NEW r \in Req, NEW v \in Verdict, Return(r, v)
  PROVE  /\ req' \in [Req -> ReqState] /\ \A q \in Req : q # r => req'[q] = req[q]
         /\ req'[r].pc = "idle" /\ TokenOf(req'[r]) = [verdict |-> v]
<1>1. req' = [req EXCEPT ![r] = Idle(v)] /\ req \in [Req -> ReqState]
  BY DEF Return, TypeOK
<1>2. Idle(v) \in ReqState /\ Idle(v).pc = "idle" /\ TokenOf(Idle(v)) = [verdict |-> v]
  BY DEF Idle, ReqState, IdleReq, TokenOf
<1> QED BY <1>1, <1>2
-----------------------------------------------------------------------------
(***************************************************************************)
(* The mapping to KeyView.                                                 *)
(***************************************************************************)
Simulated == Views!Next \/ UNCHANGED Views!vars

\* Only the holder of the lock can be installing.
LEMMA NoneInstalls ==
  ASSUME TypeOK, \A r \in Req : lock = r => req[r].pc # "install"
  PROVE  \A n : Installing(n) = {}
  BY DEF TypeOK, Installing

LEMMA OneInstalls ==
  ASSUME TypeOK, NEW r \in Req, req[r].pc = "install"
  PROVE  /\ Installing(req[r].realm) = {r}
         /\ \A n : n # req[r].realm => Installing(n) = {}
         /\ ViewOf(req[r].realm) = req[r].got
<1>1. \A q \in Req : req[q].pc = "install" => q = r
  BY DEF TypeOK
<1>2. Installing(req[r].realm) = {r} /\ \A n : n # req[r].realm => Installing(n) = {}
  BY <1>1 DEF Installing
<1>3. (CHOOSE q \in Installing(req[r].realm) : TRUE) = r
  BY <1>2
<1> QED BY <1>2, <1>3 DEF ViewOf

\* What a step leaves alone.
LEMMA SameViews ==
  ASSUME UNCHANGED cache, \A n : Installing(n) = {}, (\A n : Installing(n) = {})'
  PROVE  UNCHANGED <<ViewMap, Youngs>>
<1>1. \A n \in Realm : ViewOf(n)' = ViewOf(n)
  BY DEF ViewOf
<1>2. Youngs' = Youngs
  BY DEF Youngs
<1> QED BY <1>1, <1>2 DEF ViewMap

LEMMA TokenMoves ==
  ASSUME NEW r \in Req, \A q \in Req : q # r => req'[q] = req[q]
  PROVE  /\ TokenMap' = [TokenMap EXCEPT ![r] = TokenOf(req'[r])]
         /\ TokenOf(req'[r]) = TokenOf(req[r]) => TokenMap' = TokenMap
<1>1. \A q \in Req : TokenMap'[q] = IF q = r THEN TokenOf(req'[r]) ELSE TokenMap[q]
  BY DEF TokenMap
<1> QED BY <1>1 DEF TokenMap

LEMMA KnownSeen ==
  ASSUME TypeOK, NEW r \in Req, req[r].pc # "idle", \A n : Installing(n) = {}
  PROVE  /\ Views!Asks(r) /\ (Views!Knows(TokenMap[r]) <=> Known(req[r]))
         /\ TokenMap[r].realm = req[r].realm /\ TokenMap[r].iss = req[r].iss
         /\ TokenMap[r].realm \in Youngs <=> ~Due(req[r].realm)
<1>1. /\ req[r].realm \in Realm /\ req[r].iss \in Realm /\ req[r].kid \in Kid
  BY Busy
<1>2. TokenMap[r] = [realm |-> req[r].realm, iss |-> req[r].iss, kid |-> req[r].kid]
  BY DEF TokenMap, TokenOf
<1>3. cache[req[r].realm] \in JwkSet \cup {NULL}
  BY <1>1 DEF TypeOK
<1>4. cache[req[r].realm] # NULL => cache[req[r].realm].keys # NULL
  BY <1>3, NoSetAssumption DEF JwkSet
<1>5. ViewMap[req[r].realm] =
        IF cache[req[r].realm] # NULL THEN cache[req[r].realm].keys ELSE NULL
  BY <1>1 DEF ViewMap, ViewOf
<1>6. Views!Asks(r)
  BY <1>1, <1>2 DEF Views!Asks, Views!Token
<1>7. Views!Knows(TokenMap[r]) <=> Known(req[r])
  BY <1>2, <1>4, <1>5 DEF Views!Knows, Known
<1>8. TokenMap[r].realm \in Youngs <=> ~Due(req[r].realm)
  BY <1>1, <1>2, <1>3, NoSetAssumption DEF Youngs, Due, JwkSet
<1> QED BY <1>2, <1>6, <1>7, <1>8

\* A verdict without an installation is one step of the view.
LEMMA VerdictSimulated ==
  ASSUME TypeOK, NEW r \in Req, req[r].pc # "idle", \A n : Installing(n) = {},
         NEW v \in Verdict, Return(r, v), UNCHANGED <<published, ViewMap, Youngs>>,
         v = IF Known(req[r]) THEN Verified(req[r]) ELSE "refused"
  PROVE  Simulated
<1>1. TokenMap' = [TokenMap EXCEPT ![r] = Views!Said(v)]
  BY Returned, TokenMoves DEF Views!Said
<1>2. Views!Becomes(r, Views!Said(v))
  BY <1>1 DEF Views!Becomes
<1>3. /\ Views!Asks(r) /\ (Views!Knows(TokenMap[r]) <=> Known(req[r]))
      /\ TokenMap[r].realm = req[r].realm /\ TokenMap[r].iss = req[r].iss
  BY KnownSeen
<1>4. CASE Known(req[r]) /\ req[r].iss = req[r].realm
  BY <1>2, <1>3, <1>4 DEF Verified, Views!Accept, Views!Next, Simulated
<1>5. CASE Known(req[r]) /\ req[r].iss # req[r].realm
  BY <1>2, <1>3, <1>5 DEF Verified, Views!RefuseForeign, Views!Next, Simulated
<1>6. CASE ~Known(req[r])
  BY <1>2, <1>3, <1>6 DEF Views!RefuseUnknown, Views!GiveUp, Views!Next, Simulated
<1> QED BY <1>4, <1>5, <1>6

\* A step of a request that is invisible to the view.
LEMMA Invisible ==
  ASSUME NEW r \in Req, \A q \in Req : q # r => req'[q] = req[q],
         TokenOf(req'[r]) = TokenOf(req[r]), UNCHANGED <<published, ViewMap, Youngs>>
  PROVE  Simulated
  BY TokenMoves DEF Simulated, Views!vars
-----------------------------------------------------------------------------
(***************************************************************************)
(* Every step preserves the invariant and is simulated.                    *)
(***************************************************************************)
LEMMA TypeKept ==
  ASSUME TypeOK, NEW r \in Req, req' \in [Req -> ReqState],
         \A q \in Req : q # r => req'[q] = req[q],
         UNCHANGED published, cache' \in [Realm -> JwkSet \cup {NULL}],
         lock \in {NULL, r}, lock' \in {NULL, r},
         lock' = r <=> req'[r].pc \in {"fetch", "install"}
  PROVE  TypeOK'
<1>1. \A q \in Req : q # r => lock # q /\ lock' # q
  BY NullAssumption
<1> QED BY <1>1, NullAssumption DEF TypeOK

LEMMA AuthenticateStep ==
  ASSUME IInv, NEW r \in Req, NEW n \in Realm, NEW iss \in Realm, NEW k \in Kid,
         Authenticate(r, n, iss, k)
  PROVE  IInv' /\ Simulated
<1> DEFINE c == [pc |-> "lookup", realm |-> n, iss |-> iss, kid |-> k]
<1>1. /\ req[r].pc = "idle" /\ req' = [req EXCEPT ![r] = c]
      /\ UNCHANGED <<published, cache, lock>> /\ req \in [Req -> ReqState]
  BY DEF Authenticate, IInv, TypeOK
<1>2. c \in ReqState /\ c.pc = "lookup"
      /\ TokenOf(c) = [realm |-> n, iss |-> iss, kid |-> k]
  BY DEF ReqState, BusyReq, TokenOf
<1> HIDE DEF c
<1>3. /\ req' \in [Req -> ReqState] /\ \A q \in Req : q # r => req'[q] = req[q]
      /\ req'[r] = c
  BY <1>1, <1>2
<1>4. TypeOK'
  BY <1>1, <1>2, <1>3 DEF IInv, TypeOK
<1>5. StillDue'
  BY <1>1, <1>2, <1>3 DEF IInv, StillDue, Due, Known
<1>6. \A n1 : Installing(n1)' = Installing(n1)
  BY <1>1, <1>2, <1>3 DEF Installing
<1>7. UNCHANGED <<ViewMap, Youngs>>
  <2>1. \A m \in Realm : ViewOf(m)' = ViewOf(m)
    <3> TAKE m \in Realm
    <3>1. CASE Installing(m) = {}
      BY <1>1, <1>6, <3>1 DEF ViewOf
    <3>2. CASE Installing(m) # {}
      <4> DEFINE q == CHOOSE q \in Installing(m) : TRUE
      <4>1. q \in Req /\ req[q].pc = "install"
        BY <3>2 DEF Installing
      <4>2. req'[q] = req[q]
        BY <1>1, <1>3, <4>1
      <4>3. ViewOf(m) = req[q].got
        BY <3>2 DEF ViewOf
      <4>4. ViewOf(m)' = req'[CHOOSE p \in Installing(m)' : TRUE].got
        BY <1>6, <3>2 DEF ViewOf
      <4> QED BY <1>6, <4>2, <4>3, <4>4
    <3> QED BY <3>1, <3>2
  <2>2. Youngs' = Youngs
    BY <1>1, <1>6 DEF Youngs
  <2> QED BY <2>1, <2>2 DEF ViewMap
<1>8. TokenMap' = [TokenMap EXCEPT ![r] = TokenOf(c)]
  BY <1>3, TokenMoves
<1>9. TokenMap[r] \in Views!Verdicts /\ TokenOf(c) \in Views!Token
  <2>1. req[r] \in IdleReq
    BY <1>1 DEF IInv, TypeOK, ReqState, BusyReq, InstallReq
  <2>2. TokenMap[r] = [verdict |-> req[r].verdict] /\ req[r].verdict \in Verdict
    BY <1>1, <2>1 DEF TokenMap, TokenOf, IdleReq
  <2> QED BY <1>2, <2>2 DEF Views!Verdicts, Views!Said, Views!Token, Verdict
<1>10. Simulated
  BY <1>1, <1>7, <1>8, <1>9 DEF Simulated, Views!Next, Views!Ask, Views!Becomes
<1> QED BY <1>4, <1>5, <1>10 DEF IInv

LEMMA LookupStep == ASSUME IInv, NEW r \in Req, Lookup(r) PROVE IInv' /\ Simulated
<1>1. /\ TypeOK /\ req[r].pc = "lookup" /\ lock = NULL
      /\ UNCHANGED <<published, cache, lock>>
      /\ \A q \in Req : req[q].pc \notin {"fetch", "install"}
  BY NullAssumption DEF Lookup, IInv, TypeOK
<1>2. \A n : Installing(n) = {}
  BY <1>1, NoneInstalls, NullAssumption
<1>3. CASE Known(req[r])
  <2>1. Return(r, Verified(req[r])) /\ Verified(req[r]) \in Verdict
    BY <1>3 DEF Lookup, Verified, Verdict
  <2>2. /\ req' \in [Req -> ReqState] /\ \A q \in Req : q # r => req'[q] = req[q]
        /\ req'[r].pc = "idle"
    BY <1>1, <2>1, Returned
  <2>3. TypeOK' /\ StillDue'
    BY <1>1, <2>2, TypeKept, NullAssumption DEF TypeOK, StillDue
  <2>4. (\A n : Installing(n) = {})'
    BY <1>1, <2>2 DEF Installing
  <2>5. UNCHANGED <<ViewMap, Youngs>>
    BY <1>1, <1>2, <2>4, SameViews
  <2> QED BY <1>1, <1>2, <1>3, <2>1, <2>3, <2>5, VerdictSimulated DEF IInv
<1>4. CASE ~Known(req[r])
  <2>1. Goto(r, "lock")
    BY <1>4 DEF Lookup
  <2>2. /\ req' \in [Req -> ReqState] /\ \A q \in Req : q # r => req'[q] = req[q]
        /\ req'[r].pc = "lock" /\ TokenOf(req'[r]) = TokenOf(req[r])
    BY <1>1, <2>1, GoneTo
  <2>3. TypeOK' /\ StillDue'
    BY <1>1, <2>2, TypeKept, NullAssumption DEF TypeOK, StillDue
  <2>4. (\A n : Installing(n) = {})'
    BY <1>1, <2>2 DEF Installing
  <2>5. UNCHANGED <<ViewMap, Youngs>>
    BY <1>1, <1>2, <2>4, SameViews
  <2> QED BY <1>1, <2>2, <2>3, <2>5, Invisible DEF IInv
<1> QED BY <1>3, <1>4

LEMMA RecheckStep == ASSUME IInv, NEW r \in Req, Recheck(r) PROVE IInv' /\ Simulated
<1>1. /\ TypeOK /\ req[r].pc = "lock" /\ lock = NULL
      /\ UNCHANGED <<published, cache>>
      /\ \A q \in Req : req[q].pc \notin {"fetch", "install"}
  BY NullAssumption DEF Recheck, IInv, TypeOK
<1>2. \A n : Installing(n) = {}
  BY <1>1, NoneInstalls, NullAssumption
<1> DEFINE v == IF Known(req[r]) THEN Verified(req[r]) ELSE "refused"
<1>3. CASE Return(r, v) /\ UNCHANGED lock
  <2>1. v \in Verdict
    BY DEF Verified, Verdict
  <2> HIDE DEF v
  <2>2. /\ req' \in [Req -> ReqState] /\ \A q \in Req : q # r => req'[q] = req[q]
        /\ req'[r].pc = "idle"
    BY <1>1, <1>3, <2>1, Returned
  <2>3. TypeOK' /\ StillDue'
    BY <1>1, <1>3, <2>2, TypeKept, NullAssumption DEF TypeOK, StillDue
  <2>4. (\A n : Installing(n) = {})'
    BY <1>1, <2>2 DEF Installing
  <2>5. UNCHANGED <<ViewMap, Youngs>>
    BY <1>1, <1>2, <2>4, SameViews
  <2> QED BY <1>1, <1>2, <1>3, <2>1, <2>3, <2>5, VerdictSimulated DEF IInv, v
<1>4. CASE ~Known(req[r]) /\ Due(req[r].realm) /\ Goto(r, "fetch") /\ lock' = r
  <2>1. /\ req' \in [Req -> ReqState] /\ \A q \in Req : q # r => req'[q] = req[q]
        /\ req'[r].pc = "fetch" /\ req'[r].realm = req[r].realm
        /\ req'[r].kid = req[r].kid /\ TokenOf(req'[r]) = TokenOf(req[r])
    BY <1>1, <1>4, GoneTo
  <2>2. TypeOK'
    BY <1>1, <1>4, <2>1, TypeKept DEF TypeOK
  <2>3. StillDue'
    BY <1>1, <1>4, <2>1 DEF StillDue, Due, Known
  <2>4. (\A n : Installing(n) = {})'
    BY <1>1, <2>1 DEF Installing
  <2>5. UNCHANGED <<ViewMap, Youngs>>
    BY <1>1, <1>2, <2>4, SameViews
  <2> QED BY <1>1, <2>1, <2>2, <2>3, <2>5, Invisible DEF IInv
<1> QED BY <1>3, <1>4 DEF Recheck

LEMMA FetchFailsStep == ASSUME IInv, NEW r \in Req, FetchFails(r) PROVE IInv' /\ Simulated
<1>1. /\ TypeOK /\ req[r].pc = "fetch" /\ lock = r /\ lock' = NULL
      /\ UNCHANGED <<published, cache>> /\ ~Known(req[r]) /\ Return(r, "refused")
      /\ \A q \in Req : q # r => req[q].pc \notin {"fetch", "install"}
  BY DEF FetchFails, IInv, TypeOK, StillDue
<1>2. \A n : Installing(n) = {}
  BY <1>1, NoneInstalls
<1>3. /\ req' \in [Req -> ReqState] /\ \A q \in Req : q # r => req'[q] = req[q]
      /\ req'[r].pc = "idle"
  BY <1>1, Returned DEF Verdict
<1>4. TypeOK' /\ StillDue'
  BY <1>1, <1>3, TypeKept, NullAssumption DEF TypeOK, StillDue
<1>5. (\A n : Installing(n) = {})'
  BY <1>1, <1>3 DEF Installing
<1>6. UNCHANGED <<ViewMap, Youngs>>
  BY <1>1, <1>2, <1>5, SameViews
<1> QED BY <1>1, <1>2, <1>4, <1>6, VerdictSimulated DEF IInv, Verdict
\* Keycloak's answer is the moment the view is refreshed.
LEMMA KcCertsStep == ASSUME IInv, NEW r \in Req, KcCerts(r) PROVE IInv' /\ Simulated
<1>a. PICK n \in Realm : n = req[r].realm
  BY Busy DEF KcCerts, IInv
<1> DEFINE c == [pc |-> "install", realm |-> req[r].realm, iss |-> req[r].iss,
                 kid |-> req[r].kid, got |-> published[req[r].realm]]
<1>1. /\ TypeOK /\ req[r].pc = "fetch" /\ lock = r
      /\ UNCHANGED <<published, cache, lock>> /\ Due(n) /\ ~Known(req[r])
      /\ published[n] # {} /\ req' = [req EXCEPT ![r] = c]
      /\ \A q \in Req : q # r => req[q].pc \notin {"fetch", "install"}
  BY <1>a DEF KcCerts, IInv, TypeOK, StillDue
<1>2. n \in Realm /\ published[n] \in SUBSET Kid
  BY <1>1, Busy DEF TypeOK
<1>3. /\ c \in ReqState /\ c.pc = "install" /\ c.realm = n /\ c.got = published[n]
      /\ TokenOf(c) = TokenOf(req[r])
  BY <1>a, <1>1, <1>2, Busy DEF ReqState, InstallReq, TokenOf
<1>4. \A m : Installing(m) = {}
  BY <1>1, NoneInstalls
<1> HIDE DEF c
<1>5. /\ req' \in [Req -> ReqState] /\ req'[r] = c
      /\ \A q \in Req : q # r => req'[q] = req[q]
  BY <1>1, <1>3 DEF TypeOK
<1>6. TypeOK'
  BY <1>1, <1>3, <1>5, TypeKept DEF TypeOK
<1>7. StillDue'
  BY <1>1, <1>3, <1>5 DEF StillDue
<1>8. Installing(n)' = {r} /\ \A m : m # n => Installing(m)' = {}
  BY <1>1, <1>3, <1>5 DEF Installing
<1>9. ViewOf(n)' = published[n] /\ \A m \in Realm : m # n => ViewOf(m)' = ViewOf(m)
  <2>1. (CHOOSE q \in Installing(n)' : TRUE) = r
    BY <1>8
  <2>2. ViewOf(n)' = req'[CHOOSE q \in Installing(n)' : TRUE].got
    BY <1>8 DEF ViewOf
  <2>3. \A m \in Realm : m # n => ViewOf(m)' = ViewOf(m)
    BY <1>1, <1>4, <1>8 DEF ViewOf
  <2> QED BY <1>3, <1>5, <2>1, <2>2, <2>3
<1>10. ViewMap' = [ViewMap EXCEPT ![n] = published[n]]
  <2>1. ViewMap = [m \in Realm |-> ViewOf(m)] /\ ViewMap' = [m \in Realm |-> ViewOf(m)']
    BY DEF ViewMap
  <2>2. ASSUME NEW m \in Realm
        PROVE  ViewMap'[m] = IF m = n THEN published[n] ELSE ViewMap[m]
    <3>1. ViewMap'[m] = ViewOf(m)' /\ ViewMap[m] = ViewOf(m)
      BY <2>1
    <3> QED BY <1>9, <3>1
  <2> QED BY <1>2, <2>1, <2>2
<1>11. n \notin Youngs /\ Youngs' = Youngs \cup {n}
  <2>1. n \notin Youngs
    BY <1>1, <1>4 DEF Youngs, Due
  <2>2. Youngs' = Youngs \cup {n}
    BY <1>1, <1>2, <1>4, <1>8 DEF Youngs
  <2> QED BY <2>1, <2>2
<1>12. UNCHANGED <<published, TokenMap>>
  BY <1>1, <1>3, <1>5, TokenMoves
<1>13. Views!Refresh(n)
  BY <1>1, <1>10, <1>11, <1>12 DEF Views!Refresh
<1> QED BY <1>2, <1>6, <1>7, <1>13 DEF IInv, Simulated, Views!Next

\* The installation changes where the view is kept, not what it is.
LEMMA InstallStep == ASSUME IInv, NEW r \in Req, Install(r) PROVE IInv' /\ Simulated
<1> DEFINE n == req[r].realm
           got == req[r].got
           v == IF req[r].kid \in got THEN Verified(req[r]) ELSE "refused"
           s == [keys |-> got, young |-> TRUE]
<1>1. /\ TypeOK /\ req[r].pc = "install" /\ lock = r /\ lock' = NULL
      /\ UNCHANGED published /\ cache' = [cache EXCEPT ![n] = s] /\ Return(r, v)
      /\ \A q \in Req : q # r => req[q].pc \notin {"fetch", "install"}
  BY DEF Install, IInv, TypeOK
<1>2. /\ n \in Realm /\ req[r].iss \in Realm /\ req[r].kid \in Kid
      /\ got \in (SUBSET Kid) \ {{}} /\ got # NULL
  BY <1>1, Busy, NoSetAssumption
<1>3. v \in Verdict
  BY DEF Verified, Verdict
<1>4. s \in JwkSet /\ s # NULL /\ s.keys = got /\ s.young
  <2> HIDE DEF got
  <2>1. s \in JwkSet
    BY <1>2 DEF JwkSet
  <2> QED BY <2>1, NoSetAssumption
<1> HIDE DEF s, v
<1>5. /\ req' \in [Req -> ReqState] /\ \A q \in Req : q # r => req'[q] = req[q]
      /\ req'[r].pc = "idle" /\ TokenOf(req'[r]) = [verdict |-> v]
  BY <1>1, <1>3, Returned
<1>6. /\ cache' \in [Realm -> JwkSet \cup {NULL}] /\ cache'[n] = s
      /\ \A m \in Realm : m # n => cache'[m] = cache[m]
  BY <1>1, <1>2, <1>4 DEF TypeOK
<1>7. TypeOK'
  BY <1>1, <1>5, <1>6, TypeKept, NullAssumption DEF TypeOK
<1>8. StillDue'
  BY <1>1, <1>5 DEF StillDue
<1>9. /\ Installing(n) = {r} /\ (\A m : m # n => Installing(m) = {}) /\ ViewOf(n) = got
  BY <1>1, OneInstalls
<1>10. \A m : Installing(m)' = {}
  BY <1>1, <1>5 DEF Installing
<1>11. \A m \in Realm : ViewOf(m)' = ViewOf(m)
  BY <1>4, <1>6, <1>9, <1>10 DEF ViewOf
<1>12. Youngs' = Youngs
  BY <1>2, <1>4, <1>6, <1>9, <1>10 DEF Youngs
<1>13. TokenMap' = [TokenMap EXCEPT ![r] = Views!Said(v)]
  BY <1>5, TokenMoves DEF Views!Said
<1>14. Views!Becomes(r, Views!Said(v))
  BY <1>1, <1>11, <1>12, <1>13 DEF Views!Becomes, ViewMap
<1>15. TokenMap[r] = [realm |-> n, iss |-> req[r].iss, kid |-> req[r].kid]
  BY <1>1 DEF TokenMap, TokenOf
<1>16. /\ Views!Asks(r) /\ TokenMap[r].realm = n /\ TokenMap[r].iss = req[r].iss
       /\ (Views!Knows(TokenMap[r]) <=> req[r].kid \in got) /\ n \in Youngs
  BY <1>2, <1>9, <1>15 DEF Views!Asks, Views!Token, Views!Knows, ViewMap, Youngs
<1>17. CASE req[r].kid \in got /\ req[r].iss = n
  <2>1. v = "accepted"
    BY <1>17 DEF v, Verified
  <2>2. Views!Accept(r)
    BY <1>14, <1>16, <1>17, <2>1 DEF Views!Accept
  <2> QED BY <1>7, <1>8, <2>2 DEF IInv, Views!Next, Simulated
<1>18. CASE req[r].kid \in got /\ req[r].iss # n
  <2>1. v = "refused"
    BY <1>18 DEF v, Verified
  <2>2. Views!RefuseForeign(r)
    BY <1>14, <1>16, <1>18, <2>1 DEF Views!RefuseForeign
  <2> QED BY <1>7, <1>8, <2>2 DEF IInv, Views!Next, Simulated
<1>19. CASE req[r].kid \notin got
  <2>1. v = "refused"
    BY <1>19 DEF v
  <2>2. Views!RefuseUnknown(r)
    BY <1>14, <1>16, <1>19, <2>1 DEF Views!RefuseUnknown
  <2> QED BY <1>7, <1>8, <2>2 DEF IInv, Views!Next, Simulated
<1> QED BY <1>17, <1>18, <1>19

LEMMA RotateStep == ASSUME IInv, NEW n \in Realm, KcRotate(n) PROVE IInv' /\ Simulated
<1>1. PICK keys \in SUBSET KidsOf[n] : published' = [published EXCEPT ![n] = keys]
  BY DEF KcRotate
<1>2. keys \in SUBSET Kid /\ UNCHANGED <<cache, lock, req>>
  BY KidsAssumption DEF KcRotate
<1>3. IInv'
  BY <1>1, <1>2 DEF IInv, TypeOK, StillDue, Due, Known
<1>4. UNCHANGED <<ViewMap, Youngs, TokenMap>>
  BY <1>2 DEF ViewMap, ViewOf, Youngs, TokenMap, Installing
<1>5. Views!Rotate(n)
  BY <1>1, <1>2, <1>4 DEF Views!Rotate
<1> QED BY <1>3, <1>5 DEF Simulated, Views!Next

LEMMA AgeStep == ASSUME IInv, NEW n \in Realm, Age(n) PROVE IInv' /\ Simulated
<1> DEFINE old == cache[n]
           s == [old EXCEPT !.young = FALSE]
<1>1. /\ old # NULL /\ old.young /\ cache' = [cache EXCEPT ![n] = s]
      /\ UNCHANGED <<published, lock, req>> /\ TypeOK
  BY DEF Age, IInv
<1>2. old \in JwkSet
  BY <1>1 DEF TypeOK
<1>3. s \in JwkSet /\ s # NULL /\ s.keys = old.keys /\ ~s.young
  BY <1>2, NoSetAssumption DEF JwkSet
<1> HIDE DEF s
<1>4. /\ cache' \in [Realm -> JwkSet \cup {NULL}] /\ cache'[n] = s
      /\ \A m \in Realm : m # n => cache'[m] = cache[m]
  BY <1>1, <1>3 DEF TypeOK
<1>5. TypeOK'
  BY <1>1, <1>4 DEF TypeOK
<1>6. StillDue'
  BY <1>1, <1>3, <1>4, Busy DEF IInv, StillDue, Due, Known
<1>7. UNCHANGED TokenMap /\ \A m : Installing(m)' = Installing(m)
  BY <1>1 DEF TokenMap, Installing
<1>8. \A m \in Realm : ViewOf(m)' = ViewOf(m)
  <2> TAKE m \in Realm
  <2>1. CASE Installing(m) # {}
    <3>1. ViewOf(m) = req[CHOOSE q \in Installing(m) : TRUE].got
      BY <2>1 DEF ViewOf
    <3>2. ViewOf(m)' = req'[CHOOSE q \in Installing(m)' : TRUE].got
      BY <1>7, <2>1 DEF ViewOf
    <3> QED BY <1>1, <1>7, <3>1, <3>2
  <2>2. CASE Installing(m) = {} /\ m = n
    BY <1>1, <1>3, <1>4, <1>7, <2>2 DEF ViewOf
  <2>3. CASE Installing(m) = {} /\ m # n
    BY <1>4, <1>7, <2>3 DEF ViewOf
  <2> QED BY <2>1, <2>2, <2>3
<1>9. CASE Installing(n) # {}
  <2>1. Youngs' = Youngs
    BY <1>3, <1>4, <1>7, <1>9 DEF Youngs
  <2> QED BY <1>1, <1>5, <1>6, <1>7, <1>8, <2>1 DEF IInv, Simulated, Views!vars, ViewMap
<1>10. CASE Installing(n) = {}
  <2>1. n \in Youngs /\ Youngs' = Youngs \ {n}
    BY <1>1, <1>3, <1>4, <1>7, <1>10 DEF Youngs
  <2>2. Views!Age(n)
    BY <1>1, <1>7, <1>8, <2>1 DEF Views!Age, ViewMap
  <2> QED BY <1>5, <1>6, <2>2 DEF IInv, Simulated, Views!Next
<1> QED BY <1>9, <1>10

LEMMA NextStep == ASSUME IInv, [Next]_vars PROVE IInv' /\ Simulated
<1>1. ASSUME NEW r \in Req, NEW n \in Resolvable, NEW iss \in Realm, NEW k \in Kid,
             Authenticate(r, n, iss, k)
      PROVE  IInv' /\ Simulated
  BY <1>1, ResolvesToRealm, AuthenticateStep
<1>2. ASSUME NEW r \in Req, Advance(r) PROVE IInv' /\ Simulated
  BY <1>2, LookupStep, RecheckStep, KcCertsStep, InstallStep, FetchFailsStep DEF Advance
<1>3. ASSUME NEW n \in Realm, KcRotate(n) \/ Age(n) PROVE IInv' /\ Simulated
  BY <1>3, RotateStep, AgeStep
<1>4. CASE UNCHANGED vars
  <2>1. UNCHANGED <<published, cache, lock, req>>
    BY <1>4 DEF vars
  <2>2. IInv'
    BY <2>1 DEF IInv, TypeOK, StillDue, Due, Known
  <2>3. UNCHANGED <<published, ViewMap, Youngs, TokenMap>>
    BY <2>1 DEF ViewMap, ViewOf, Youngs, TokenMap, Installing
  <2> QED BY <2>2, <2>3 DEF Simulated, Views!vars
<1> QED BY <1>1, <1>2, <1>3, <1>4 DEF Next

THEOREM Invariant == Spec => []IInv
<1>1. Init => IInv
  BY InitIInv
<1>2. IInv /\ [Next]_vars => IInv'
  BY NextStep
<1> QED BY <1>1, <1>2, PTL DEF Spec
-----------------------------------------------------------------------------
(***************************************************************************)
(* Theorems                                                                *)
(***************************************************************************)

\* Every variable keeps its type, and the lock is held exactly while its
\* holder waits for keys or installs them.
THEOREM TypeCorrect == Spec => []TypeOK
<1>1. IInv => TypeOK
  BY DEF IInv
<1> QED BY <1>1, Invariant, PTL

\* Looking, locking, asking and storing are four steps with other requests
\* and other servers between them, yet the verifier behaves like KeyView.
THEOREM KeyViewRefinement == Spec => KeyViewImplemented
<1>1. Init => Views!Init
  <2> SUFFICES ASSUME Init PROVE Views!Init
    OBVIOUS
  <2>1. /\ published \in [Realm -> SUBSET Kid] /\ cache = [n \in Realm |-> NULL]
        /\ req = [r \in Req |-> Idle("none")]
    BY DEF Init
  <2>2. \A r \in Req : req[r].pc = "idle" /\ req[r].verdict = "none"
    BY <2>1 DEF Idle
  <2>3. \A n : Installing(n) = {}
    BY <2>2 DEF Installing
  <2>4. ViewMap = [n \in Realm |-> NULL] /\ Youngs = {}
    BY <2>1, <2>3 DEF ViewMap, ViewOf, Youngs
  <2>5. TokenMap = [r \in Req |-> Views!Said("none")]
    BY <2>2 DEF TokenMap, TokenOf, Views!Said
  <2> QED BY <2>1, <2>4, <2>5 DEF Views!Init
<1>2. IInv /\ [Next]_vars => [Views!Next]_(Views!vars)
  BY NextStep DEF Simulated
<1> QED BY <1>1, <1>2, Invariant, PTL DEF Spec, KeyViewImplemented, Views!Spec
=============================================================================

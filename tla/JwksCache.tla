------------------------------ MODULE JwksCache ------------------------------
(***************************************************************************)
(* The JWT verifier: a cache of signing keys per realm, under one          *)
(* read-write lock that is held while Keycloak is asked for keys.          *)
(*                                                                         *)
(* A request is a slot of req. Its pc names what it waits for next: the    *)
(* read side of the lock ("lookup"), the write side ("lock"), Keycloak's   *)
(* answer ("fetch"), or nothing any more ("install": the answer is here).  *)
(* What a holder of the lock does without waiting is one step, so the read *)
(* side is never seen held.                                                *)
(*                                                                         *)
(* A key is named by its realm and its id, a token by the realm that       *)
(* issued it and the id in its header; two realms may use the same id.     *)
(***************************************************************************)
CONSTANTS
  Req,          \* slots: at most this many requests at a time
  Realm,        \* realm names a request can resolve to, existing or not
  Kid,          \* key ids
  KidsOf,       \* the ids each realm ever gives to a key
  MasterRealm,  \* the realm of requests that name none
  NULL          \* no set in the cache, no lock holder, no hint

ASSUME MasterAssumption == MasterRealm \in Realm
ASSUME KidsAssumption == KidsOf \in [Realm -> SUBSET Kid]
ASSUME NullAssumption == NULL \notin Realm \cup Req

VARIABLES
  published,  \* Keycloak: the signing keys each realm lists; none if no realm
  cache,      \* JWTVerifier.cache
  lock,       \* the holder of the write side of JWTVerifier.mu
  req         \* program counter and locals of each request

vars == <<published, cache, lock, req>>

\* jwkSet; young: fetched less than five minutes ago.
JwkSet == [keys : (SUBSET Kid) \ {{}}, young : BOOLEAN]

ASSUME NoSetAssumption == NULL \notin JwkSet /\ \A keys \in SUBSET Kid : NULL # keys

Verdict == {"none", "accepted", "refused"}
IdleReq == [pc : {"idle"}, verdict : Verdict]
BusyReq == [pc : {"lookup", "lock", "fetch"}, realm : Realm, iss : Realm, kid : Kid]
InstallReq == [pc : {"install"}, realm : Realm, iss : Realm, kid : Kid,
               got : (SUBSET Kid) \ {{}}]
ReqState == IdleReq \cup BusyReq \cup InstallReq

Idle(v) == [pc |-> "idle", verdict |-> v]
Goto(r, pc) == req' = [req EXCEPT ![r] =
  [pc |-> pc, realm |-> req[r].realm, iss |-> req[r].iss, kid |-> req[r].kid]]
Return(r, v) == req' = [req EXCEPT ![r] = Idle(v)]

Init ==
  /\ published \in [Realm -> SUBSET Kid]
  /\ \A n \in Realm : published[n] \subseteq KidsOf[n]
  /\ cache = [n \in Realm |-> NULL]
  /\ lock = NULL
  /\ req = [r \in Req |-> Idle("none")]
-----------------------------------------------------------------------------
(***************************************************************************)
(* Authenticate and Verify.                                                *)
(***************************************************************************)

\* The first strategy that names a realm wins: the subdomain, the header,
\* the query parameter; without any, the master realm.
Resolve(h) ==
  CASE h.subdomain # NULL -> h.subdomain
    [] h.subdomain = NULL /\ h.header # NULL -> h.header
    [] h.subdomain = NULL /\ h.header = NULL /\ h.query # NULL -> h.query
    [] OTHER -> MasterRealm

Hint == Realm \cup {NULL}
Hints == [subdomain : Hint, header : Hint, query : Hint]
Resolvable == {Resolve(h) : h \in Hints}

\* A request without a token is answered before the verifier is asked.
Authenticate(r, n, iss, k) ==
  /\ req[r].pc = "idle"
  /\ req' = [req EXCEPT ![r] =
       [pc |-> "lookup", realm |-> n, iss |-> iss, kid |-> k]]
  /\ UNCHANGED <<published, cache, lock>>

\* With the key of that realm and id in hand: the signature and the issuer
\* are right for the tokens this realm issued.
Verified(c) == IF c.iss = c.realm THEN "accepted" ELSE "refused"

Known(c) == cache[c.realm] # NULL /\ c.kid \in cache[c.realm].keys

\* Keycloak may be asked: there is no set, or one of five minutes and more.
Due(n) == IF cache[n] = NULL THEN TRUE ELSE ~cache[n].young

\* getPublicKey: a hit under the read lock, or on to the write lock.
Lookup(r) ==
  /\ req[r].pc = "lookup"
  /\ lock = NULL
  /\ IF Known(req[r]) THEN Return(r, Verified(req[r])) ELSE Goto(r, "lock")
  /\ UNCHANGED <<published, cache, lock>>

\* Mutants: the age of the set is not asked; the set is not looked at again.
RecheckAgeless(r) ==
  /\ req[r].pc = "lock"
  /\ lock = NULL
  /\ LET c == req[r]
     IN  \/ Known(c) /\ Return(r, Verified(c)) /\ UNCHANGED lock
         \/ ~Known(c) /\ cache[c.realm] # NULL /\ Return(r, "refused") /\ UNCHANGED lock
         \/ cache[c.realm] = NULL /\ Goto(r, "fetch") /\ lock' = r
  /\ UNCHANGED <<published, cache>>
FetchUnchecked(r) ==
  /\ req[r].pc = "lock"
  /\ lock = NULL
  /\ Goto(r, "fetch") /\ lock' = r
  /\ UNCHANGED <<published, cache>>

\* Under the write lock: look again, refuse if the set is young, else keep
\* the lock and ask Keycloak.
Recheck(r) ==
  /\ req[r].pc = "lock"
  /\ lock = NULL
  /\ LET c == req[r]
     IN  \/ Known(c) /\ Return(r, Verified(c)) /\ UNCHANGED lock
         \/ ~Known(c) /\ ~Due(c.realm) /\ Return(r, "refused") /\ UNCHANGED lock
         \/ ~Known(c) /\ Due(c.realm) /\ Goto(r, "fetch") /\ lock' = r
  /\ UNCHANGED <<published, cache>>
-----------------------------------------------------------------------------
(***************************************************************************)
(* fetchJWKS, while the request holds the lock.                            *)
(***************************************************************************)

\* Keycloak draws up an answer that will arrive; it takes at least one
\* usable key for the answer to count.
KcCerts(r) ==
  /\ req[r].pc = "fetch"
  /\ published[req[r].realm] # {}
  /\ req' = [req EXCEPT ![r] =
       [pc |-> "install", realm |-> req[r].realm, iss |-> req[r].iss,
        kid |-> req[r].kid, got |-> published[req[r].realm]]]
  /\ UNCHANGED <<published, cache, lock>>

\* Mutant: the new keys are added to those the cache had.
InstallMerging(r) ==
  /\ req[r].pc = "install"
  /\ LET c == req[r]
         old == IF cache[c.realm] = NULL THEN {} ELSE cache[c.realm].keys
     IN  /\ cache' = [cache EXCEPT ![c.realm] = [keys |-> old \cup c.got, young |-> TRUE]]
         /\ Return(r, IF c.kid \in c.got THEN Verified(c) ELSE "refused")
  /\ lock' = NULL
  /\ UNCHANGED published

\* The answer replaces the realm's set and the lock is released.
Install(r) ==
  /\ req[r].pc = "install"
  /\ LET c == req[r]
     IN  /\ cache' = [cache EXCEPT ![c.realm] = [keys |-> c.got, young |-> TRUE]]
         /\ Return(r, IF c.kid \in c.got THEN Verified(c) ELSE "refused")
  /\ lock' = NULL
  /\ UNCHANGED published

\* Mutant: an early return without the deferred unlock.
FetchFailsLocked(r) ==
  /\ req[r].pc = "fetch"
  /\ Return(r, "refused")
  /\ UNCHANGED <<published, cache, lock>>

\* No answer within ten seconds, the client went away, no such realm, or no
\* usable key: the cache stays as it was.
FetchFails(r) ==
  /\ req[r].pc = "fetch"
  /\ Return(r, "refused")
  /\ lock' = NULL
  /\ UNCHANGED <<published, cache>>
-----------------------------------------------------------------------------
\* Keycloak adds and withdraws keys, creates and deletes realms.
KcRotate(n) ==
  /\ \E keys \in SUBSET KidsOf[n] : published' = [published EXCEPT ![n] = keys]
  /\ UNCHANGED <<cache, lock, req>>

\* Five minutes have passed since the set was fetched.
Age(n) ==
  /\ cache[n] # NULL /\ cache[n].young
  /\ cache' = [cache EXCEPT ![n].young = FALSE]
  /\ UNCHANGED <<published, lock, req>>

\* The next step of a verification in flight.
Advance(r) == Lookup(r) \/ Recheck(r) \/ KcCerts(r) \/ Install(r) \/ FetchFails(r)

Next ==
  \/ \E r \in Req, n \in Resolvable, iss \in Realm, k \in Kid : Authenticate(r, n, iss, k)
  \/ \E r \in Req : Advance(r)
  \/ \E n \in Realm : KcRotate(n) \/ Age(n)

Spec == Init /\ [][Next]_vars

\* A fetch ends within ten seconds; the lock is granted in turn (a Go mutex
\* hands itself to whoever has waited for a millisecond, and its readers go
\* before the next writer); time passes.
FairSpec ==
  /\ Spec
  /\ \A r \in Req : SF_vars(Advance(r))
  /\ \A n \in Realm : WF_vars(Age(n))
-----------------------------------------------------------------------------
(***************************************************************************)
(* Properties                                                              *)
(***************************************************************************)

\* Every variable keeps its type, and the lock is held exactly while its
\* holder waits for keys or installs them.
TypeOK ==
  /\ published \in [Realm -> SUBSET Kid]
  /\ cache \in [Realm -> JwkSet \cup {NULL}]
  /\ lock \in Req \cup {NULL}
  /\ req \in [Req -> ReqState]
  /\ \A r \in Req : (lock = r) <=> (req[r].pc \in {"fetch", "install"})

\* The moment a fetch becomes visible is that of Keycloak's answer: nobody
\* else looks at the cache until it is installed.
Installing(n) == {r \in Req : req[r].pc = "install" /\ req[r].realm = n}
ViewOf(n) ==
  IF Installing(n) # {} THEN req[CHOOSE r \in Installing(n) : TRUE].got
  ELSE IF cache[n] # NULL THEN cache[n].keys ELSE NULL
Youngs == {n \in Realm : Installing(n) # {} \/ (cache[n] # NULL /\ cache[n].young)}

ViewMap == [n \in Realm |-> ViewOf(n)]
TokenOf(c) == IF c.pc = "idle" THEN [verdict |-> c.verdict]
              ELSE [realm |-> c.realm, iss |-> c.iss, kid |-> c.kid]
TokenMap == [r \in Req |-> TokenOf(req[r])]

Views == INSTANCE KeyView WITH view <- ViewMap, young <- Youngs, token <- TokenMap

\* getPublicKey behaves like an atomic view: an entry of the cache is one
\* complete answer of its own realm's endpoint, so that a withdrawn key is
\* forgotten with the next fetch; a realm is asked again only after five
\* minutes, however many requests wait; an unknown key is refused only on a
\* young view; no token passes with another realm's key.
KeyViewImplemented == Views!Spec

\* One slow or failing realm delays the verifications of the others, but
\* every verification ends.
VerificationsEnd == \A r \in Req : req[r].pc # "idle" ~> req[r].pc = "idle"

\* A verification that refuses key k of realm n as unknown.
RefusesUnknown(r, n, k) ==
  /\ req[r].pc \in {"lock", "install"} /\ req[r].realm = n /\ req[r].kid = k
  /\ req'[r] = Idle("refused")
  /\ req[r].pc = "lock" => ~Known(req[r])
  /\ req[r].pc = "install" => k \notin req[r].got

\* Rotation heals: once a realm lists a key for good, the refusals of that
\* key as unknown come to an end, although unknown keys are refused for five
\* minutes without asking.
RotationHeals ==
  \A n \in Realm, k \in Kid :
    <>[](k \in published[n]) => <>[][\A r \in Req : ~RefusesUnknown(r, n, k)]_vars
=============================================================================

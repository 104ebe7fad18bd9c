----------------------------- MODULE AuthSession -----------------------------
(***************************************************************************)
(* The life of a login session: AuthService, its two Redis repositories    *)
(* and the Keycloak it talks to.                                           *)
(*                                                                         *)
(* An HTTP request is a process.  Each of its Redis or Keycloak calls is   *)
(* one action, so the steps of concurrent requests interleave between the  *)
(* calls, as they do between goroutines.  A call may fail before it took   *)
(* effect, or take effect and lose its reply; the process may crash.       *)
(*                                                                         *)
(* A login flow is named by its random PKCE state.  Keycloak is external:  *)
(* flow[st] is what it (and the browser) knows of the flow, whose phase is *)
(*   "free"    the state value has not been generated                      *)
(*   "lost"    generated, but the browser was never redirected             *)
(*   "url"     the browser holds the authorization URL                     *)
(*   "code"    the user has authenticated, an authorization code exists    *)
(*   "spent"   the code was used up by a presentation Keycloak refused     *)
(*   "active"  the code was redeemed, its refresh token is valid           *)
(*   "ended"   the grant was revoked, or ended by Keycloak                 *)
(* A code and a refresh token are named by the flow that led to them; a    *)
(* callback may carry the code of one flow and the state of another.       *)
(* Keycloak keeps a refresh token valid until the grant ends (rotation is  *)
(* off unless the realm asks for it, and DefaultRealmConfig does not).     *)
(*                                                                         *)
(* Time only matters through the Redis TTLs, held as ticks left, as Redis  *)
(* does: no routed operation reads SessionData.ExpiresAt.                  *)
(***************************************************************************)
EXTENDS Naturals, FiniteSets, AppRoles

CONSTANTS
  Req,          \* request slots: at most this many requests in flight
  State,        \* PKCE state values, each generated at most once
  SessionID,    \* uuids, each generated at most once
  User,         \* Keycloak users
  Realm,        \* Keycloak realms
  RoleSets,     \* the role sets a user may hold
  SessionTTL,   \* cfg.SessionTTL, in ticks
  PkceTTL,      \* pkceTTL, in ticks
  NULL          \* nil

ASSUME TTLAssumption == SessionTTL \in Nat \ {0} /\ PkceTTL \in Nat \ {0}

ASSUME RolesAssumption == RoleSets \subseteq SUBSET RoleName

VARIABLES
  pkce,       \* Redis pkce:<state>
  sessions,   \* Redis session:<id>
  req,        \* program counter and locals of each request
  flow,       \* Keycloak's and the browser's view of each login flow
  roles,      \* Keycloak: the realm roles each user holds now
  birth,      \* history: the identity each session id was created with
  given,      \* session ids some client was given
  revoked     \* history: session ids whose revocation Keycloak acknowledged

vars == <<pkce, sessions, req, flow, roles, birth, given, revoked>>

Portal == {"admin", "user"}
Client == {"saas-iam-admin", "saas-iam-user"}

\* The client each portal logs in with; redirect URI and portal follow from it.
ClientID(portal) == IF portal = "admin" THEN "saas-iam-admin" ELSE "saas-iam-user"

PKCEState == [realm : Realm, client : Client]

SessionData == [user : User, realm : Realm, client : Client, refresh : State,
                roles : RoleSets, appRole : AppRole]

\* What a session id stands for; the rest of SessionData may change.
Identity == [user : User, realm : Realm, client : Client, refresh : State]

Identify(d) == [user |-> d.user, realm |-> d.realm, client |-> d.client,
                refresh |-> d.refresh]

PkceEntry == [data : PKCEState, ttl : 1..PkceTTL]
SessionEntry == [data : SessionData, ttl : 1..SessionTTL]

Phase == {"free", "lost", "url", "code", "spent", "active", "ended"}
Flow == [phase : Phase, realm : Realm \cup {NULL}, client : Client \cup {NULL},
         user : User \cup {NULL}]

\* A request is idle, a callback before its exchange or its save, or a
\* refresh or logout that has loaded its session.  late is history: the
\* revocation had been acknowledged when the refresh loaded the session.
IdleReq == [pc : {"idle"}]
ExchangeReq == [pc : {"exchange"}, state : State, code : State, pk : PKCEState]
SaveReq == [pc : {"save"}, data : SessionData]
RefreshReq == [pc : {"refresh", "verify", "resave"},
               sid : SessionID, data : SessionData, late : BOOLEAN]
LogoutReq == [pc : {"revoke", "delete"}, sid : SessionID, data : SessionData]

ASSUME NullAssumption ==
  NULL \notin Identity /\ NULL \notin PkceEntry /\ NULL \notin SessionEntry
    /\ NULL \notin SessionID

ReqState == IdleReq \cup ExchangeReq \cup SaveReq \cup RefreshReq \cup LogoutReq

Idle == [pc |-> "idle"]
Refreshing(sid, d) ==
  [pc |-> "refresh", sid |-> sid, data |-> d, late |-> sid \in revoked]
LoggingOut(sid, d) == [pc |-> "revoke", sid |-> sid, data |-> d]
Goto(r, s) == req' = [req EXCEPT ![r] = s]

FlowOf(phase, realm, client, user) ==
  [phase |-> phase, realm |-> realm, client |-> client, user |-> user]

NoFlow == FlowOf("free", NULL, NULL, NULL)

\* flow st moves to a phase.
Enter(st, phase) == flow' = [flow EXCEPT ![st].phase = phase]

Init ==
  /\ pkce = [st \in State |-> NULL]
  /\ sessions = [sid \in SessionID |-> NULL]
  /\ req = [r \in Req |-> Idle]
  /\ flow = [st \in State |-> NoFlow]
  /\ roles \in [User -> RoleSets]
  /\ birth = [sid \in SessionID |-> NULL]
  /\ given = {}
  /\ revoked = {}
-----------------------------------------------------------------------------
(***************************************************************************)
(* Starting a login: GET /admin/login/authorize, GET /login/authorize.     *)
(***************************************************************************)

\* pkceRepo.Save: SETEX of the state generated for this flow.
SavePkce(st, pk) == pkce' = [pkce EXCEPT ![st] = [data |-> pk, ttl |-> PkceTTL]]

\* InitiatePKCE up to the redirect.  When the write fails, or takes effect
\* and loses its reply, the handler answers 500 and the state is never used.
InitiatePKCE(st, portal, realm) ==
  LET pk == [realm |-> realm, client |-> ClientID(portal)]
  IN  /\ flow[st].phase = "free"
      /\ \E written, replied \in BOOLEAN :
           /\ replied => written
           /\ IF written THEN SavePkce(st, pk) ELSE UNCHANGED pkce
           /\ flow' = [flow EXCEPT ![st] =
                FlowOf(IF replied THEN "url" ELSE "lost", realm, pk.client, NULL)]
      /\ UNCHANGED <<sessions, req, roles, birth, given, revoked>>

\* Keycloak: the user authenticates at the authorization URL and is sent
\* back with a code bound to the URL's realm, client and challenge.
KcAuthorize(st, u) ==
  /\ flow[st].phase = "url"
  /\ flow' = [flow EXCEPT ![st] = FlowOf("code", @.realm, @.client, u)]
  /\ UNCHANGED <<pkce, sessions, req, roles, birth, given, revoked>>
-----------------------------------------------------------------------------
(***************************************************************************)
(* The callback: consume the state, exchange the code, save the session.   *)
(* A browser may issue the callback of one flow several times; code and    *)
(* state are two parameters of its query.                                  *)
(***************************************************************************)

\* Mutant: a GET in place of the GETDEL.
TakeKeeps(st) == UNCHANGED pkce

\* GETDEL removes the entry it returns.
Take(st) == pkce' = [pkce EXCEPT ![st] = NULL]

\* pkceRepo.Consume: GETDEL.  An absent entry ends the request; so does an
\* error, whether or not the entry was removed.
Consume(r, st, cd) ==
  /\ req[r].pc = "idle"
  /\ flow[st].phase \notin {"free", "lost"}
  /\ flow[cd].phase \in {"code", "spent", "active", "ended"}
  /\ \/ /\ pkce[st] # NULL
        /\ Take(st)
        /\ \/ Goto(r, [pc |-> "exchange", state |-> st, code |-> cd, pk |-> pkce[st].data])
           \/ UNCHANGED req
     \/ UNCHANGED <<pkce, req>>
  /\ UNCHANGED <<sessions, flow, roles, birth, given, revoked>>

\* Keycloak redeems a code once, for the realm and client it was issued to
\* and for the verifier that meets the challenge of its own flow.
Redeems(st, cd, pk) ==
  /\ flow[cd].phase = "code"
  /\ st = cd
  /\ flow[cd].realm = pk.realm /\ flow[cd].client = pk.client

\* A presentation Keycloak refuses may use the code up, and when the code was
\* redeemed before, end the grant it produced.
KcRefuse(cd) ==
  \/ flow[cd].phase = "code" /\ Enter(cd, "spent")
  \/ flow[cd].phase = "active" /\ Enter(cd, "ended")

\* Mutant: every session is stored as one of the user portal's client.
NewSessionOneClient(cd, pk) ==
  LET u == flow[cd].user
  IN  [user |-> u, realm |-> pk.realm, client |-> ClientID("user"), refresh |-> cd,
       roles |-> roles[u], appRole |-> ResolveAppRole(roles[u])]

\* The session HandlePKCECallback builds from the tokens code cd is redeemed for.
NewSession(cd, pk) ==
  LET u == flow[cd].user
  IN  [user |-> u, realm |-> pk.realm, client |-> pk.client, refresh |-> cd,
       roles |-> roles[u], appRole |-> ResolveAppRole(roles[u])]

\* ExchangeCode and Verify: the code of the query, with the verifier, realm
\* and client stored under its state.  The request ends when Keycloak cannot
\* be reached, refuses, its reply is lost, or the token does not verify.
ExchangeCode(r) ==
  /\ req[r].pc = "exchange"
  /\ LET cd == req[r].code
         pk == req[r].pk
         redeems == Redeems(req[r].state, cd, pk)
     IN  \/ /\ redeems /\ Enter(cd, "active")
            /\ \/ Goto(r, [pc |-> "save", data |-> NewSession(cd, pk)])
               \/ Goto(r, Idle)
         \/ ~redeems /\ KcRefuse(cd) /\ Goto(r, Idle)
         \/ UNCHANGED flow /\ Goto(r, Idle)
  /\ UNCHANGED <<pkce, sessions, roles, birth, given, revoked>>

\* Mutant: an entry written with no time to live left.
SaveEntryNoTTL(sid, d) ==
  sessions' = [sessions EXCEPT ![sid] = [data |-> d, ttl |-> 0]]

\* sessionRepo.Save: SETEX, whether or not the key is there.
SaveEntry(sid, d) ==
  sessions' = [sessions EXCEPT ![sid] = [data |-> d, ttl |-> SessionTTL]]

\* Mutant: a save that is not acknowledged is retried under another uuid.
SaveNewRetried(r) ==
  /\ req[r].pc = "save"
  /\ \E sid \in SessionID :
       /\ birth[sid] = NULL
       /\ SaveEntry(sid, req[r].data)
       /\ birth' = [birth EXCEPT ![sid] = Identify(req[r].data)]
       /\ \/ given' = given \cup {sid} /\ Goto(r, Idle)
          \/ UNCHANGED <<given, req>>
  /\ UNCHANGED <<pkce, flow, roles, revoked>>

\* Save of a new session under a fresh uuid, and the cookie.  The client
\* learns the id only when the write is acknowledged.
SaveNew(r) ==
  /\ req[r].pc = "save"
  /\ \/ \E sid \in SessionID :
          /\ birth[sid] = NULL
          /\ SaveEntry(sid, req[r].data)
          /\ birth' = [birth EXCEPT ![sid] = Identify(req[r].data)]
          /\ \/ given' = given \cup {sid}
             \/ UNCHANGED given
     \/ UNCHANGED <<sessions, birth, given>>
  /\ Goto(r, Idle)
  /\ UNCHANGED <<pkce, flow, roles, revoked>>
-----------------------------------------------------------------------------
(***************************************************************************)
(* Refresh and logout both load the session first.                         *)
(***************************************************************************)

\* Mutant: loading the session for a refresh renews its TTL (Touch).
RefreshSessionTouches(r, sid) ==
  /\ req[r].pc = "idle"
  /\ sid \in given
  /\ \/ /\ sessions[sid] # NULL
        /\ Goto(r, Refreshing(sid, sessions[sid].data))
        /\ SaveEntry(sid, sessions[sid].data)
     \/ UNCHANGED <<req, sessions>>
  /\ UNCHANGED <<pkce, flow, roles, birth, given, revoked>>

\* RefreshSession loads the session and goes on with a copy of it; an absent
\* entry or an error ends it.
RefreshSession(r, sid) ==
  /\ req[r].pc = "idle"
  /\ sid \in given
  /\ \/ sessions[sid] # NULL /\ Goto(r, Refreshing(sid, sessions[sid].data))
     \/ UNCHANGED req
  /\ UNCHANGED <<pkce, sessions, flow, roles, birth, given, revoked>>

\* So does Logout; an absent entry or an error ends it with nil.
Logout(r, sid) ==
  /\ req[r].pc = "idle"
  /\ sid \in given
  /\ \/ sessions[sid] # NULL /\ Goto(r, LoggingOut(sid, sessions[sid].data))
     \/ UNCHANGED req
  /\ UNCHANGED <<pkce, sessions, flow, roles, birth, given, revoked>>

\* Keycloak accepts a refresh token of a live grant from its own client.
Honours(d) ==
  /\ flow[d.refresh].phase = "active"
  /\ flow[d.refresh].realm = d.realm /\ flow[d.refresh].client = d.client

\* Mutant: a refresh stores the default client with the new tokens.
RefreshedDefaultClient(d) ==
  [d EXCEPT !.roles = roles[d.user], !.client = ClientID("user")]

\* The fields RefreshSession overwrites.  AppRole and ExpiresAt stay.
Refreshed(d) == [d EXCEPT !.roles = roles[d.user]]

\* The token endpoint has answered with fresh tokens.
Answered(r) == Goto(r, [req[r] EXCEPT !.pc = "verify", !.data = Refreshed(@)])

\* Mutant: a refresh Keycloak refuses goes on with the tokens it has.
RefreshTokenUnchecked(r) ==
  /\ req[r].pc = "refresh"
  /\ Answered(r)
  /\ UNCHANGED <<pkce, sessions, flow, roles, birth, given, revoked>>

\* Mutant: a refresh Keycloak refuses is tried again without end.
RefreshTokenRetried(r) ==
  /\ req[r].pc = "refresh"
  /\ Honours(req[r].data)
  /\ Answered(r)
  /\ UNCHANGED <<pkce, sessions, flow, roles, birth, given, revoked>>

\* RefreshTokenPublic: the token endpoint decides.  A refusal, a failure and a
\* lost answer end the request.
RefreshToken(r) ==
  /\ req[r].pc = "refresh"
  /\ \/ Honours(req[r].data) /\ Answered(r)
     \/ Goto(r, Idle)
  /\ UNCHANGED <<pkce, sessions, flow, roles, birth, given, revoked>>

\* The answer has arrived and Verify is done, which may have fetched the
\* realm's keys and may fail.
Verify(r) ==
  /\ req[r].pc = "verify"
  /\ \/ Goto(r, [req[r] EXCEPT !.pc = "resave"])
     \/ Goto(r, Idle)
  /\ UNCHANGED <<pkce, sessions, flow, roles, birth, given, revoked>>

\* Save of the refreshed session, with the full SessionTTL again.
SaveRefreshed(r) ==
  /\ req[r].pc = "resave"
  /\ \/ SaveEntry(req[r].sid, req[r].data)
     \/ UNCHANGED sessions
  /\ Goto(r, Idle)
  /\ UNCHANGED <<pkce, flow, roles, birth, given, revoked>>

\* LogoutPublic, Keycloak's logout endpoint: best effort, the request goes
\* on whatever the answer.
Revoke(r) ==
  /\ req[r].pc = "revoke"
  /\ \/ /\ Honours(req[r].data)
        /\ Enter(req[r].data.refresh, "ended")
        /\ revoked' = revoked \cup {req[r].sid} \/ UNCHANGED revoked
     \/ UNCHANGED <<flow, revoked>>
  /\ Goto(r, [req[r] EXCEPT !.pc = "delete"])
  /\ UNCHANGED <<pkce, sessions, roles, birth, given>>

\* repo.Delete.  The handler only logs its error.
DeleteSession(r) ==
  /\ req[r].pc = "delete"
  /\ \/ sessions' = [sessions EXCEPT ![req[r].sid] = NULL]
     \/ UNCHANGED sessions
  /\ Goto(r, Idle)
  /\ UNCHANGED <<pkce, flow, roles, birth, given, revoked>>
-----------------------------------------------------------------------------
(***************************************************************************)
(* The environment.                                                        *)
(***************************************************************************)

\* A tick of an entry's TTL; the entry that reaches zero is gone.
Age(e) == IF e = NULL \/ e.ttl = 1 THEN NULL ELSE [e EXCEPT !.ttl = @ - 1]

Tick ==
  /\ pkce' = [st \in State |-> Age(pkce[st])]
  /\ sessions' = [sid \in SessionID |-> Age(sessions[sid])]
  /\ UNCHANGED <<req, flow, roles, birth, given, revoked>>

\* Keycloak ends a grant: idle timeout, or an administrator.
KcEndGrant(st) ==
  /\ flow[st].phase = "active"
  /\ Enter(st, "ended")
  /\ UNCHANGED <<pkce, sessions, req, roles, birth, given, revoked>>

\* An administrator changes a user's realm roles.
KcSetRoles(u, R) ==
  /\ roles' = [roles EXCEPT ![u] = R]
  /\ UNCHANGED <<pkce, sessions, req, flow, birth, given, revoked>>

\* The server process dies and restarts: requests are lost, Redis is not.
Crash ==
  /\ req' = [r \in Req |-> Idle]
  /\ UNCHANGED <<pkce, sessions, flow, roles, birth, given, revoked>>
-----------------------------------------------------------------------------
\* The step a request in flight takes next.
Advance(r) ==
  \/ ExchangeCode(r)
  \/ SaveNew(r)
  \/ RefreshToken(r)
  \/ Verify(r)
  \/ SaveRefreshed(r)
  \/ Revoke(r)
  \/ DeleteSession(r)

Next ==
  \/ \E st \in State, portal \in Portal, realm \in Realm : InitiatePKCE(st, portal, realm)
  \/ \E st \in State, u \in User : KcAuthorize(st, u)
  \/ \E r \in Req, st, cd \in State : Consume(r, st, cd)
  \/ \E r \in Req, sid \in SessionID : RefreshSession(r, sid)
  \/ \E r \in Req, sid \in SessionID : Logout(r, sid)
  \/ \E r \in Req : Advance(r)
  \/ Tick
  \/ \E st \in State : KcEndGrant(st)
  \/ \E u \in User, R \in RoleSets : KcSetRoles(u, R)
  \/ Crash

Spec == Init /\ [][Next]_vars

\* Every call a request waits for ends: the HTTP clients and the Redis client
\* have timeouts.  Redis deletes expired keys.  Clients, users and Keycloak
\* owe nothing.
Fairness == WF_vars(Tick) /\ \A r \in Req : WF_vars(Advance(r))

FairSpec == Spec /\ Fairness
-----------------------------------------------------------------------------
(***************************************************************************)
(* Properties.                                                             *)
(***************************************************************************)

\* Every variable keeps its type.
TypeOK ==
  /\ pkce \in [State -> PkceEntry \cup {NULL}]
  /\ sessions \in [SessionID -> SessionEntry \cup {NULL}]
  /\ req \in [Req -> ReqState]
  /\ flow \in [State -> Flow]
  /\ roles \in [User -> RoleSets]
  /\ birth \in [SessionID -> Identity \cup {NULL}]
  /\ given \in SUBSET SessionID
  /\ revoked \in SUBSET SessionID

\* However often a browser repeats the callback of a login, and whatever other
\* callbacks carry its code or its state, the login's code is never presented
\* with its own verifier once it has been redeemed: Keycloak could answer by
\* ending the grant (GETDEL in Consume).
RedeemedCodeNotRepeated ==
  \A r \in Req :
    req[r].pc = "exchange" /\ req[r].code = req[r].state
      => flow[req[r].code].phase \notin {"active", "ended"}

\* One login makes at most one session, so the grant a logout revokes belongs
\* to no other session.
OneSessionPerLogin ==
  \A s1, s2 \in SessionID :
    /\ birth[s1] # NULL /\ birth[s2] # NULL
    /\ birth[s1].refresh = birth[s2].refresh
    => s1 = s2

\* A stored session belongs to the user who authenticated in the flow it came
\* from, and names the realm and client Keycloak issued its tokens to, without
\* which it could be neither refreshed nor revoked.
SessionOfItsLogin ==
  \A sid \in SessionID :
    sessions[sid] # NULL =>
      LET d == sessions[sid].data
          f == flow[d.refresh]
      IN  /\ f.phase \in {"active", "ended"}
          /\ d.user = f.user /\ d.realm = f.realm /\ d.client = f.client

\* A refresh that begins after Keycloak acknowledged the logout of its session
\* does not renew it, not even when it finds the entry an earlier refresh, in
\* flight at the logout, has written back.  (The earlier one may get that far.)
NoRenewalAfterLogout ==
  \A r \in Req : req[r].pc \in {"verify", "resave"} => ~req[r].late

\* A logout Keycloak has acknowledged is final in the end: a refresh that was
\* in flight may write the entry back, but then it expires and stays away.
RevokedStaysOut ==
  \A sid \in SessionID :
    (sid \in revoked) ~> [](sessions[sid] = NULL)

\* Only refreshes keep a session alive: reading it, or a logout that fails,
\* does not extend it.
UnusedSessionExpires ==
  \A sid \in SessionID :
    <>[](\A r \in Req : req[r].pc = "resave" => req[r].sid # sid)
      => <>[](sessions[sid] = NULL)

\* Every request ends.
RequestsEnd == \A r \in Req : req[r].pc # "idle" ~> req[r].pc = "idle"

\* AuthSession implements SessionRegistry: ids keep their login, and an entry
\* that was deleted or has expired comes back only through a refresh that
\* loaded it before.
Registry == INSTANCE SessionRegistry WITH
  Holder <- Req,
  bound <- birth,
  entry <- [sid \in SessionID |->
              IF sessions[sid] = NULL THEN NULL ELSE Identify(sessions[sid].data)],
  lease <- [r \in Req |->
              IF req[r].pc \in {"refresh", "verify", "resave"} THEN req[r].sid ELSE NULL]

RegistryImplemented == Registry!RegistrySpec
=============================================================================

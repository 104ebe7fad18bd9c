-------------------------- MODULE AuthSessionProofs --------------------------
(***************************************************************************)
(* The safety of AuthSession for any number of requests, flows, sessions,  *)
(* users and realms and any time to live.                                  *)
(*                                                                         *)
(* The properties follow from what a login leaves behind as it moves from  *)
(* place to place: the PKCE entry, then the request that exchanges its     *)
(* code, then the request that saves its session, then the session's id.   *)
(* The invariant says that a login is in at most one of these places and   *)
(* that each of them agrees with what Keycloak knows of the flow.          *)
(***************************************************************************)
EXTENDS AuthSession, TLAPS

\* What Keycloak knows of a flow grows with its phase.
FlowKnown ==
  \A st \in State :
    /\ flow[st].phase # "free" => flow[st].realm \in Realm /\ flow[st].client \in Client
    /\ flow[st].phase \notin {"free", "lost", "url"} => flow[st].user \in User

\* While the verifier of a flow has not left, its code cannot be redeemed.
Unredeemed == {"url", "code", "spent"}

\* An entry in Redis holds its verifier.
EntryUnused ==
  \A st \in State : pkce[st] # NULL => flow[st].phase \in Unredeemed \cup {"lost"}

\* So does the one request that has consumed it, until the exchange.
ExchangeAlone ==
  \A r \in Req :
    req[r].pc = "exchange" =>
      /\ pkce[req[r].state] = NULL
      /\ flow[req[r].state].phase \in Unredeemed
      /\ \A q \in Req : req[q].pc = "exchange" /\ req[q].state = req[r].state => q = r

\* i agrees with Keycloak's record of the flow whose grant it holds.
Owns(i) ==
  LET f == flow[i.refresh]
  IN  /\ f.phase \in {"active", "ended"}
      /\ i.user = f.user /\ i.realm = f.realm /\ i.client = f.client

\* A request saving a new session is alone with the grant, which has no id.
SaveAlone ==
  \A r \in Req :
    req[r].pc = "save" =>
      /\ Owns(req[r].data)
      /\ \A q \in Req : req[q].pc = "save" /\ req[q].data.refresh = req[r].data.refresh
           => q = r
      /\ \A sid \in SessionID : birth[sid] # NULL
           => birth[sid].refresh # req[r].data.refresh

\* Ids stand for the login they were created with.
BirthOwns == \A sid \in SessionID : birth[sid] # NULL => Owns(birth[sid])

\* A request that holds a copy of a session.
Loaded == {"refresh", "verify", "resave", "revoke", "delete"}

\* Every stored or loaded copy of a session speaks for its id's login.
CopiesAgree ==
  /\ \A sid \in SessionID :
       sessions[sid] # NULL => birth[sid] = Identify(sessions[sid].data)
  /\ \A r \in Req :
       req[r].pc \in Loaded => birth[req[r].sid] = Identify(req[r].data)

\* An acknowledged revocation ended the grant of the id's login.
RevokedEnded ==
  \A sid \in SessionID :
    sid \in revoked => birth[sid] # NULL /\ flow[birth[sid].refresh].phase = "ended"

\* A refresh that begins after the revocation loads a revoked session, and
\* gets no further than the token endpoint.
LateRefused ==
  \A r \in Req :
    req[r].pc \in {"refresh", "verify", "resave"} /\ req[r].late
      => req[r].pc = "refresh" /\ req[r].sid \in revoked

IInv ==
  /\ TypeOK
  /\ FlowKnown
  /\ EntryUnused
  /\ ExchangeAlone
  /\ SaveAlone
  /\ BirthOwns
  /\ CopiesAgree
  /\ RevokedEnded
  /\ OneSessionPerLogin
  /\ LateRefused
-----------------------------------------------------------------------------
\* The values the actions build have their types.
LEMMA IdleIsReq == Idle \in ReqState
BY DEF Idle, ReqState, IdleReq

LEMMA ResolveType == ASSUME NEW R PROVE ResolveAppRole(R) \in AppRole
BY DEF ResolveAppRole, AppRole

LEMMA ClientType == ASSUME NEW p PROVE ClientID(p) \in Client
BY DEF ClientID, Client

LEMMA AgeType ==
  ASSUME NEW D, NEW n \in Nat, NEW e \in [data : D, ttl : 1..n] \cup {NULL},
         NULL \notin [data : D, ttl : 1..n]
  PROVE  /\ Age(e) \in [data : D, ttl : 1..n] \cup {NULL}
         /\ Age(e) # NULL => e # NULL /\ Age(e).data = e.data
BY DEF Age

LEMMA LoadedType ==
  ASSUME TypeOK, NEW r \in Req, req[r].pc \in Loaded
  PROVE  /\ req[r].sid \in SessionID
         /\ req[r].data \in SessionData
<1>1. req[r] \in RefreshReq \cup LogoutReq
  BY DEF TypeOK, ReqState, IdleReq, ExchangeReq, SaveReq, RefreshReq, LogoutReq, Loaded
<1>2. QED
  BY <1>1 DEF RefreshReq, LogoutReq

\* The steps of a loaded copy.
LEMMA RefreshType ==
  ASSUME TypeOK, NEW r \in Req, req[r].pc \in {"refresh", "verify", "resave"}
  PROVE  /\ req[r] \in RefreshReq
         /\ [req[r] EXCEPT !.pc = "verify", !.data = Refreshed(@)] \in ReqState
         /\ [req[r] EXCEPT !.pc = "resave"] \in ReqState
<1>1. req[r] \in RefreshReq
  BY DEF TypeOK, ReqState, IdleReq, ExchangeReq, SaveReq, RefreshReq, LogoutReq
<1>2. Refreshed(req[r].data) \in SessionData
  BY <1>1 DEF RefreshReq, Refreshed, SessionData, TypeOK
<1>3. [req[r] EXCEPT !.pc = "verify", !.data = Refreshed(@)] \in RefreshReq
  BY <1>1, <1>2 DEF RefreshReq
<1>4. [req[r] EXCEPT !.pc = "resave"] \in RefreshReq
  BY <1>1 DEF RefreshReq
<1>5. QED
  BY <1>1, <1>3, <1>4 DEF ReqState

LEMMA LogoutType ==
  ASSUME TypeOK, NEW r \in Req, req[r].pc = "revoke"
  PROVE  /\ req[r] \in LogoutReq
         /\ [req[r] EXCEPT !.pc = "delete"] \in ReqState
<1>1. req[r] \in LogoutReq
  BY DEF TypeOK, ReqState, IdleReq, ExchangeReq, SaveReq, RefreshReq, LogoutReq
<1>2. QED
  BY <1>1 DEF LogoutReq, ReqState

LEMMA LoadType ==
  ASSUME NEW sid \in SessionID, NEW d \in SessionData
  PROVE  Refreshing(sid, d) \in ReqState /\ LoggingOut(sid, d) \in ReqState
BY DEF Refreshing, LoggingOut, ReqState, RefreshReq, LogoutReq

LEMMA SaveType ==
  ASSUME TypeOK, NEW r \in Req, req[r].pc = "save"
  PROVE  req[r].data \in SessionData
<1>1. req[r] \in SaveReq
  BY DEF TypeOK, ReqState, IdleReq, ExchangeReq, SaveReq, RefreshReq, LogoutReq
<1>2. QED
  BY <1>1 DEF SaveReq

LEMMA ExchangeType ==
  ASSUME TypeOK, NEW r \in Req, req[r].pc = "exchange"
  PROVE  req[r].state \in State /\ req[r].code \in State /\ req[r].pk \in PKCEState
<1>1. req[r] \in ExchangeReq
  BY DEF TypeOK, ReqState, IdleReq, ExchangeReq, SaveReq, RefreshReq, LogoutReq
<1>2. QED
  BY <1>1 DEF ExchangeReq

LEMMA FlowOfType ==
  ASSUME NEW phase \in Phase, NEW realm \in Realm \cup {NULL},
         NEW client \in Client \cup {NULL}, NEW user \in User \cup {NULL}
  PROVE  FlowOf(phase, realm, client, user) \in Flow
BY DEF FlowOf, Flow

\* A change of phase leaves everything else of every flow alone.
LEMMA EnterType ==
  ASSUME flow \in [State -> Flow], NEW st \in State, NEW phase \in Phase, Enter(st, phase)
  PROVE  /\ flow' \in [State -> Flow]
         /\ flow'[st].phase = phase
         /\ \A s \in State :
              /\ s # st => flow'[s] = flow[s]
              /\ flow'[s].realm = flow[s].realm
              /\ flow'[s].client = flow[s].client
              /\ flow'[s].user = flow[s].user
BY DEF Enter, Flow

LEMMA InitInv == Init => IInv
<1> SUFFICES ASSUME Init PROVE IInv
  OBVIOUS
<1>1. TypeOK
  BY IdleIsReq, FlowOfType DEF Init, TypeOK, NoFlow, Phase
<1>2. QED
  BY <1>1 DEF Init, IInv, FlowKnown, EntryUnused, ExchangeAlone, SaveAlone,
    BirthOwns, CopiesAgree, RevokedEnded, OneSessionPerLogin, LateRefused, Loaded,
    NoFlow, FlowOf, Idle
-----------------------------------------------------------------------------
\* Every step preserves the types.
LEMMA TypeStep == TypeOK /\ FlowKnown /\ [Next]_vars => TypeOK'
<1> SUFFICES ASSUME TypeOK, FlowKnown, [Next]_vars PROVE TypeOK'
  OBVIOUS
<1> USE TTLAssumption DEF TypeOK
<1>1. ASSUME NEW st \in State, NEW portal \in Portal, NEW realm \in Realm,
             InitiatePKCE(st, portal, realm)
      PROVE  TypeOK'
  <2> DEFINE pk == [realm |-> realm, client |-> ClientID(portal)]
  <2>1. pk \in PKCEState
    BY ClientType DEF PKCEState
  <2>2. [data |-> pk, ttl |-> PkceTTL] \in PkceEntry
    BY <2>1 DEF PkceEntry
  <2>3. pkce' \in [State -> PkceEntry \cup {NULL}]
    BY <1>1, <2>2 DEF InitiatePKCE, SavePkce
  <2>4. flow' \in [State -> Flow]
    BY <1>1, <2>1, FlowOfType DEF InitiatePKCE, Phase, PKCEState
  <2>5. QED
    BY <1>1, <2>3, <2>4 DEF InitiatePKCE
<1>2. ASSUME NEW st \in State, NEW u \in User, KcAuthorize(st, u)
      PROVE  TypeOK'
  BY <1>2, FlowOfType DEF KcAuthorize, Flow, Phase
<1>3. ASSUME NEW r \in Req, NEW st \in State, NEW cd \in State, Consume(r, st, cd)
      PROVE  TypeOK'
  <2>1. pkce[st] # NULL => pkce[st].data \in PKCEState
    BY DEF PkceEntry
  <2>2. pkce[st] # NULL =>
          [pc |-> "exchange", state |-> st, code |-> cd, pk |-> pkce[st].data] \in ReqState
    BY <2>1 DEF ReqState, ExchangeReq
  <2>3. pkce' \in [State -> PkceEntry \cup {NULL}] /\ req' \in [Req -> ReqState]
    BY <1>3, <2>2 DEF Consume, Take, Goto
  <2>4. QED
    BY <1>3, <2>3 DEF Consume
<1>4. ASSUME NEW r \in Req, ExchangeCode(r)
      PROVE  TypeOK'
  <2> DEFINE cd == req[r].code
             pk == req[r].pk
  <2>1. cd \in State /\ pk \in PKCEState
    BY <1>4, ExchangeType DEF ExchangeCode
  <2>2. flow' \in [State -> Flow]
    BY <1>4, <2>1, EnterType DEF ExchangeCode, KcRefuse, Phase
  <2>3. ASSUME flow[cd].user \in User
        PROVE  [pc |-> "save", data |-> NewSession(cd, pk)] \in ReqState
    BY <2>1, <2>3, ResolveType DEF NewSession, ReqState, SaveReq, SessionData, PKCEState
  <2>4. Redeems(req[r].state, cd, pk) => flow[cd].user \in User
    BY <2>1 DEF FlowKnown, Redeems
  <2>5. req' \in [Req -> ReqState]
    BY <1>4, <2>3, <2>4, IdleIsReq DEF ExchangeCode, Goto
  <2>6. QED
    BY <1>4, <2>2, <2>5 DEF ExchangeCode
<1>5. ASSUME NEW r \in Req, SaveNew(r)
      PROVE  TypeOK'
  <2>1. req[r].data \in SessionData
    BY <1>5, SaveType DEF SaveNew
  <2>2. Identify(req[r].data) \in Identity
    BY <2>1 DEF Identify, Identity, SessionData
  <2>3. [data |-> req[r].data, ttl |-> SessionTTL] \in SessionEntry
    BY <2>1 DEF SessionEntry
  <2>4. sessions' \in [SessionID -> SessionEntry \cup {NULL}]
    BY <1>5, <2>3 DEF SaveNew, SaveEntry
  <2>5. birth' \in [SessionID -> Identity \cup {NULL}] /\ given' \in SUBSET SessionID
    BY <1>5, <2>2 DEF SaveNew
  <2>6. QED
    BY <1>5, <2>4, <2>5, IdleIsReq DEF SaveNew, Goto
<1>6. ASSUME NEW r \in Req, NEW sid \in SessionID,
             RefreshSession(r, sid) \/ Logout(r, sid)
      PROVE  TypeOK'
  <2>1. sessions[sid] # NULL => sessions[sid].data \in SessionData
    BY DEF SessionEntry
  <2>2. QED
    BY <1>6, <2>1, LoadType DEF RefreshSession, Logout, Goto
<1>7. ASSUME NEW r \in Req, RefreshToken(r)
      PROVE  TypeOK'
  BY <1>7, RefreshType, IdleIsReq DEF RefreshToken, Answered, Goto
<1>8. ASSUME NEW r \in Req, Verify(r)
      PROVE  TypeOK'
  BY <1>8, RefreshType, IdleIsReq DEF Verify, Goto
<1>9. ASSUME NEW r \in Req, SaveRefreshed(r)
      PROVE  TypeOK'
  <2>1. req[r].sid \in SessionID /\ req[r].data \in SessionData
    BY <1>9, LoadedType DEF SaveRefreshed, Loaded
  <2>2. [data |-> req[r].data, ttl |-> SessionTTL] \in SessionEntry
    BY <2>1 DEF SessionEntry
  <2>3. QED
    BY <1>9, <2>1, <2>2, IdleIsReq DEF SaveRefreshed, SaveEntry, Goto
<1>10. ASSUME NEW r \in Req, Revoke(r)
       PROVE  TypeOK'
  <2>1. req[r].sid \in SessionID /\ req[r].data \in SessionData
    BY <1>10, LoadedType DEF Revoke, Loaded
  <2>2. req' \in [Req -> ReqState]
    BY <1>10, LogoutType DEF Revoke, Goto
  <2>3. flow' \in [State -> Flow]
    <3>1. req[r].data.refresh \in State
      BY <2>1 DEF SessionData
    <3>2. QED
      BY <1>10, <3>1, EnterType DEF Revoke, Phase
  <2>4. QED
    BY <1>10, <2>1, <2>2, <2>3 DEF Revoke
<1>11. ASSUME NEW r \in Req, DeleteSession(r)
       PROVE  TypeOK'
  BY <1>11, IdleIsReq DEF DeleteSession, Goto
<1>12. CASE Tick
  <2>1. ASSUME NEW st \in State
        PROVE  Age(pkce[st]) \in PkceEntry \cup {NULL}
    BY AgeType, NullAssumption DEF PkceEntry
  <2>2. ASSUME NEW sid \in SessionID
        PROVE  Age(sessions[sid]) \in SessionEntry \cup {NULL}
    BY AgeType, NullAssumption DEF SessionEntry
  <2>3. QED
    BY <1>12, <2>1, <2>2 DEF Tick
<1>13. ASSUME NEW st \in State, KcEndGrant(st)
       PROVE  TypeOK'
  BY <1>13, EnterType DEF KcEndGrant, Phase
<1>14. ASSUME NEW u \in User, NEW R \in RoleSets, KcSetRoles(u, R)
       PROVE  TypeOK'
  BY <1>14 DEF KcSetRoles
<1>15. CASE Crash
  BY <1>15, IdleIsReq DEF Crash
<1>16. CASE UNCHANGED vars
  BY <1>16 DEF vars
<1>17. QED
  BY <1>1, <1>2, <1>3, <1>4, <1>5, <1>6, <1>7, <1>8, <1>9, <1>10, <1>11,
     <1>12, <1>13, <1>14, <1>15, <1>16 DEF Next, Advance
-----------------------------------------------------------------------------
\* What requests and ids refer to exists.
LEMMA RefTypes ==
  ASSUME TypeOK
  PROVE  /\ \A r \in Req : req[r].pc = "exchange" => req[r].state \in State /\ req[r].code \in State
         /\ \A r \in Req : req[r].pc = "save" => req[r].data.refresh \in State
         /\ \A sid \in SessionID : birth[sid] # NULL => birth[sid].refresh \in State
<1>1. \A r \in Req : req[r].pc = "exchange" => req[r].state \in State /\ req[r].code \in State
  BY ExchangeType
<1>2. \A r \in Req : req[r].pc = "save" => req[r].data.refresh \in State
  BY SaveType DEF SessionData
<1>3. \A sid \in SessionID : birth[sid] # NULL => birth[sid].refresh \in State
  BY DEF TypeOK, Identity
<1>4. QED
  BY <1>1, <1>2, <1>3

\* The part of the invariant about where each login is.
LoginInv == FlowKnown /\ EntryUnused /\ ExchangeAlone /\ SaveAlone /\ BirthOwns
              /\ OneSessionPerLogin

\* A step that moves no login keeps it: no request begins or goes on with a
\* callback, no id is born, entries may only go, a grant may end, and a code
\* may be used up.
LEMMA QuietStep ==
  ASSUME TypeOK, TypeOK', LoginInv,
         \A r \in Req : req'[r].pc \in {"exchange", "save"} => req'[r] = req[r],
         birth' = birth,
         \A st \in State : pkce'[st] # NULL => pkce[st] # NULL,
         \/ flow' = flow
         \/ \E st \in State : flow[st].phase = "active" /\ Enter(st, "ended")
         \/ \E st \in State : flow[st].phase = "code" /\ Enter(st, "spent")
  PROVE  /\ LoginInv'
         /\ \A st \in State : flow[st].phase = "ended" => flow'[st].phase = "ended"
<1>1. \A st \in State :
        /\ flow'[st].realm = flow[st].realm
        /\ flow'[st].client = flow[st].client
        /\ flow'[st].user = flow[st].user
        /\ \/ flow'[st].phase = flow[st].phase
           \/ flow[st].phase = "active" /\ flow'[st].phase = "ended"
           \/ flow[st].phase = "code" /\ flow'[st].phase = "spent"
  BY EnterType DEF TypeOK, Phase
<1>2. FlowKnown' /\ EntryUnused' /\ OneSessionPerLogin'
  BY <1>1 DEF LoginInv, FlowKnown, EntryUnused, OneSessionPerLogin, Unredeemed
<1>3. ASSUME NEW i, i.refresh \in State, Owns(i)
      PROVE  Owns(i)'
  BY <1>1, <1>3 DEF Owns
<1>4. BirthOwns'
  BY <1>3, RefTypes DEF LoginInv, BirthOwns
<1>5. SaveAlone'
  BY <1>3, RefTypes DEF LoginInv, SaveAlone
<1>6. ExchangeAlone'
  <2> SUFFICES ASSUME NEW r \in Req, req'[r].pc = "exchange"
               PROVE  /\ pkce'[req'[r].state] = NULL
                      /\ flow'[req'[r].state].phase \in Unredeemed
                      /\ \A q \in Req : req'[q].pc = "exchange" /\ req'[q].state = req'[r].state
                           => q = r
    BY DEF ExchangeAlone
  <2>1. req'[r] = req[r] /\ req[r].pc = "exchange" /\ req[r].state \in State
    BY RefTypes
  <2>2. pkce[req[r].state] = NULL /\ flow[req[r].state].phase \in Unredeemed
    BY <2>1 DEF LoginInv, ExchangeAlone
  <2>3. QED
    BY <1>1, <2>1, <2>2 DEF LoginInv, ExchangeAlone, Unredeemed
<1>7. QED
  BY <1>1, <1>2, <1>4, <1>5, <1>6 DEF LoginInv

\* A login begins, and its entry may be written.
LEMMA InitiateStep ==
  ASSUME IInv, TypeOK', NEW st \in State, NEW portal \in Portal, NEW realm \in Realm,
         InitiatePKCE(st, portal, realm)
  PROVE  IInv'
<1> DEFINE client == ClientID(portal)
<1>1. PICK phase \in {"lost", "url"} :
        flow' = [flow EXCEPT ![st] = FlowOf(phase, realm, client, NULL)]
  BY DEF InitiatePKCE
<1>2. /\ flow[st].phase = "free"
      /\ flow'[st] = FlowOf(phase, realm, client, NULL)
      /\ \A s \in State : s # st => flow'[s] = flow[s] /\ pkce'[s] = pkce[s]
      /\ UNCHANGED <<sessions, req, roles, birth, given, revoked>>
  BY <1>1 DEF InitiatePKCE, SavePkce, IInv, TypeOK
<1>3. FlowKnown'
  BY <1>2, ClientType DEF IInv, FlowKnown, FlowOf
<1>4. EntryUnused'
  BY <1>2 DEF IInv, EntryUnused, Unredeemed, FlowOf
<1>5. ExchangeAlone'
  <2>1. \A r \in Req : req[r].pc = "exchange" => req[r].state \in State \ {st}
    BY <1>2, RefTypes DEF IInv, ExchangeAlone, Unredeemed
  <2>2. QED
    BY <1>2, <2>1 DEF IInv, ExchangeAlone
<1>6. ASSUME NEW i, i.refresh \in State, Owns(i)
      PROVE  Owns(i)'
  BY <1>2, <1>6 DEF Owns
<1>7. SaveAlone' /\ BirthOwns'
  BY <1>2, <1>6, RefTypes DEF IInv, SaveAlone, BirthOwns
<1>8. CopiesAgree' /\ OneSessionPerLogin' /\ LateRefused'
  BY <1>2 DEF IInv, CopiesAgree, OneSessionPerLogin, LateRefused
<1>9. RevokedEnded'
  BY <1>2, RefTypes DEF IInv, RevokedEnded
<1>10. QED
  BY <1>3, <1>4, <1>5, <1>7, <1>8, <1>9 DEF IInv

\* A login moves from its entry to the request that consumed it.
LEMMA ConsumeStep ==
  ASSUME IInv, TypeOK', NEW r \in Req, NEW st \in State, NEW cd \in State, Consume(r, st, cd)
  PROVE  IInv'
<1>1. /\ req[r].pc = "idle"
      /\ UNCHANGED <<sessions, flow, roles, birth, given, revoked>>
      /\ \A q \in Req : q # r => req'[q] = req[q]
      /\ \A s \in State : s # st => pkce'[s] = pkce[s]
      /\ pkce'[st] \in {pkce[st], NULL}
  BY DEF Consume, Take, Goto, IInv, TypeOK
<1>2. \/ req'[r] = req[r]
      \/ /\ pkce[st] # NULL /\ pkce'[st] = NULL
         /\ flow[st].phase \notin {"free", "lost"}
         /\ req'[r].pc = "exchange" /\ req'[r].state = st
  BY DEF Consume, Take, Goto, IInv, TypeOK
<1>3. FlowKnown' /\ EntryUnused' /\ OneSessionPerLogin' /\ RevokedEnded'
  BY <1>1 DEF IInv, FlowKnown, EntryUnused, OneSessionPerLogin, RevokedEnded
<1>4. SaveAlone' /\ BirthOwns' /\ CopiesAgree' /\ LateRefused'
  BY <1>1, <1>2 DEF IInv, SaveAlone, BirthOwns, CopiesAgree, LateRefused, Owns, Loaded
<1>5. ExchangeAlone'
  <2>1. CASE req'[r] = req[r]
    BY <1>1, <2>1, RefTypes DEF IInv, ExchangeAlone
  <2>2. CASE req'[r] # req[r]
    <3>1. flow[st].phase \in Unredeemed
      BY <1>2, <2>2 DEF IInv, EntryUnused
    <3>2. \A q \in Req : req[q].pc = "exchange" => req[q].state # st
      BY <1>2, <2>2 DEF IInv, ExchangeAlone
    <3>3. QED
      BY <1>1, <1>2, <2>2, <3>1, <3>2, RefTypes DEF IInv, ExchangeAlone
  <2>3. QED
    BY <2>1, <2>2
<1>6. QED
  BY <1>3, <1>4, <1>5 DEF IInv

\* A login moves from the exchanging request to the saving one, if it succeeds.
LEMMA RedeemStep ==
  ASSUME IInv, TypeOK', NEW r \in Req, ExchangeCode(r),
         Redeems(req[r].state, req[r].code, req[r].pk), Enter(req[r].code, "active")
  PROVE  IInv'
<1> DEFINE st == req[r].state
           pk == req[r].pk
<1>1. /\ st \in State /\ flow[st].phase = "code" /\ req[r].code = st
      /\ pkce[st] = NULL /\ req[r].pc = "exchange"
      /\ \A q \in Req : req[q].pc = "exchange" /\ req[q].state = st => q = r
  BY ExchangeType DEF ExchangeCode, Redeems, IInv, ExchangeAlone
<1>2. /\ UNCHANGED <<pkce, sessions, roles, birth, given, revoked>>
      /\ \A q \in Req : q # r => req'[q] = req[q]
      /\ \/ req'[r] = Idle
         \/ req'[r] = [pc |-> "save", data |-> NewSession(st, pk)]
  BY <1>1 DEF ExchangeCode, Goto, IInv, TypeOK
<1>3. /\ \A s \in State :
           /\ s # st => flow'[s] = flow[s]
           /\ flow'[s].realm = flow[s].realm
           /\ flow'[s].client = flow[s].client
           /\ flow'[s].user = flow[s].user
      /\ flow'[st].phase = "active"
  BY <1>1, EnterType DEF IInv, TypeOK, Phase
<1>4. FlowKnown' /\ EntryUnused' /\ OneSessionPerLogin'
  BY <1>1, <1>2, <1>3 DEF IInv, FlowKnown, EntryUnused, OneSessionPerLogin
<1>5. \A q \in Req : q # r /\ req[q].pc = "exchange" => req[q].state \in State \ {st}
  BY <1>1, RefTypes DEF IInv
<1>6. ExchangeAlone'
  BY <1>2, <1>3, <1>5 DEF IInv, ExchangeAlone, Idle
<1>7. ASSUME NEW i, i.refresh \in State, Owns(i)
      PROVE  Owns(i)' /\ i.refresh # st
  BY <1>1, <1>3, <1>7 DEF Owns
<1>8. BirthOwns'
  BY <1>2, <1>7, RefTypes DEF IInv, BirthOwns
<1>9. SaveAlone'
  <2>1. CASE req'[r] = Idle
    BY <1>2, <1>7, <2>1, RefTypes DEF IInv, SaveAlone, Idle
  <2>2. CASE req'[r] # Idle
    <3>1. /\ req'[r].pc = "save" /\ req'[r].data.refresh = st
          /\ req'[r].data.user = flow[st].user
          /\ req'[r].data.realm = flow[st].realm
          /\ req'[r].data.client = flow[st].client
      BY <1>1, <1>2, <2>2 DEF NewSession, Redeems
    <3>2. Owns(req[r].data)'
      BY <1>1, <1>3, <3>1 DEF Owns
    <3>3. \A q \in Req : req[q].pc = "save" => req[q].data.refresh # st
      BY <1>7, RefTypes DEF IInv, SaveAlone
    <3>4. \A sid \in SessionID : birth[sid] # NULL => birth[sid].refresh # st
      BY <1>7, RefTypes DEF IInv, BirthOwns
    <3>5. ASSUME NEW q \in Req, q # r, req[q].pc = "save"
          PROVE  Owns(req[q].data)'
      BY <1>2, <1>7, <3>5, RefTypes DEF IInv, SaveAlone
    <3>6. QED
      BY <1>2, <3>1, <3>2, <3>3, <3>4, <3>5 DEF IInv, SaveAlone
  <2>3. QED
    BY <2>1, <2>2
<1>10. CopiesAgree' /\ LateRefused'
  BY <1>1, <1>2 DEF IInv, CopiesAgree, LateRefused, Idle, Loaded
<1>11. RevokedEnded'
  BY <1>1, <1>2, <1>3, RefTypes DEF IInv, RevokedEnded
<1>12. QED
  BY <1>4, <1>6, <1>8, <1>9, <1>10, <1>11 DEF IInv

\* A login moves from the saving request to the id it is saved under.
LEMMA SaveStep ==
  ASSUME IInv, TypeOK', NEW r \in Req, SaveNew(r)
  PROVE  IInv'
<1> DEFINE d == req[r].data
<1>1. /\ req[r].pc = "save" /\ d \in SessionData /\ d.refresh \in State
      /\ UNCHANGED <<pkce, flow, roles, revoked>>
      /\ req'[r] = Idle
      /\ \A q \in Req : q # r => req'[q] = req[q]
  BY SaveType DEF SaveNew, Goto, IInv, TypeOK, SessionData
<1>2. FlowKnown' /\ EntryUnused' /\ ExchangeAlone' /\ LateRefused'
  BY <1>1 DEF IInv, FlowKnown, EntryUnused, ExchangeAlone, LateRefused, Idle
<1>3. CASE UNCHANGED <<sessions, birth>>
  BY <1>1, <1>2, <1>3 DEF IInv, SaveAlone, BirthOwns, CopiesAgree, RevokedEnded,
    OneSessionPerLogin, Idle, Owns, Loaded
<1>4. ASSUME NEW sid \in SessionID, birth[sid] = NULL, SaveEntry(sid, d),
             birth' = [birth EXCEPT ![sid] = Identify(d)]
      PROVE  IInv'
  <2>1. /\ birth'[sid] = Identify(d) /\ Identify(d).refresh = d.refresh
        /\ \A t \in SessionID : t # sid => birth'[t] = birth[t] /\ sessions'[t] = sessions[t]
        /\ sessions'[sid].data = d
    BY <1>4 DEF IInv, TypeOK, SaveEntry, Identify
  <2>2. Owns(d) /\ \A t \in SessionID : birth[t] # NULL => birth[t].refresh # d.refresh
    BY <1>1 DEF IInv, SaveAlone
  <2>3. OneSessionPerLogin'
    BY <2>1, <2>2 DEF IInv, OneSessionPerLogin
  <2>4. BirthOwns'
    <3>1. Owns(Identify(d))
      BY <2>2 DEF Owns, Identify
    <3>2. QED
      BY <1>1, <2>1, <3>1 DEF IInv, BirthOwns, Owns
  <2>5. SaveAlone'
    <3>1. \A q \in Req : q # r /\ req[q].pc = "save" => req[q].data.refresh # d.refresh
      BY <1>1 DEF IInv, SaveAlone
    <3>2. QED
      BY <1>1, <2>1, <3>1 DEF IInv, SaveAlone, Owns, Idle
  <2>6. CopiesAgree'
    <3>1. \A q \in Req : req[q].pc \in Loaded
            => req[q].sid \in SessionID /\ req[q].sid # sid
      <4> SUFFICES ASSUME NEW q \in Req, req[q].pc \in Loaded
                   PROVE  req[q].sid \in SessionID /\ req[q].sid # sid
        OBVIOUS
      <4>1. req[q].sid \in SessionID /\ req[q].data \in SessionData
        BY LoadedType DEF IInv
      <4>2. birth[req[q].sid] = Identify(req[q].data)
        BY DEF IInv, CopiesAgree
      <4>3. Identify(req[q].data) \in Identity
        BY <4>1 DEF Identify, Identity, SessionData
      <4>4. QED
        BY <1>4, <4>1, <4>2, <4>3, NullAssumption
    <3>2. QED
      BY <1>1, <2>1, <3>1 DEF IInv, CopiesAgree, Idle, Loaded
  <2>7. RevokedEnded'
    BY <1>1, <1>4, <2>1 DEF IInv, RevokedEnded
  <2>8. QED
    BY <1>2, <2>3, <2>4, <2>5, <2>6, <2>7 DEF IInv
<1>5. QED
  BY <1>3, <1>4 DEF SaveNew
-----------------------------------------------------------------------------
\* The remaining actions move no login: what is left to show for each is that
\* copies agree and that an acknowledged revocation ended the grant.
LEMMA InvStep == IInv /\ [Next]_vars => IInv'
<1> SUFFICES ASSUME IInv, [Next]_vars PROVE IInv'
  OBVIOUS
<1>1. TypeOK /\ TypeOK' /\ LoginInv /\ CopiesAgree /\ RevokedEnded /\ LateRefused
  BY TypeStep DEF IInv, LoginInv
<1>2. ASSUME LoginInv', CopiesAgree', RevokedEnded', LateRefused'
      PROVE  IInv'
  BY <1>1, <1>2 DEF IInv, LoginInv
<1>3. ASSUME NEW st \in State, NEW portal \in Portal, NEW realm \in Realm,
             InitiatePKCE(st, portal, realm)
      PROVE  IInv'
  BY <1>1, <1>3, InitiateStep
<1>4. ASSUME NEW st \in State, NEW u \in User, KcAuthorize(st, u)
      PROVE  IInv'
  <2>1. /\ flow[st].phase = "url" /\ flow'[st].phase = "code"
        /\ flow'[st].realm = flow[st].realm /\ flow'[st].client = flow[st].client
        /\ flow'[st].user = u
        /\ \A s \in State : s # st => flow'[s] = flow[s]
        /\ UNCHANGED <<pkce, sessions, req, birth, revoked>>
    BY <1>1, <1>4 DEF KcAuthorize, FlowOf, TypeOK
  <2>2. ASSUME NEW i, i.refresh \in State, Owns(i)
        PROVE  Owns(i)'
    BY <2>1, <2>2 DEF Owns
  <2>3. FlowKnown' /\ EntryUnused' /\ OneSessionPerLogin'
    BY <1>1, <2>1 DEF LoginInv, FlowKnown, EntryUnused, OneSessionPerLogin, Unredeemed
  <2>4. ExchangeAlone'
    BY <1>1, <2>1, RefTypes DEF LoginInv, ExchangeAlone, Unredeemed
  <2>5. SaveAlone' /\ BirthOwns'
    BY <1>1, <2>1, <2>2, RefTypes DEF LoginInv, SaveAlone, BirthOwns
  <2>6. CopiesAgree' /\ RevokedEnded' /\ LateRefused'
    BY <1>1, <2>1, RefTypes DEF CopiesAgree, RevokedEnded, LateRefused
  <2>7. QED
    BY <1>2, <2>3, <2>4, <2>5, <2>6 DEF LoginInv
<1>5. ASSUME NEW r \in Req, NEW st \in State, NEW cd \in State, Consume(r, st, cd)
      PROVE  IInv'
  BY <1>1, <1>5, ConsumeStep
<1>6. ASSUME NEW r \in Req, ExchangeCode(r)
      PROVE  IInv'
  <2> DEFINE cd == req[r].code
  <2>1. /\ cd \in State
        /\ UNCHANGED <<pkce, sessions, birth, revoked>>
        /\ \A q \in Req : q # r => req'[q] = req[q]
    BY <1>1, <1>6, ExchangeType DEF ExchangeCode, Goto, TypeOK
  <2>2. CASE Redeems(req[r].state, cd, req[r].pk) /\ Enter(cd, "active")
    BY <1>1, <1>6, <2>2, RedeemStep
  <2>3. CASE req'[r] = Idle /\ (KcRefuse(cd) \/ flow' = flow)
    <3>1. /\ LoginInv'
          /\ \A s \in State : flow[s].phase = "ended" => flow'[s].phase = "ended"
      BY <1>1, <2>1, <2>3, QuietStep DEF KcRefuse, Idle
    <3>2. CopiesAgree' /\ LateRefused'
      BY <1>1, <2>1, <2>3 DEF CopiesAgree, LateRefused, Idle, Loaded
    <3>3. RevokedEnded'
      BY <1>1, <2>1, <3>1, RefTypes DEF RevokedEnded
    <3>4. QED
      BY <1>2, <3>1, <3>2, <3>3
  <2>4. QED
    BY <1>1, <1>6, <2>2, <2>3 DEF ExchangeCode, Goto, TypeOK
<1>7. ASSUME NEW r \in Req, SaveNew(r)
      PROVE  IInv'
  BY <1>1, <1>7, SaveStep
<1>8. ASSUME UNCHANGED <<pkce, sessions, req, flow, birth, revoked>>
      PROVE  IInv'
  <2>1. LoginInv'
    BY <1>1, <1>8, QuietStep
  <2>2. CopiesAgree' /\ RevokedEnded' /\ LateRefused'
    BY <1>1, <1>8 DEF CopiesAgree, RevokedEnded, LateRefused
  <2>3. QED
    BY <1>2, <2>1, <2>2
<1>9. ASSUME NEW r \in Req, NEW sid \in SessionID, sessions[sid] # NULL,
             \/ Goto(r, Refreshing(sid, sessions[sid].data))
             \/ Goto(r, LoggingOut(sid, sessions[sid].data)),
             UNCHANGED <<pkce, sessions, flow, birth, revoked>>
      PROVE  IInv'
  <2>1. /\ req'[r].sid = sid /\ req'[r].data = sessions[sid].data
        /\ req'[r].pc \in {"refresh", "revoke"}
        /\ req'[r].pc = "refresh" => req'[r].late = (sid \in revoked)
        /\ \A q \in Req : q # r => req'[q] = req[q]
    BY <1>1, <1>9 DEF Refreshing, LoggingOut, Goto, TypeOK
  <2>2. LoginInv'
    BY <1>1, <1>9, <2>1, QuietStep
  <2>3. CopiesAgree'
    BY <1>1, <1>9, <2>1 DEF CopiesAgree
  <2>4. RevokedEnded' /\ LateRefused'
    BY <1>1, <1>9, <2>1 DEF RevokedEnded, LateRefused
  <2>5. QED
    BY <1>2, <2>2, <2>3, <2>4
<1>10. ASSUME NEW r \in Req, NEW sid \in SessionID,
              RefreshSession(r, sid) \/ Logout(r, sid)
       PROVE  IInv'
  BY <1>8, <1>9, <1>10 DEF RefreshSession, Logout
<1>11. ASSUME NEW r \in Req, NEW pc, NEW pcc, req[r].pc = pc,
              pc \in {"refresh", "verify"}, pcc \in {"verify", "resave"},
              \/ req'[r] = Idle
              \/ /\ pcc = "verify" => Honours(req[r].data)
                 /\ pcc = "resave" => pc = "verify"
                 /\ req'[r].pc = pcc /\ req'[r].sid = req[r].sid
                 /\ req'[r].late = req[r].late
                 /\ Identify(req'[r].data) = Identify(req[r].data),
              \A q \in Req : q # r => req'[q] = req[q],
              UNCHANGED <<pkce, sessions, flow, birth, revoked>>
       PROVE  IInv'
  <2>1. LoginInv'
    BY <1>1, <1>11, QuietStep DEF Idle
  <2>2. birth[req[r].sid] = Identify(req[r].data) /\ req[r].sid \in SessionID
    BY <1>1, <1>11, LoadedType DEF CopiesAgree, Loaded
  <2>3. CopiesAgree'
    BY <1>1, <1>11, <2>2 DEF CopiesAgree, Loaded, Idle
  <2>4. RevokedEnded'
    BY <1>1, <1>11 DEF RevokedEnded
  <2>5. LateRefused'
    <3>1. ASSUME req'[r].pc = "verify", req[r].late, pc = "refresh"
          PROVE  FALSE
      <4>1. req[r].sid \in revoked
        BY <1>1, <1>11, <3>1 DEF LateRefused
      <4>2. flow[req[r].data.refresh].phase = "ended"
        BY <1>1, <2>2, <4>1 DEF RevokedEnded, Identify
      <4>3. req'[r] # Idle
        BY <3>1 DEF Idle
      <4>4. pcc = "verify" /\ Honours(req[r].data)
        BY <1>11, <3>1, <4>3
      <4>5. flow[req[r].data.refresh].phase = "active"
        BY <4>4 DEF Honours
      <4>6. QED
        BY <4>2, <4>5
    <3>2. ~(pc = "verify" /\ req[r].late)
      BY <1>1, <1>11 DEF LateRefused
    <3>3. QED
      BY <1>1, <1>11, <3>1, <3>2 DEF LateRefused, Idle
  <2>6. QED
    BY <1>2, <2>1, <2>3, <2>4, <2>5
<1>12. ASSUME NEW r \in Req, RefreshToken(r) \/ Verify(r)
       PROVE  IInv'
  <2>1. /\ req[r].pc \in {"refresh", "verify"} /\ req[r] \in RefreshReq
        /\ \A q \in Req : q # r => req'[q] = req[q]
        /\ UNCHANGED <<pkce, sessions, flow, birth, revoked>>
    BY <1>1, <1>12, RefreshType DEF RefreshToken, Verify, Answered, Goto, TypeOK
  <2>2. Identify(Refreshed(req[r].data)) = Identify(req[r].data)
    BY <2>1 DEF RefreshReq, Identify, Refreshed, SessionData
  <2>3. CASE RefreshToken(r)
    <3>1. \/ req'[r] = Idle
          \/ /\ Honours(req[r].data)
             /\ req'[r] = [req[r] EXCEPT !.pc = "verify", !.data = Refreshed(@)]
      BY <1>1, <2>3 DEF RefreshToken, Answered, Goto, TypeOK
    <3>2. req[r].pc = "refresh"
      BY <2>3 DEF RefreshToken
    <3>3. \/ req'[r] = Idle
          \/ /\ Honours(req[r].data)
             /\ req'[r].pc = "verify" /\ req'[r].sid = req[r].sid
             /\ req'[r].late = req[r].late /\ req'[r].data = Refreshed(req[r].data)
      BY <2>1, <3>1 DEF RefreshReq
    <3>4. QED
      BY <1>11, <2>1, <2>2, <3>2, <3>3
  <2>4. CASE Verify(r)
    <3>1. req[r].pc = "verify" /\ (req'[r] = Idle \/ req'[r] = [req[r] EXCEPT !.pc = "resave"])
      BY <1>1, <2>4 DEF Verify, Goto, TypeOK
    <3>2. \/ req'[r] = Idle
          \/ /\ req'[r].pc = "resave" /\ req'[r].sid = req[r].sid
             /\ req'[r].late = req[r].late /\ req'[r].data = req[r].data
      BY <2>1, <3>1 DEF RefreshReq
    <3>3. QED
      BY <1>11, <2>1, <3>1, <3>2
  <2>5. QED
    BY <1>12, <2>3, <2>4
<1>13. ASSUME NEW r \in Req, SaveRefreshed(r)
       PROVE  IInv'
  <2>1. /\ req[r].pc = "resave" /\ req[r].sid \in SessionID
        /\ req'[r] = Idle /\ \A q \in Req : q # r => req'[q] = req[q]
        /\ UNCHANGED <<pkce, flow, birth, revoked>>
        /\ \/ UNCHANGED sessions
           \/ SaveEntry(req[r].sid, req[r].data)
    BY <1>1, <1>13, LoadedType DEF SaveRefreshed, Goto, TypeOK, Loaded
  <2>2. LoginInv'
    BY <1>1, <2>1, QuietStep DEF Idle
  <2>3. birth[req[r].sid] = Identify(req[r].data)
    BY <1>1, <2>1 DEF CopiesAgree, Loaded
  <2>4. CopiesAgree'
    BY <1>1, <2>1, <2>3 DEF CopiesAgree, SaveEntry, TypeOK, Idle, Loaded
  <2>5. RevokedEnded' /\ LateRefused'
    BY <1>1, <2>1 DEF RevokedEnded, LateRefused, Idle
  <2>6. QED
    BY <1>2, <2>2, <2>4, <2>5
<1>14. ASSUME NEW r \in Req, Revoke(r)
       PROVE  IInv'
  <2> DEFINE sid == req[r].sid
             st == req[r].data.refresh
  <2>0. req[r] \in LogoutReq
    BY <1>1, <1>14, LogoutType DEF Revoke
  <2>1. /\ req[r].pc = "revoke" /\ sid \in SessionID /\ req[r].data \in SessionData
        /\ st \in State
        /\ req'[r] = [req[r] EXCEPT !.pc = "delete"]
        /\ \A q \in Req : q # r => req'[q] = req[q]
        /\ UNCHANGED <<pkce, sessions, birth>>
        /\ \/ flow[st].phase = "active" /\ Enter(st, "ended")
           \/ flow' = flow /\ revoked' = revoked
        /\ revoked \subseteq revoked' /\ revoked' \subseteq revoked \cup {sid}
    BY <1>1, <1>14, <2>0 DEF Revoke, Goto, Honours, TypeOK, LogoutReq, SessionData
  <2>2. req'[r].pc = "delete" /\ req'[r].sid = sid /\ req'[r].data = req[r].data
    BY <2>0, <2>1 DEF LogoutReq
  <2>3. /\ LoginInv'
        /\ \A s \in State : flow[s].phase = "ended" => flow'[s].phase = "ended"
    BY <1>1, <2>1, <2>2, QuietStep
  <2>4. birth[sid] = Identify(req[r].data)
    BY <1>1, <2>1 DEF CopiesAgree, Loaded
  <2>5. birth[sid] # NULL /\ birth[sid].refresh = st
    <3>1. Identify(req[r].data) \in Identity
      BY <2>1 DEF Identify, Identity, SessionData
    <3>2. QED
      BY <2>4, <3>1, NullAssumption DEF Identify
  <2>6. CopiesAgree' /\ LateRefused'
    BY <1>1, <2>1, <2>2, <2>4 DEF CopiesAgree, LateRefused, Loaded
  <2>7. RevokedEnded'
    <3>1. CASE flow[st].phase = "active" /\ Enter(st, "ended")
      <4>1. flow'[st].phase = "ended"
        BY <1>1, <2>1, <3>1, EnterType DEF TypeOK, Phase
      <4>2. QED
        BY <1>1, <2>1, <2>3, <2>5, <4>1, RefTypes DEF RevokedEnded
    <3>2. CASE flow' = flow /\ revoked' = revoked
      BY <1>1, <2>1, <3>2 DEF RevokedEnded
    <3>3. QED
      BY <2>1, <3>1, <3>2
  <2>8. QED
    BY <1>2, <2>3, <2>6, <2>7
<1>15. ASSUME NEW r \in Req, DeleteSession(r)
       PROVE  IInv'
  <2>1. /\ req[r].pc = "delete" /\ req'[r] = Idle
        /\ \A q \in Req : q # r => req'[q] = req[q]
        /\ UNCHANGED <<pkce, flow, birth, revoked>>
        /\ \A s \in SessionID : sessions'[s] \in {sessions[s], NULL}
    BY <1>1, <1>15 DEF DeleteSession, Goto, TypeOK
  <2>2. LoginInv'
    BY <1>1, <2>1, QuietStep DEF Idle
  <2>3. CopiesAgree' /\ LateRefused'
    BY <1>1, <2>1 DEF CopiesAgree, LateRefused, Idle, Loaded
  <2>4. RevokedEnded'
    BY <1>1, <2>1 DEF RevokedEnded
  <2>5. QED
    BY <1>2, <2>2, <2>3, <2>4
<1>16. CASE Tick
  <2>1. /\ \A st \in State : pkce'[st] # NULL => pkce[st] # NULL
        /\ \A sid \in SessionID : sessions'[sid] # NULL =>
             sessions[sid] # NULL /\ sessions'[sid].data = sessions[sid].data
        /\ UNCHANGED <<req, flow, birth, revoked>>
    <3>1. \A st \in State : Age(pkce[st]) # NULL => pkce[st] # NULL
      BY AgeType, NullAssumption, TTLAssumption, <1>1 DEF TypeOK, PkceEntry
    <3>2. \A sid \in SessionID : Age(sessions[sid]) # NULL =>
            sessions[sid] # NULL /\ Age(sessions[sid]).data = sessions[sid].data
      <4> SUFFICES ASSUME NEW sid \in SessionID
                   PROVE  Age(sessions[sid]) # NULL =>
                            sessions[sid] # NULL /\ Age(sessions[sid]).data = sessions[sid].data
        OBVIOUS
      <4>1. sessions[sid] \in SessionEntry \cup {NULL}
        BY <1>1 DEF TypeOK
      <4>2. QED
        BY <4>1, AgeType, NullAssumption, TTLAssumption DEF SessionEntry
    <3>3. QED
      BY <1>16, <3>1, <3>2 DEF Tick
  <2>2. LoginInv'
    BY <1>1, <2>1, QuietStep
  <2>3. CopiesAgree' /\ RevokedEnded' /\ LateRefused'
    BY <1>1, <2>1 DEF CopiesAgree, RevokedEnded, LateRefused
  <2>4. QED
    BY <1>2, <2>2, <2>3
<1>17. ASSUME NEW st \in State, KcEndGrant(st)
       PROVE  IInv'
  <2>1. /\ LoginInv'
        /\ \A s \in State : flow[s].phase = "ended" => flow'[s].phase = "ended"
    BY <1>1, <1>17, QuietStep DEF KcEndGrant
  <2>2. CopiesAgree' /\ RevokedEnded' /\ LateRefused'
    BY <1>1, <1>17, <2>1, RefTypes DEF CopiesAgree, RevokedEnded, LateRefused, KcEndGrant
  <2>3. QED
    BY <1>2, <2>1, <2>2
<1>18. ASSUME NEW u \in User, NEW R \in RoleSets, KcSetRoles(u, R)
       PROVE  IInv'
  BY <1>8, <1>18 DEF KcSetRoles
<1>19. CASE Crash
  <2>1. \A q \in Req : req'[q] = Idle
    BY <1>19 DEF Crash
  <2>2. LoginInv'
    BY <1>1, <1>19, <2>1, QuietStep DEF Crash, Idle
  <2>3. CopiesAgree' /\ RevokedEnded' /\ LateRefused'
    BY <1>1, <1>19, <2>1 DEF CopiesAgree, RevokedEnded, LateRefused, Crash, Idle, Loaded
  <2>4. QED
    BY <1>2, <2>2, <2>3
<1>20. CASE UNCHANGED vars
  BY <1>8, <1>20 DEF vars
<1>21. QED
  BY <1>3, <1>4, <1>5, <1>6, <1>7, <1>10, <1>12, <1>13, <1>14, <1>15,
     <1>16, <1>17, <1>18, <1>19, <1>20 DEF Next, Advance

LEMMA Invariance == Spec => []IInv
BY InitInv, InvStep, PTL DEF Spec
-----------------------------------------------------------------------------
\* Every variable of the session life cycle keeps its type.
THEOREM TypeCorrect == Spec => []TypeOK
BY Invariance, PTL DEF IInv

\* A login's code is not presented with its own verifier once it is redeemed,
\* however many callbacks carry the code, the state or both, and whatever fails.
THEOREM RedeemedCodeNotRepeatedHolds == Spec => []RedeemedCodeNotRepeated
<1>1. IInv => RedeemedCodeNotRepeated
  BY DEF IInv, ExchangeAlone, Unredeemed, RedeemedCodeNotRepeated
<1>2. QED
  BY Invariance, <1>1, PTL

\* A login makes at most one session.
THEOREM OneSessionPerLoginHolds == Spec => []OneSessionPerLogin
BY Invariance, PTL DEF IInv

\* A stored session belongs to the user, realm and client of its login.
THEOREM SessionOfItsLoginHolds == Spec => []SessionOfItsLogin
<1>1. IInv => SessionOfItsLogin
  <2> SUFFICES ASSUME IInv, NEW sid \in SessionID, sessions[sid] # NULL
               PROVE  Owns(sessions[sid].data)
    BY DEF SessionOfItsLogin, Owns
  <2>1. birth[sid] = Identify(sessions[sid].data)
    BY DEF IInv, CopiesAgree
  <2>2. sessions[sid].data \in SessionData
    BY DEF IInv, TypeOK, SessionEntry
  <2>3. birth[sid] # NULL
    BY <2>1, <2>2, NullAssumption DEF Identify, Identity, SessionData
  <2>4. Owns(birth[sid])
    BY <2>3 DEF IInv, BirthOwns
  <2>5. QED
    BY <2>1, <2>4 DEF Owns, Identify
<1>2. QED
  BY Invariance, <1>1, PTL

\* A refresh that begins after an acknowledged logout does not renew the session.
THEOREM NoRenewalAfterLogoutHolds == Spec => []NoRenewalAfterLogout
<1>1. IInv => NoRenewalAfterLogout
  BY DEF IInv, LateRefused, NoRenewalAfterLogout
<1>2. QED
  BY Invariance, <1>1, PTL
-----------------------------------------------------------------------------
(***************************************************************************)
(* AuthSession implements SessionRegistry.                                 *)
(***************************************************************************)

\* The registry's view of the session store and of the requests.
EntryView == [sid \in SessionID |->
                IF sessions[sid] = NULL THEN NULL ELSE Identify(sessions[sid].data)]
LeaseView == [r \in Req |->
                IF req[r].pc \in {"refresh", "verify", "resave"} THEN req[r].sid ELSE NULL]

\* A step that binds no id, leaves every entry's login alone or removes the
\* entry, and leaves leases alone, closes some entries.
LEMMA CloseStep ==
  ASSUME birth' = birth, LeaseView' = LeaseView,
         \A sid \in SessionID : EntryView'[sid] \in {EntryView[sid], NULL}
  PROVE  Registry!RegistryNext
<1>0. PICK S \in SUBSET SessionID : S = {sid \in SessionID : EntryView'[sid] = NULL}
  OBVIOUS
<1>1. EntryView' = [s \in SessionID |-> IF s \in S THEN NULL ELSE EntryView[s]]
  BY <1>0 DEF EntryView
<1>2. Registry!Close(S)
  BY <1>1 DEF Registry!Close, EntryView, LeaseView
<1>3. QED
  BY <1>2 DEF Registry!RegistryNext

\* A step that binds no id, leaves entries alone, and may end leases.
LEMMA ReleaseStep ==
  ASSUME birth' = birth, EntryView' = EntryView,
         \A r \in Req : LeaseView'[r] \in {LeaseView[r], NULL}
  PROVE  Registry!RegistryNext
<1>0. PICK H \in SUBSET Req : H = {r \in Req : LeaseView'[r] = NULL}
  OBVIOUS
<1>1. LeaseView' = [r \in Req |-> IF r \in H THEN NULL ELSE LeaseView[r]]
  BY <1>0 DEF LeaseView
<1>2. Registry!Release(H)
  BY <1>1 DEF Registry!Release, EntryView, LeaseView
<1>3. QED
  BY <1>2 DEF Registry!RegistryNext

LEMMA RegistryStep ==
  ASSUME IInv, IInv', [Next]_vars
  PROVE  Registry!RegistryNext
<1>1. TypeOK /\ TypeOK'
  BY DEF IInv
<1>2. ASSUME birth' = birth, sessions' = sessions,
             \A r \in Req : req'[r].pc \in {"refresh", "verify", "resave"} => req'[r] = req[r]
      PROVE  Registry!RegistryNext
  <2>1. EntryView' = EntryView
    BY <1>2 DEF EntryView
  <2>2. \A r \in Req : LeaseView'[r] \in {LeaseView[r], NULL}
    BY <1>2 DEF LeaseView
  <2>3. QED
    BY <1>2, <2>1, <2>2, ReleaseStep
<1>3. ASSUME NEW r \in Req, NEW st \in State, NEW cd \in State, Consume(r, st, cd)
      PROVE  Registry!RegistryNext
  BY <1>1, <1>2, <1>3 DEF Consume, Goto, TypeOK
<1>4. ASSUME NEW r \in Req, ExchangeCode(r)
      PROVE  Registry!RegistryNext
  BY <1>1, <1>2, <1>4 DEF ExchangeCode, Goto, TypeOK, Idle
<1>5. ASSUME NEW r \in Req, SaveNew(r)
      PROVE  Registry!RegistryNext
  <2>1. /\ req[r].pc = "save" /\ req'[r] = Idle /\ req[r].data \in SessionData
        /\ \A q \in Req : q # r => req'[q] = req[q]
    BY <1>1, <1>5, SaveType DEF SaveNew, Goto, TypeOK
  <2>2. LeaseView' = LeaseView
    BY <2>1 DEF LeaseView, Idle
  <2>3. CASE UNCHANGED <<sessions, birth>>
    BY <1>2, <2>1, <2>3 DEF Idle
  <2>4. ASSUME NEW sid \in SessionID, birth[sid] = NULL, SaveEntry(sid, req[r].data),
               birth' = [birth EXCEPT ![sid] = Identify(req[r].data)]
        PROVE  Registry!RegistryNext
    <3>0. PICK i \in Identity : i = Identify(req[r].data)
      BY <2>1 DEF Identify, Identity, SessionData
    <3>1. i.refresh = req[r].data.refresh
      BY <3>0 DEF Identify
    <3>2. \A t \in SessionID : birth[t] # i
      BY <2>1, <3>1, NullAssumption DEF IInv, SaveAlone
    <3>3. sessions' = [sessions EXCEPT ![sid] = [data |-> req[r].data, ttl |-> SessionTTL]]
      BY <2>4 DEF SaveEntry
    <3>4. [data |-> req[r].data, ttl |-> SessionTTL] # NULL
      BY <2>1, NullAssumption, TTLAssumption DEF SessionEntry
    <3>5. EntryView' = [EntryView EXCEPT ![sid] = i]
      BY <1>1, <3>0, <3>3, <3>4 DEF EntryView, TypeOK
    <3>6. Registry!Open(sid, i)
      BY <2>2, <2>4, <3>0, <3>2, <3>5 DEF Registry!Open, EntryView, LeaseView
    <3>7. QED
      BY <3>6 DEF Registry!RegistryNext
  <2>5. QED
    BY <1>5, <2>3, <2>4 DEF SaveNew
<1>6. ASSUME NEW r \in Req, NEW sid \in SessionID, RefreshSession(r, sid)
      PROVE  Registry!RegistryNext
  <2>1. CASE UNCHANGED req
    BY <1>2, <1>6, <2>1 DEF RefreshSession
  <2>2. CASE sessions[sid] # NULL /\ Goto(r, Refreshing(sid, sessions[sid].data))
    <3>1. /\ sessions[sid] # NULL /\ req[r].pc = "idle"
          /\ req'[r].pc = "refresh" /\ req'[r].sid = sid
          /\ \A q \in Req : q # r => req'[q] = req[q]
          /\ UNCHANGED <<sessions, birth>>
      BY <1>1, <1>6, <2>2 DEF RefreshSession, Goto, Refreshing, TypeOK
    <3>2. Identify(sessions[sid].data) # NULL
      <4>1. sessions[sid].data \in SessionData
        BY <1>1, <3>1 DEF TypeOK, SessionEntry
      <4>2. QED
        BY <4>1, NullAssumption DEF Identify, Identity, SessionData
    <3>3. LeaseView' = [LeaseView EXCEPT ![r] = sid]
      BY <3>1 DEF LeaseView
    <3>4. LeaseView[r] = NULL /\ EntryView[sid] # NULL /\ EntryView' = EntryView
      BY <3>1, <3>2 DEF LeaseView, EntryView
    <3>5. Registry!Lease(r, sid)
      BY <3>1, <3>3, <3>4 DEF Registry!Lease, EntryView, LeaseView
    <3>6. QED
      BY <3>5 DEF Registry!RegistryNext
  <2>3. QED
    BY <1>6, <2>1, <2>2 DEF RefreshSession
<1>7. ASSUME NEW r \in Req, NEW sid \in SessionID, Logout(r, sid)
      PROVE  Registry!RegistryNext
  BY <1>1, <1>2, <1>7 DEF Logout, Goto, LoggingOut, TypeOK
<1>8. ASSUME NEW r \in Req, RefreshToken(r) \/ Verify(r)
      PROVE  Registry!RegistryNext
  <2>0. req[r].pc \in {"refresh", "verify"} /\ req[r] \in RefreshReq
    BY <1>1, <1>8, RefreshType DEF RefreshToken, Verify
  <2>1. /\ \A q \in Req : q # r => req'[q] = req[q]
        /\ UNCHANGED <<sessions, birth>>
        /\ \/ req'[r] = Idle
           \/ req'[r] = [req[r] EXCEPT !.pc = "verify", !.data = Refreshed(@)]
           \/ req'[r] = [req[r] EXCEPT !.pc = "resave"]
    BY <1>1, <1>8 DEF RefreshToken, Verify, Answered, Goto, TypeOK
  <2>2. \/ req'[r].pc = "idle"
        \/ req'[r].pc \in {"verify", "resave"} /\ req'[r].sid = req[r].sid
    <3>1. CASE req'[r] = Idle
      BY <3>1 DEF Idle
    <3>2. CASE req'[r] = [req[r] EXCEPT !.pc = "verify", !.data = Refreshed(@)]
      <4>1. req'[r].pc = "verify" /\ req'[r].sid = req[r].sid
        BY <2>0, <3>2 DEF RefreshReq
      <4>2. QED
        BY <4>1
    <3>3. CASE req'[r] = [req[r] EXCEPT !.pc = "resave"]
      <4>1. req'[r].pc = "resave" /\ req'[r].sid = req[r].sid
        BY <2>0, <3>3 DEF RefreshReq
      <4>2. QED
        BY <4>1
    <3>4. QED
      BY <2>1, <3>1, <3>2, <3>3
  <2>3. EntryView' = EntryView
    BY <2>1 DEF EntryView
  <2>4. \A q \in Req : LeaseView'[q] \in {LeaseView[q], NULL}
    BY <2>0, <2>1, <2>2 DEF LeaseView
  <2>5. QED
    BY <2>1, <2>3, <2>4, ReleaseStep
<1>9. ASSUME NEW r \in Req, SaveRefreshed(r)
      PROVE  Registry!RegistryNext
  <2>0. PICK sid \in SessionID : sid = req[r].sid
    BY <1>1, <1>9, LoadedType DEF Loaded, SaveRefreshed
  <2>1. /\ req[r].pc = "resave" /\ sid = req[r].sid /\ req[r].data \in SessionData
        /\ req'[r] = Idle /\ birth' = birth
        /\ \A q \in Req : q # r => req'[q] = req[q]
    BY <1>1, <1>9, <2>0, LoadedType DEF Loaded, SaveRefreshed, Goto, TypeOK
  <2>2. CASE UNCHANGED sessions
    BY <1>2, <2>1, <2>2 DEF Idle
  <2>3. CASE SaveEntry(sid, req[r].data)
    <3>1. sessions' = [sessions EXCEPT ![sid] = [data |-> req[r].data, ttl |-> SessionTTL]]
      BY <2>3 DEF SaveEntry
    <3>2. [data |-> req[r].data, ttl |-> SessionTTL] # NULL
      BY <2>1, NullAssumption, TTLAssumption DEF SessionEntry
    <3>3. birth[sid] = Identify(req[r].data)
      BY <2>1 DEF IInv, CopiesAgree, Loaded
    <3>4. EntryView' = [EntryView EXCEPT ![sid] = birth[sid]]
      BY <1>1, <2>1, <3>1, <3>2, <3>3 DEF EntryView, TypeOK
    <3>5. LeaseView[r] = sid /\ LeaseView' = [LeaseView EXCEPT ![r] = NULL]
      <4>1. req[r].pc = "resave" /\ req'[r].pc = "idle"
        BY <2>1 DEF Idle
      <4>2. \A q \in Req : LeaseView'[q] = IF q = r THEN NULL ELSE LeaseView[q]
        BY <2>1, <4>1 DEF LeaseView
      <4>3. LeaseView[r] = sid
        BY <2>1, <4>1 DEF LeaseView
      <4>4. QED
        BY <4>2, <4>3 DEF LeaseView
    <3>6. Registry!Renew(r, sid)
      BY <2>1, <3>4, <3>5 DEF Registry!Renew, EntryView, LeaseView
    <3>7. QED
      BY <3>6 DEF Registry!RegistryNext
  <2>4. QED
    BY <1>9, <2>1, <2>2, <2>3 DEF SaveRefreshed
<1>10. ASSUME NEW r \in Req, Revoke(r)
       PROVE  Registry!RegistryNext
  BY <1>1, <1>2, <1>10, LogoutType DEF Revoke, Goto, LogoutReq, TypeOK
<1>11. ASSUME NEW r \in Req, DeleteSession(r)
       PROVE  Registry!RegistryNext
  <2>1. /\ req[r].pc = "delete" /\ req'[r] = Idle /\ birth' = birth
        /\ \A q \in Req : q # r => req'[q] = req[q]
        /\ \A s \in SessionID : sessions'[s] \in {sessions[s], NULL}
    BY <1>1, <1>11 DEF DeleteSession, Goto, TypeOK
  <2>2. LeaseView' = LeaseView
    BY <2>1 DEF LeaseView, Idle
  <2>3. \A s \in SessionID : EntryView'[s] \in {EntryView[s], NULL}
    BY <2>1 DEF EntryView
  <2>4. QED
    BY <2>1, <2>2, <2>3, CloseStep
<1>12. CASE Tick
  <2>1. \A s \in SessionID : sessions'[s] # NULL =>
          sessions[s] # NULL /\ sessions'[s].data = sessions[s].data
    <3> SUFFICES ASSUME NEW s \in SessionID, sessions'[s] # NULL
                 PROVE  sessions[s] # NULL /\ sessions'[s].data = sessions[s].data
      OBVIOUS
    <3>1. sessions'[s] = Age(sessions[s]) /\ sessions[s] \in SessionEntry \cup {NULL}
      BY <1>1, <1>12 DEF Tick, TypeOK
    <3>2. QED
      BY <3>1, AgeType, NullAssumption, TTLAssumption DEF SessionEntry
  <2>2. \A s \in SessionID : EntryView'[s] \in {EntryView[s], NULL}
    BY <2>1 DEF EntryView
  <2>3. birth' = birth /\ LeaseView' = LeaseView
    BY <1>12 DEF Tick, LeaseView
  <2>4. QED
    BY <2>2, <2>3, CloseStep
<1>13. CASE Crash
  BY <1>2, <1>13 DEF Crash, Idle
<1>14. CASE UNCHANGED <<sessions, req, birth>>
  BY <1>2, <1>14
<1>15. QED
  BY <1>3, <1>4, <1>5, <1>6, <1>7, <1>8, <1>9, <1>10, <1>11, <1>12, <1>13, <1>14
  DEF Next, Advance, InitiatePKCE, KcAuthorize, KcEndGrant, KcSetRoles, vars

\* Ids keep their login for ever, and an entry that is gone comes back only
\* through a refresh that had loaded it.
THEOREM RegistryRefinement == Spec => RegistryImplemented
<1>1. Init => Registry!RegistryInit
  BY DEF Init, Registry!RegistryInit, Idle
<1>2. IInv /\ IInv' /\ [Next]_vars => [Registry!RegistryNext]_(Registry!registryVars)
  BY RegistryStep
<1>3. QED
  BY Invariance, <1>1, <1>2, PTL DEF Spec, RegistryImplemented, Registry!RegistrySpec
=============================================================================

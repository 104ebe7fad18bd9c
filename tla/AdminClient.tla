----------------------------- MODULE AdminClient -----------------------------
(***************************************************************************)
(* The Keycloak admin client: one admin token shared by all requests,      *)
(* fetched under a read-write lock, and up to Tries attempts per call over *)
(* a bounded number of connections.                                        *)
(*                                                                         *)
(* A request makes calls one after the other. The pc of a call names what  *)
(* it waits for: the read side of the token's lock ("token"), its write    *)
(* side ("lock"), a connection for the token request ("fetchdial"),        *)
(* Keycloak's token ("fetch") and its arrival ("fetched"), a connection    *)
(* for the attempt ("dial"), the answer ("wait"), the back-off ("backoff").*)
(* What a holder of the lock does without waiting is one step.             *)
(*                                                                         *)
(* Time passes in ticks. The http.Client gives everything it sends Timeout *)
(* ticks from the call of Do to the end of the body, the wait for a        *)
(* connection included: no tick passes while something is overdue. The     *)
(* body of an attempt answered 5xx that is tried again is never closed,    *)
(* and holds its connection until its own time is up or the request ends.  *)
(***************************************************************************)
EXTENDS Integers

CONSTANTS
  Req,      \* requests served at a time
  Conn,     \* the connections of the transport: MaxConnsPerHost of them
  TTL,      \* lifetime of an admin token (expires_in)
  Margin,   \* the cached token is not used this long before its expiry
  Timeout,  \* http.Client.Timeout
  Tries,    \* attempts per call
  NULL      \* no lock holder, no connection, no request

ASSUME TimeAssumption ==
  /\ TTL \in Nat /\ Margin \in Nat /\ Timeout \in Nat
  /\ Timeout <= Margin  \* thirty seconds both
  /\ Timeout < TTL      \* Keycloak's default is a minute
ASSUME BoundAssumption == Tries \in Nat \ {0}
ASSUME NullAssumption == NULL \notin Req /\ NULL \notin Conn

VARIABLES
  token,  \* Client.token: the life the client believes in, and the real one
  lock,   \* the holder of the write side of adminToken.mu
  free,   \* connections the transport may open or reuse
  body,   \* connection -> the unclosed body that holds it
  call    \* each request's call: program counter and locals

vars == <<token, lock, free, body, call>>

Fetching == {"fetchdial", "fetch", "fetched"}
Trying == {"dial", "wait"}
Exchanging == {"fetch", "fetched", "wait"}
Ended == {"idle", "returned"}
PC == Ended \cup {"token", "lock", "backoff"} \cup Fetching \cup Trying

\* left: the time the exchange still has; tok: what is left of the token in
\* hand; conn: the connection of the exchange in flight.
Call == [pc : PC, try : 0..Tries, left : 0..Timeout, tok : 0..TTL,
         conn : Conn \cup {NULL}]

\* The request a body was sent to, and the time it still has.
Body == [req : Req \cup {NULL}, left : 0..Timeout]
NoBody == [req |-> NULL, left |-> 0]

Resting(pc) == [pc |-> pc, try |-> 0, left |-> 0, tok |-> 0, conn |-> NULL]

Init ==
  /\ token = [left |-> 0, real |-> 0]
  /\ lock = NULL
  /\ free = Conn
  /\ body = [c \in Conn |-> NoBody]
  /\ call = [r \in Req |-> Resting("idle")]

At(r, pc) == call[r].pc = pc
Become(r, c) == call' = [call EXCEPT ![r] = c]
Goto(r, pc) == Become(r, [call[r] EXCEPT !.pc = pc])

\* The call has its token: attempt one begins. The call is over.
Begun(tok) == [pc |-> "dial", try |-> 1, left |-> Timeout, tok |-> tok, conn |-> NULL]
Over == Resting("returned")

\* A connection is taken for the exchange, and given back after it.
Take(r, pc) ==
  \E c \in free :
    /\ free' = free \ {c}
    /\ Become(r, [call[r] EXCEPT !.pc = pc, !.conn = c])
Release(r) == free' = free \cup ({call[r].conn} \ {NULL})
-----------------------------------------------------------------------------
(***************************************************************************)
(* A handler's calls.                                                      *)
(***************************************************************************)

\* doAdminRequest, the first of the request or a further one.
Begin(r) ==
  /\ call[r].pc \in Ended
  /\ Goto(r, "token")
  /\ UNCHANGED <<token, lock, free, body>>

\* The handler returns: its context is cancelled, which ends what is open.
Served(r) ==
  /\ At(r, "returned")
  /\ free' = free \cup {c \in Conn : body[c].req = r}
  /\ body' = [c \in Conn |-> IF body[c].req = r THEN NoBody ELSE body[c]]
  /\ Goto(r, "idle")
  /\ UNCHANGED <<token, lock>>
-----------------------------------------------------------------------------
(***************************************************************************)
(* ensureAdminToken and fetchAdminToken.                                   *)
(***************************************************************************)

\* Mutant: a token is used to the end of the life the client believes in.
FreshToTheEnd == token.left > 0

Fresh == token.left > Margin

\* Under the read lock: use the cached token, or go for the write lock.
ReadToken(r) ==
  /\ At(r, "token")
  /\ lock = NULL
  /\ IF Fresh THEN Become(r, Begun(token.real)) ELSE Goto(r, "lock")
  /\ UNCHANGED <<token, lock, free, body>>

\* Mutant: the token is not looked at again under the write lock.
LockTokenOnce(r) ==
  /\ At(r, "lock")
  /\ lock = NULL
  /\ Become(r, [call[r] EXCEPT !.pc = "fetchdial", !.left = Timeout])
  /\ lock' = r
  /\ UNCHANGED <<token, free, body>>

\* Under the write lock: another request may have fetched meanwhile.
LockToken(r) ==
  /\ At(r, "lock")
  /\ lock = NULL
  /\ \/ /\ Fresh
        /\ Become(r, Begun(token.real))
        /\ UNCHANGED lock
     \/ /\ ~Fresh
        /\ Become(r, [call[r] EXCEPT !.pc = "fetchdial", !.left = Timeout])
        /\ lock' = r
  /\ UNCHANGED <<token, free, body>>

FetchDial(r) ==
  /\ At(r, "fetchdial")
  /\ Take(r, "fetch")
  /\ UNCHANGED <<token, lock, body>>

\* Keycloak issues the token: its life begins here.
KcIssue(r) ==
  /\ At(r, "fetch")
  /\ Become(r, [call[r] EXCEPT !.pc = "fetched", !.tok = TTL])
  /\ UNCHANGED <<token, lock, free, body>>

\* The answer arrives: for the client the token's life begins only now.
StoreToken(r) ==
  /\ At(r, "fetched")
  /\ token' = [left |-> TTL, real |-> call[r].tok]
  /\ lock' = NULL
  /\ Release(r)
  /\ Become(r, Begun(call[r].tok))
  /\ UNCHANGED body

\* Mutant: the lock is not released on the error path.
FetchFailsLocked(r) ==
  /\ call[r].pc \in Fetching
  /\ Release(r)
  /\ Become(r, Over)
  /\ UNCHANGED <<token, lock, body>>

\* No connection or no answer in time, or one that is not 200.
FetchFails(r) ==
  /\ call[r].pc \in Fetching
  /\ lock' = NULL
  /\ Release(r)
  /\ Become(r, Over)
  /\ UNCHANGED <<token, body>>
-----------------------------------------------------------------------------
(***************************************************************************)
(* The attempts of doAdminRequest.                                         *)
(***************************************************************************)
Dial(r) ==
  /\ At(r, "dial")
  /\ Take(r, "wait")
  /\ UNCHANGED <<token, lock, body>>

\* An answer below 500 ends the call: a success, a refusal, or a 401 on a
\* token that expired since the call began. So does a 5xx of the last
\* attempt. The caller reads the body and closes it.
Answered(r) ==
  /\ At(r, "wait")
  /\ Release(r)
  /\ Become(r, Over)
  /\ UNCHANGED <<token, lock, body>>

\* The attempt is given up, and the next one comes after the back-off.
Pause(r) == Become(r, [call[r] EXCEPT !.pc = "backoff", !.left = 0, !.conn = NULL])

\* A 5xx answer that is not the last: nobody closes its body, which holds
\* the connection unless it is empty.
Failed5xx(r) ==
  /\ At(r, "wait")
  /\ call[r].try < Tries
  /\ Pause(r)
  /\ \/ /\ body' = [body EXCEPT ![call[r].conn] = [req |-> r, left |-> call[r].left]]
        /\ UNCHANGED free
     \/ /\ Release(r)
        /\ UNCHANGED body
  /\ UNCHANGED <<token, lock>>

\* Mutant: an attempt that broke off keeps its connection.
NoAnswerKept(r) ==
  /\ call[r].pc \in Trying
  /\ IF call[r].try < Tries THEN Pause(r) ELSE Become(r, Over)
  /\ UNCHANGED <<token, lock, free, body>>

\* No connection or no answer in time, or the connection broke.
NoAnswer(r) ==
  /\ call[r].pc \in Trying
  /\ Release(r)
  /\ IF call[r].try < Tries THEN Pause(r) ELSE Become(r, Over)
  /\ UNCHANGED <<token, lock, body>>

\* Mutant: the loop does not count.
RetryForever(r) ==
  /\ At(r, "backoff")
  /\ Become(r, [call[r] EXCEPT !.pc = "dial", !.left = Timeout])
  /\ UNCHANGED <<token, lock, free, body>>

\* The same request again, with the token it was built with.
Retry(r) ==
  /\ At(r, "backoff")
  /\ Become(r, [call[r] EXCEPT !.pc = "dial", !.try = @ + 1, !.left = Timeout])
  /\ UNCHANGED <<token, lock, free, body>>
-----------------------------------------------------------------------------
\* Mutant: the client is made without a timeout.
LateNever(c) == FALSE

\* A body whose time is up: its connection is closed.
Late(c) == body[c].req # NULL /\ body[c].left = 0
Expire(c) ==
  /\ Late(c)
  /\ free' = free \cup {c}
  /\ body' = [body EXCEPT ![c] = NoBody]
  /\ UNCHANGED <<token, lock, call>>

Less(n) == IF n = 0 THEN 0 ELSE n - 1
Pending(r) == call[r].pc \in Fetching \cup Trying

\* A tick: tokens age, and so does what is in flight.
Tick ==
  /\ \A c \in Conn : ~Late(c)
  /\ \A r \in Req : Pending(r) => call[r].left > 0
  /\ token' = [left |-> Less(token.left), real |-> Less(token.real)]
  /\ call' = [r \in Req |-> [call[r] EXCEPT !.left = Less(@), !.tok = Less(@)]]
  /\ body' = [c \in Conn |-> [body[c] EXCEPT !.left = Less(@)]]
  /\ UNCHANGED <<lock, free>>

Fetch(r) == FetchDial(r) \/ KcIssue(r) \/ StoreToken(r) \/ FetchFails(r)
Attempt(r) == Dial(r) \/ Answered(r) \/ Failed5xx(r) \/ NoAnswer(r) \/ Retry(r)
Advance(r) == ReadToken(r) \/ LockToken(r) \/ Fetch(r) \/ Attempt(r)

Next ==
  \/ \E r \in Req : Begin(r) \/ Served(r) \/ Advance(r)
  \/ \E c \in Conn : Expire(c)
  \/ Tick

Spec == Init /\ [][Next]_vars

\* What is sent ends within Timeout, and a body's time is up; the lock is
\* granted in turn; time passes.
FairSpec ==
  /\ Spec
  /\ \A r \in Req : SF_vars(ReadToken(r)) /\ SF_vars(LockToken(r))
  /\ \A r \in Req : WF_vars(Fetch(r)) /\ WF_vars(Attempt(r))
  /\ \A c \in Conn : WF_vars(Expire(c))
  /\ WF_vars(Tick)
-----------------------------------------------------------------------------
(***************************************************************************)
(* Properties                                                              *)
(***************************************************************************)

\* Every variable keeps its type, and the write lock is held exactly while
\* its holder fetches a token.
TypeOK ==
  /\ token \in [left : 0..TTL, real : 0..TTL]
  /\ lock \in Req \cup {NULL}
  /\ free \subseteq Conn
  /\ body \in [Conn -> Body]
  /\ call \in [Req -> Call]
  /\ \A r \in Req : (lock = r) <=> (call[r].pc \in Fetching)

\* Every connection is free, carries one exchange, or is held by an unclosed
\* body of a request that is still served: whatever fails at whatever point,
\* none is lost and none given back twice.
ConnectionsAccounted ==
  /\ \A r \in Req : (call[r].conn # NULL) <=> (call[r].pc \in Exchanging)
  /\ \A r, q \in Req : call[r].conn = call[q].conn /\ call[r].conn # NULL => r = q
  /\ \A r \in Req : call[r].conn # NULL => body[call[r].conn] = NoBody
  /\ \A c \in Conn : c \in free <=> (body[c] = NoBody /\ \A r \in Req : call[r].conn # c)
  /\ \A c \in Conn : body[c].req # NULL => ~At(body[c].req, "idle")

\* A call gets a token that Keycloak still accepts, although its real life
\* began before the client heard of it: the margin covers the delay. (An
\* attempt that had to wait, and a retry, may carry an expired one.)
StartsFresh ==
  [][\A r \in Req : call[r].pc # "dial" /\ call'[r].pc = "dial" /\ call'[r].try = 1
       => call'[r].tok > 0]_vars

\* However many requests find the token stale at once, it is replaced only
\* when it is stale: they share one fetch.
FetchOnlyWhenStale ==
  [][token'.left > token.left => token.left <= Margin]_vars

\* Every call ends: with an answer, or with the error of its last attempt.
CallsEnd == \A r \in Req : call[r].pc \notin Ended ~> call[r].pc \in Ended

\* Requests that hold all the connections with unclosed bodies, and wait for
\* one, do not wait for each other for ever.
PoolRecovers == free = {} ~> free # {}
=============================================================================

-------------------------- MODULE AdminClientProofs --------------------------
(***************************************************************************)
(* The shared admin token of AdminClient and the connections its calls     *)
(* hold, for any number of requests and connections and any times: one     *)
(* holder of the lock, no needless fetch, no call that begins with an      *)
(* expired token, no connection lost or given back twice.                  *)
(*                                                                         *)
(* The client believes a token's life to begin when the answer arrives.    *)
(* It began earlier, but not by more than the exchange took, and that is   *)
(* at most Timeout; the margin is no less.                                 *)
(***************************************************************************)
EXTENDS AdminClient, TLAPS

\* A token on its way is not older than the exchange that brings it.
InTransit(c) == c.pc = "fetched" => c.tok + Timeout >= TTL + c.left

\* An attempt has a number, and one that is followed by another is not the
\* last. A call has a connection exactly while it exchanges something.
Attempted(c) ==
  /\ c.pc \in {"dial", "wait", "backoff"} => c.try >= 1
  /\ c.pc = "backoff" => c.try < Tries
Connected(c) == (c.conn # NULL) <=> (c.pc \in Exchanging)

Sound(c) == c \in Call /\ InTransit(c) /\ Attempted(c) /\ Connected(c)

\* The cached token lives at least as long as the client believes, but for
\* the time its exchange took.
TokenKnown ==
  /\ token \in [left : 0..TTL, real : 0..TTL]
  /\ token.real + Timeout >= token.left

OneHolder ==
  /\ lock \in Req \cup {NULL}
  /\ \A r \in Req : (lock = r) <=> (call[r].pc \in Fetching)

\* Who fetches a token has seen that the cached one is stale, and nobody
\* has replaced it since.
FetchJustified == \A r \in Req : call[r].pc \in Fetching => ~Fresh

CallsSound == call \in [Req -> Call] /\ \A r \in Req : Sound(call[r])

TokenInv == TokenKnown /\ CallsSound /\ OneHolder /\ FetchJustified

\* An exchange has its connection for itself, and so has an unclosed body;
\* what nobody has is free.
OwnConn ==
  /\ \A r, q \in Req : call[r].conn = call[q].conn /\ call[r].conn # NULL => r = q
  /\ \A r \in Req : call[r].conn # NULL => body[call[r].conn] = NoBody
FreeConn ==
  \A c \in Conn : c \in free <=> (body[c] = NoBody /\ \A r \in Req : call[r].conn # c)
BodyServed ==
  \A c \in Conn : IF body[c].req = NULL THEN body[c] = NoBody
                                        ELSE ~At(body[c].req, "idle")

ConnInv ==
  /\ free \subseteq Conn /\ body \in [Conn -> Body]
  /\ OwnConn /\ FreeConn /\ BodyServed

IInv == TokenInv /\ ConnInv
-----------------------------------------------------------------------------
(***************************************************************************)
(* The records of a call.                                                  *)
(***************************************************************************)
LEMMA SetField ==
  ASSUME NEW c \in Call
  PROVE  /\ \A p \in PC : [c EXCEPT !.pc = p] \in Call
         /\ \A n \in 0..Tries : [c EXCEPT !.try = n] \in Call
         /\ \A a \in 0..Timeout : [c EXCEPT !.left = a] \in Call
         /\ \A t \in 0..TTL : [c EXCEPT !.tok = t] \in Call
         /\ \A k \in Conn \cup {NULL} : [c EXCEPT !.conn = k] \in Call
  BY DEF Call

LEMMA Fields ==
  ASSUME NEW c \in Call
  PROVE  /\ c.pc \in PC /\ c.try \in 0..Tries /\ c.left \in 0..Timeout
         /\ c.tok \in 0..TTL /\ c.conn \in Conn \cup {NULL}
  BY DEF Call

LEMMA RestingSound ==
  ASSUME NEW pc \in {"idle", "returned"}
  PROVE  Sound(Resting(pc)) /\ Resting(pc).pc = pc /\ Resting(pc).conn = NULL
<1>1. /\ Resting(pc) \in Call /\ Resting(pc).pc = pc
      /\ Resting(pc).conn = NULL
  BY TimeAssumption, BoundAssumption DEF Resting, Call, PC, Ended
<1> QED
  BY <1>1 DEF Sound, InTransit, Attempted, Connected, Exchanging

LEMMA BegunSound ==
  ASSUME NEW tok \in 0..TTL
  PROVE  /\ Sound(Begun(tok)) /\ Begun(tok).pc = "dial"
         /\ Begun(tok).tok = tok /\ Begun(tok).conn = NULL
<1>1. /\ Begun(tok) \in Call /\ Begun(tok).pc = "dial" /\ Begun(tok).try = 1
      /\ Begun(tok).tok = tok /\ Begun(tok).conn = NULL
  BY TimeAssumption, BoundAssumption DEF Begun, Call, PC, Trying
<1> QED
  BY <1>1 DEF Sound, InTransit, Attempted, Connected, Exchanging

\* A call that moves on to wait for the token or its lock.
LEMMA GotoSound ==
  ASSUME NEW c, Sound(c), NEW pc \in {"token", "lock", "idle"}, c.pc \notin Exchanging
  PROVE  /\ Sound([c EXCEPT !.pc = pc]) /\ [c EXCEPT !.pc = pc].pc = pc
         /\ [c EXCEPT !.pc = pc].conn = NULL
<1> DEFINE d == [c EXCEPT !.pc = pc]
<1>1. c \in Call /\ c.conn = NULL
  BY DEF Sound, Connected
<1>2. d \in Call
  BY <1>1, SetField DEF PC, Ended
<1>3. d.pc = pc /\ d.conn = NULL
  BY <1>1 DEF Call
<1> HIDE DEF d
<1>4. Sound(d)
  BY <1>2, <1>3 DEF Sound, InTransit, Attempted, Connected, Exchanging
<1> QED
  BY <1>3, <1>4 DEF d

LEMMA FetchDialSound ==
  ASSUME NEW c, Sound(c), c.pc = "lock"
  PROVE  /\ Sound([c EXCEPT !.pc = "fetchdial", !.left = Timeout])
         /\ [c EXCEPT !.pc = "fetchdial", !.left = Timeout].pc = "fetchdial"
         /\ [c EXCEPT !.pc = "fetchdial", !.left = Timeout].conn = NULL
<1> DEFINE e == [c EXCEPT !.pc = "fetchdial"]
           d == [c EXCEPT !.pc = "fetchdial", !.left = Timeout]
<1>1. c \in Call /\ c.conn = NULL
  BY DEF Sound, Connected, Exchanging
<1>2. d.pc = "fetchdial" /\ d.conn = NULL
  BY <1>1 DEF Call
<1>3. e \in Call /\ d = [e EXCEPT !.left = Timeout]
  BY <1>1, SetField DEF PC, Fetching
<1> HIDE DEF e, d
<1>4. d \in Call
  BY <1>3, SetField, TimeAssumption
<1>5. Sound(d)
  BY <1>2, <1>4 DEF Sound, InTransit, Attempted, Connected, Exchanging
<1> QED
  BY <1>2, <1>5 DEF d

LEMMA TakeSound ==
  ASSUME NEW c, Sound(c), NEW k \in Conn, NEW pc \in {"fetch", "wait"},
         pc = "fetch" => c.pc = "fetchdial", pc = "wait" => c.pc = "dial"
  PROVE  LET d == [c EXCEPT !.pc = pc, !.conn = k]
         IN  Sound(d) /\ d.pc = pc /\ d.conn = k
<1> DEFINE e == [c EXCEPT !.pc = pc]
           d == [c EXCEPT !.pc = pc, !.conn = k]
<1>1. c \in Call
  BY DEF Sound
<1>2. d.pc = pc /\ d.conn = k /\ d.try = c.try
  BY <1>1 DEF Call
<1>3. e \in Call /\ d = [e EXCEPT !.conn = k]
  BY <1>1, SetField DEF PC, Fetching, Trying
<1> HIDE DEF e, d
<1>4. d \in Call
  BY <1>3, SetField
<1>5. Sound(d)
  BY <1>2, <1>4, NullAssumption DEF Sound, InTransit, Attempted, Connected, Exchanging
<1> QED
  BY <1>2, <1>5 DEF d

LEMMA IssueSound ==
  ASSUME NEW c, Sound(c), c.pc = "fetch"
  PROVE  /\ Sound([c EXCEPT !.pc = "fetched", !.tok = TTL])
         /\ [c EXCEPT !.pc = "fetched", !.tok = TTL].pc = "fetched"
         /\ [c EXCEPT !.pc = "fetched", !.tok = TTL].conn = c.conn
<1> DEFINE e == [c EXCEPT !.pc = "fetched"]
           d == [c EXCEPT !.pc = "fetched", !.tok = TTL]
<1>1. c \in Call /\ c.conn # NULL
  BY DEF Sound, Connected, Exchanging
<1>2. d.pc = "fetched" /\ d.tok = TTL /\ d.left = c.left /\ d.conn = c.conn
  BY <1>1 DEF Call
<1>3. e \in Call /\ d = [e EXCEPT !.tok = TTL]
  BY <1>1, SetField DEF PC, Fetching
<1> HIDE DEF e, d
<1>4. d \in Call
  BY <1>3, SetField, TimeAssumption
<1>5. InTransit(d)
  BY <1>1, <1>2, Fields, TimeAssumption DEF InTransit
<1>6. Sound(d)
  BY <1>1, <1>2, <1>4, <1>5 DEF Sound, Attempted, Connected, Exchanging
<1> QED
  BY <1>2, <1>6 DEF d

LEMMA PauseSound ==
  ASSUME NEW c, Sound(c), c.pc \in Trying, c.try < Tries
  PROVE  /\ Sound([c EXCEPT !.pc = "backoff", !.left = 0, !.conn = NULL])
         /\ [c EXCEPT !.pc = "backoff", !.left = 0, !.conn = NULL].pc = "backoff"
         /\ [c EXCEPT !.pc = "backoff", !.left = 0, !.conn = NULL].conn = NULL
<1> DEFINE f == [c EXCEPT !.pc = "backoff"]
           e == [f EXCEPT !.left = 0]
           d == [c EXCEPT !.pc = "backoff", !.left = 0, !.conn = NULL]
<1>1. c \in Call /\ c.try >= 1
  BY DEF Sound, Attempted, Trying
<1>2. d.pc = "backoff" /\ d.conn = NULL /\ d.try = c.try
  BY <1>1 DEF Call
<1>3. f \in Call /\ d = [e EXCEPT !.conn = NULL]
  BY <1>1, SetField DEF PC
<1> HIDE DEF f, d
<1>4. e \in Call
  BY <1>3, SetField, TimeAssumption
<1> HIDE DEF e
<1>5. d \in Call
  BY <1>3, <1>4, SetField
<1>6. Sound(d)
  BY <1>1, <1>2, <1>5 DEF Sound, InTransit, Attempted, Connected, Exchanging
<1> QED
  BY <1>2, <1>6 DEF d

LEMMA RetrySound ==
  ASSUME NEW c, Sound(c), c.pc = "backoff"
  PROVE  LET d == [c EXCEPT !.pc = "dial", !.try = @ + 1, !.left = Timeout]
         IN  Sound(d) /\ d.pc = "dial" /\ d.conn = NULL /\ d.try # 1
<1> DEFINE n == c.try + 1
           f == [c EXCEPT !.pc = "dial"]
           e == [f EXCEPT !.try = n]
           d == [c EXCEPT !.pc = "dial", !.try = @ + 1, !.left = Timeout]
<1>1. c \in Call /\ c.try >= 1 /\ c.try < Tries /\ c.conn = NULL /\ c.try \in 0..Tries
  BY Fields DEF Sound, Attempted, Connected, Exchanging
<1>2. d.pc = "dial" /\ d.conn = NULL /\ d.try = n
  BY <1>1 DEF Call
<1>3. f \in Call /\ d = [e EXCEPT !.left = Timeout]
  BY <1>1, SetField DEF PC, Trying
<1>4. n \in 0..Tries /\ n >= 1 /\ n # 1
  BY <1>1, BoundAssumption
<1> HIDE DEF n, f, d
<1>5. e \in Call
  BY <1>3, <1>4, SetField
<1> HIDE DEF e
<1>6. d \in Call
  BY <1>3, <1>5, SetField, TimeAssumption
<1>7. Sound(d)
  BY <1>2, <1>4, <1>6 DEF Sound, InTransit, Attempted, Connected, Exchanging
<1> QED
  BY <1>2, <1>4, <1>7 DEF d

\* A tick that finds the call's exchange not overdue.
LEMMA OlderSound ==
  ASSUME NEW c, Sound(c), c.pc = "fetched" => c.left > 0
  PROVE  LET d == [c EXCEPT !.left = Less(@), !.tok = Less(@)]
         IN  Sound(d) /\ d.pc = c.pc /\ d.conn = c.conn
<1> DEFINE a == Less(c.left)
           t == Less(c.tok)
           e == [c EXCEPT !.left = a]
           d == [c EXCEPT !.left = Less(@), !.tok = Less(@)]
<1>1. c \in Call /\ c.left \in 0..Timeout /\ c.tok \in 0..TTL
  BY Fields DEF Sound
<1>2. a \in 0..Timeout /\ t \in 0..TTL
  BY <1>1, TimeAssumption DEF Less
<1>3. d.pc = c.pc /\ d.conn = c.conn /\ d.try = c.try /\ d.left = a /\ d.tok = t
  BY <1>1 DEF Call
<1>4. d = [e EXCEPT !.tok = t]
  OBVIOUS
<1>5. c.pc = "fetched" => t + Timeout >= TTL + a
  BY <1>1, TimeAssumption DEF Sound, InTransit, Less
<1> HIDE DEF a, t, d
<1>6. e \in Call
  BY <1>1, <1>2, SetField
<1> HIDE DEF e
<1>7. d \in Call
  BY <1>2, <1>4, <1>6, SetField
<1>8. Sound(d)
  BY <1>3, <1>5, <1>7 DEF Sound, InTransit, Attempted, Connected
<1> QED
  BY <1>3, <1>8 DEF d

-----------------------------------------------------------------------------
(***************************************************************************)
(* The token and its lock.                                                 *)
(***************************************************************************)
LEMMA CallFacts ==
  ASSUME TokenInv, NEW r \in Req
  PROVE  /\ Sound(call[r]) /\ call[r] \in Call
         /\ call[r].pc \in PC /\ call[r].left \in 0..Timeout
         /\ call[r].tok \in 0..TTL /\ call[r].try \in 0..Tries
         /\ call[r].conn \in Conn \cup {NULL}
         /\ (call[r].conn # NULL) <=> (call[r].pc \in Exchanging)
         /\ (lock = r) <=> (call[r].pc \in Fetching)
  BY Fields DEF TokenInv, CallsSound, Sound, Connected, OneHolder

\* A step of r that leaves the token alone keeps the invariant if the lock
\* goes with the fetch.
LEMMA Move ==
  ASSUME TokenInv, NEW r \in Req, NEW c, Sound(c), Become(r, c), UNCHANGED token,
         (lock' = r) <=> (c.pc \in Fetching),
         lock' # r => lock' = NULL \/ lock' = lock,
         lock = r \/ lock = NULL \/ lock' = lock,
         c.pc \in Fetching => ~Fresh
  PROVE  TokenInv'
<1>1. TokenKnown'
  BY DEF TokenInv, TokenKnown
<1>2. \A q \in Req : call'[q] = IF q = r THEN c ELSE call[q]
  BY DEF TokenInv, CallsSound, Become
<1>3. CallsSound'
  BY <1>2 DEF TokenInv, CallsSound, Sound, Become
<1>4. \A q \in Req : (lock' = q) <=> (call'[q].pc \in Fetching)
  <2> SUFFICES ASSUME NEW q \in Req PROVE (lock' = q) <=> (call'[q].pc \in Fetching)
    OBVIOUS
  <2>1. CASE q = r
    BY <2>1, <1>2
  <2>2. CASE q # r
    <3>1. (lock = q) <=> (call[q].pc \in Fetching)
      BY DEF TokenInv, OneHolder
    <3>2. (lock' = q) <=> (lock = q)
      BY <2>2, NullAssumption
    <3> QED BY <2>2, <1>2, <3>1, <3>2
  <2> QED BY <2>1, <2>2
<1>5. OneHolder'
  BY <1>4 DEF TokenInv, OneHolder
<1>6. FetchJustified'
  <2>1. Fresh' = Fresh
    BY DEF Fresh
  <2> QED BY <1>2, <2>1 DEF FetchJustified, TokenInv
<1> QED
  BY <1>1, <1>3, <1>5, <1>6 DEF TokenInv

\* What a step of one call does to the token, besides keeping the
\* invariant: the two action properties. A tick is apart.
StepKeeps(r) ==
  /\ TokenInv'
  /\ token'.left > token.left => token.left <= Margin
  /\ \A q \in Req : q # r => call'[q] = call[q]
  /\ call[r].pc # "dial" /\ call'[r].pc = "dial" /\ call'[r].try = 1 => call'[r].tok > 0

\* The steps that leave the token and the lock alone, and fetch nothing.
LEMMA PlainStep ==
  ASSUME TokenInv, NEW r \in Req, NEW c, Sound(c), Become(r, c),
         UNCHANGED <<token, lock>>,
         call[r].pc \notin Fetching, c.pc \notin Fetching,
         call[r].pc # "dial" /\ c.pc = "dial" /\ c.try = 1 => c.tok > 0
  PROVE  StepKeeps(r)
<1>1. lock # r
  BY CallFacts
<1>2. TokenInv'
  BY <1>1, Move
<1>3. call'[r] = c /\ \A q \in Req : q # r => call'[q] = call[q]
  BY DEF TokenInv, CallsSound, Become
<1> QED
  BY <1>2, <1>3 DEF StepKeeps, TokenInv, TokenKnown

\* The steps of the holder of the lock that keep it.
LEMMA HolderStep ==
  ASSUME TokenInv, NEW r \in Req, NEW c, Sound(c), Become(r, c),
         call[r].pc \in Fetching, c.pc \in Fetching, UNCHANGED <<token, lock>>
  PROVE  StepKeeps(r)
<1>1. lock = r /\ ~Fresh
  BY CallFacts DEF TokenInv, FetchJustified
<1>2. TokenInv'
  BY <1>1, Move
<1>3. call'[r] = c /\ \A q \in Req : q # r => call'[q] = call[q]
  BY DEF Become, TokenInv, CallsSound
<1> QED BY <1>2, <1>3 DEF StepKeeps, TokenInv, TokenKnown, Fetching
-----------------------------------------------------------------------------
(***************************************************************************)
(* The connections.                                                        *)
(***************************************************************************)

\* r's call becomes c, the others stay.
LEMMA OneCall ==
  ASSUME IInv, NEW r \in Req, NEW c, Become(r, c)
  PROVE  \A q \in Req : call'[q] = IF q = r THEN c ELSE call[q]
  BY DEF Become, IInv, TokenInv, CallsSound

LEMMA ConnKept ==
  ASSUME IInv, NEW r \in Req, NEW c, Become(r, c), UNCHANGED <<free, body>>,
         c.conn = call[r].conn, c.pc # "idle"
  PROVE  ConnInv'
<1>1. \A q \in Req : call'[q].conn = call[q].conn /\ (call'[q].pc = "idle" => call[q].pc = "idle")
  BY OneCall
<1>2. OwnConn'
  BY <1>1 DEF IInv, ConnInv, OwnConn
<1>3. FreeConn'
  BY <1>1 DEF IInv, ConnInv, FreeConn
<1>4. BodyServed'
  <2>1. \A k \in Conn : body[k].req \in Req \cup {NULL}
    BY DEF IInv, ConnInv, Body
  <2> QED BY <1>1, <2>1 DEF IInv, ConnInv, BodyServed, At
<1> QED BY <1>2, <1>3, <1>4 DEF IInv, ConnInv

LEMMA ConnTaken ==
  ASSUME IInv, NEW r \in Req, NEW c, Become(r, c), NEW k \in free,
         free' = free \ {k}, UNCHANGED body,
         call[r].conn = NULL, c.conn = k, c.pc # "idle"
  PROVE  ConnInv'
<1>1. \A q \in Req : call'[q] = IF q = r THEN c ELSE call[q]
  BY OneCall
<1>2. k \in Conn /\ body[k] = NoBody /\ \A q \in Req : call[q].conn # k
  BY DEF IInv, ConnInv, FreeConn
<1>3. OwnConn'
  BY <1>1, <1>2 DEF IInv, ConnInv, OwnConn
<1>4. FreeConn'
  BY <1>1, <1>2, NullAssumption DEF IInv, ConnInv, FreeConn
<1>5. BodyServed'
  <2>1. \A j \in Conn : body[j].req \in Req \cup {NULL}
    BY DEF IInv, ConnInv, Body
  <2> QED BY <1>1, <2>1 DEF IInv, ConnInv, BodyServed, At
<1> QED BY <1>3, <1>4, <1>5 DEF IInv, ConnInv

LEMMA ConnReleased ==
  ASSUME IInv, NEW r \in Req, NEW c, Become(r, c), Release(r), UNCHANGED body,
         c.conn = NULL, c.pc # "idle"
  PROVE  ConnInv'
<1>1. \A q \in Req : call'[q] = IF q = r THEN c ELSE call[q]
  BY OneCall
<1>2. call[r].conn \in Conn \cup {NULL}
  BY CallFacts DEF IInv
<1>3. OwnConn'
  BY <1>1 DEF IInv, ConnInv, OwnConn
<1>4. free' \subseteq Conn
  BY <1>2 DEF Release, IInv, ConnInv
<1>5. FreeConn'
  <2> SUFFICES ASSUME NEW k \in Conn
               PROVE  k \in free' <=> (body[k] = NoBody /\ \A q \in Req : call'[q].conn # k)
    BY DEF FreeConn
  <2>1. k \in free <=> (body[k] = NoBody /\ \A q \in Req : call[q].conn # k)
    BY DEF IInv, ConnInv, FreeConn
  <2>2. CASE k = call[r].conn
    <3>1. k # NULL /\ body[k] = NoBody /\ k \in free'
      BY <2>2, NullAssumption DEF IInv, ConnInv, OwnConn, Release
    <3>2. \A q \in Req : call'[q].conn # k
      BY <1>1, <2>2, <3>1 DEF IInv, ConnInv, OwnConn
    <3> QED BY <3>1, <3>2
  <2>3. CASE k # call[r].conn
    <3>1. k \in free' <=> k \in free
      BY <2>3 DEF Release
    <3>2. (\A q \in Req : call'[q].conn # k) <=> (\A q \in Req : call[q].conn # k)
      BY <1>1, <2>3, NullAssumption
    <3> QED BY <2>1, <3>1, <3>2
  <2> QED BY <2>2, <2>3
<1>6. BodyServed'
  <2>1. \A j \in Conn : body[j].req \in Req \cup {NULL}
    BY DEF IInv, ConnInv, Body
  <2> QED BY <1>1, <2>1 DEF IInv, ConnInv, BodyServed, At
<1> QED BY <1>3, <1>4, <1>5, <1>6 DEF IInv, ConnInv

\* The connection passes from the exchange to the body nobody closes.
LEMMA ConnHeld ==
  ASSUME IInv, NEW r \in Req, NEW c, Become(r, c), UNCHANGED free,
         call[r].conn # NULL, c.conn = NULL, c.pc # "idle",
         body' = [body EXCEPT ![call[r].conn] = [req |-> r, left |-> call[r].left]]
  PROVE  ConnInv'
<1> DEFINE k == call[r].conn
           b == [req |-> r, left |-> call[r].left]
<1>1. \A q \in Req : call'[q] = IF q = r THEN c ELSE call[q]
  BY OneCall
<1>2. k \in Conn /\ b \in Body /\ b # NoBody /\ b.req = r
  BY CallFacts, NullAssumption DEF IInv, Body, NoBody
<1>3. \A j \in Conn : body'[j] = IF j = k THEN b ELSE body[j]
  BY DEF IInv, ConnInv
<1>4. body' \in [Conn -> Body]
  BY <1>2, <1>3 DEF IInv, ConnInv
<1>5. \A q \in Req : q # r => call[q].conn # k
  BY DEF IInv, ConnInv, OwnConn
<1>6. \A q \in Req : call[q].conn \in Conn \cup {NULL}
  BY CallFacts DEF IInv
<1>7. \A j \in Conn : body[j].req \in Req \cup {NULL}
  BY DEF IInv, ConnInv, Body
<1>8. k # NULL
  OBVIOUS
<1> HIDE DEF b, k
<1>9. OwnConn'
  <2>1. ASSUME NEW q \in Req, NEW p \in Req, call'[q].conn = call'[p].conn, call'[q].conn # NULL
        PROVE  q = p
    BY <1>1, <2>1 DEF IInv, ConnInv, OwnConn
  <2>2. ASSUME NEW q \in Req, call'[q].conn # NULL
        PROVE  body'[call'[q].conn] = NoBody
    <3>1. q # r /\ call'[q].conn = call[q].conn
      BY <1>1, <2>2
    <3>2. call[q].conn \in Conn /\ call[q].conn # k /\ body[call[q].conn] = NoBody
      BY <1>5, <1>6, <2>2, <3>1 DEF IInv, ConnInv, OwnConn
    <3> QED BY <1>3, <3>1, <3>2
  <2> QED BY <2>1, <2>2 DEF OwnConn
<1>10. FreeConn'
  <2> SUFFICES ASSUME NEW j \in Conn
               PROVE  j \in free <=> (body'[j] = NoBody /\ \A q \in Req : call'[q].conn # j)
    BY DEF FreeConn
  <2>1. j \in free <=> (body[j] = NoBody /\ \A q \in Req : call[q].conn # j)
    BY DEF IInv, ConnInv, FreeConn
  <2>2. CASE j = k
    <3>1. j \notin free
      BY <2>1, <2>2 DEF k
    <3> QED BY <1>2, <1>3, <2>2, <3>1
  <2>3. CASE j # k
    <3>1. (\A q \in Req : call'[q].conn # j) <=> (\A q \in Req : call[q].conn # j)
      BY <1>1, <2>3, NullAssumption DEF k
    <3> QED BY <1>3, <2>1, <2>3, <3>1
  <2> QED BY <2>2, <2>3
<1>11. BodyServed'
  <2> SUFFICES ASSUME NEW j \in Conn
               PROVE  IF body'[j].req = NULL THEN body'[j] = NoBody
                                             ELSE call'[body'[j].req].pc # "idle"
    BY DEF BodyServed, At
  <2>1. CASE j = k
    BY <1>1, <1>2, <1>3, <2>1, NullAssumption
  <2>2. CASE j # k
    BY <1>1, <1>3, <1>7, <2>2 DEF IInv, ConnInv, BodyServed, At
  <2> QED BY <2>1, <2>2
<1> QED BY <1>4, <1>9, <1>10, <1>11 DEF IInv, ConnInv

\* A handler that returns ends what its bodies hold.
LEMMA ConnServed ==
  ASSUME IInv, NEW r \in Req, Served(r)
  PROVE  ConnInv'
<1> DEFINE c == [call[r] EXCEPT !.pc = "idle"]
<1>1. Become(r, c) /\ call[r].pc = "returned"
  BY DEF Served, Goto, At
<1>2. c.pc = "idle" /\ c.conn = NULL /\ call[r].conn = NULL
  BY <1>1, CallFacts, GotoSound DEF IInv, Exchanging
<1> HIDE DEF c
<1>3. \A q \in Req : call'[q] = IF q = r THEN c ELSE call[q]
  BY <1>1, OneCall
<1>4. \A q \in Req : call'[q].conn = call[q].conn
  BY <1>2, <1>3
<1>5. \A k \in Conn : /\ body'[k] = IF body[k].req = r THEN NoBody ELSE body[k]
                      /\ k \in free' <=> k \in free \/ body[k].req = r
  BY DEF Served
<1>6. NoBody \in Body /\ NoBody.req = NULL
  BY TimeAssumption DEF NoBody, Body
<1>7. body' \in [Conn -> Body] /\ free' \subseteq Conn
  BY <1>6 DEF Served, IInv, ConnInv
<1>8. OwnConn'
  <2>1. ASSUME NEW q \in Req, call'[q].conn # NULL PROVE body'[call'[q].conn] = NoBody
    <3>1. call[q].conn \in Conn /\ body[call[q].conn] = NoBody
      BY <1>4, <2>1, CallFacts DEF IInv, ConnInv, OwnConn
    <3> QED BY <1>4, <1>5, <3>1
  <2>2. \A q, p \in Req : call'[q].conn = call'[p].conn /\ call'[q].conn # NULL => q = p
    BY <1>4 DEF IInv, ConnInv, OwnConn
  <2> QED BY <2>1, <2>2 DEF OwnConn
<1>9. FreeConn'
  <2> SUFFICES ASSUME NEW k \in Conn
               PROVE  k \in free' <=> (body'[k] = NoBody /\ \A q \in Req : call[q].conn # k)
    BY <1>4 DEF FreeConn
  <2>1. k \in free <=> (body[k] = NoBody /\ \A q \in Req : call[q].conn # k)
    BY DEF IInv, ConnInv, FreeConn
  <2>2. CASE body[k].req = r
    <3>1. body[k] # NoBody
      BY <1>6, <2>2, NullAssumption
    <3>2. \A q \in Req : call[q].conn # k
      BY <3>1, NullAssumption DEF IInv, ConnInv, OwnConn
    <3> QED BY <1>5, <2>2, <3>2
  <2>3. CASE body[k].req # r
    BY <1>5, <2>1, <2>3
  <2> QED BY <2>2, <2>3
<1>10. BodyServed'
  <2> SUFFICES ASSUME NEW k \in Conn
               PROVE  IF body'[k].req = NULL THEN body'[k] = NoBody
                                             ELSE call'[body'[k].req].pc # "idle"
    BY DEF BodyServed, At
  <2>1. CASE body[k].req = r
    BY <1>5, <1>6, <2>1
  <2>2. CASE body[k].req # r
    <3>1. body[k].req \in Req \cup {NULL}
      BY DEF IInv, ConnInv, Body
    <3> QED BY <1>3, <1>5, <2>2, <3>1 DEF IInv, ConnInv, BodyServed, At
  <2> QED BY <2>1, <2>2
<1> QED BY <1>7, <1>8, <1>9, <1>10 DEF IInv, ConnInv

LEMMA ConnExpired ==
  ASSUME IInv, NEW k \in Conn, Expire(k)
  PROVE  ConnInv'
<1>1. /\ UNCHANGED call /\ free' = free \cup {k} /\ body[k].req # NULL
      /\ \A j \in Conn : body'[j] = IF j = k THEN NoBody ELSE body[j]
  BY DEF Expire, Late, IInv, ConnInv
<1>2. NoBody \in Body /\ NoBody.req = NULL
  BY TimeAssumption DEF NoBody, Body
<1>3. body' \in [Conn -> Body] /\ free' \subseteq Conn
  BY <1>1, <1>2 DEF Expire, IInv, ConnInv
<1>4. \A q \in Req : call[q].conn # k
  BY <1>1, <1>2, NullAssumption DEF IInv, ConnInv, OwnConn
<1>5. OwnConn'
  <2>1. \A q \in Req : call[q].conn \in Conn \cup {NULL}
    BY CallFacts DEF IInv
  <2> QED BY <1>1, <1>4, <2>1 DEF IInv, ConnInv, OwnConn
<1>6. FreeConn'
  BY <1>1, <1>4 DEF IInv, ConnInv, FreeConn
<1>7. BodyServed'
  BY <1>1, <1>2 DEF IInv, ConnInv, BodyServed, At
<1> QED BY <1>3, <1>5, <1>6, <1>7 DEF IInv, ConnInv
-----------------------------------------------------------------------------
(***************************************************************************)
(* The actions.                                                            *)
(***************************************************************************)

\* A step of one call keeps both halves of the invariant.
Keeps(r) == StepKeeps(r) /\ ConnInv'

LEMMA OverStep ==
  ASSUME IInv, NEW r \in Req, Become(r, Over), Release(r), UNCHANGED <<token, lock, body>>,
         call[r].pc \notin Fetching
  PROVE  Keeps(r)
<1>1. Sound(Over) /\ Over.pc = "returned" /\ Over.conn = NULL
  BY RestingSound DEF Over
<1>2. StepKeeps(r)
  BY <1>1, PlainStep DEF IInv, Fetching
<1>3. ConnInv'
  BY <1>1, ConnReleased
<1> QED BY <1>2, <1>3 DEF Keeps

\* A call begins with a token the client believes in for longer than the
\* margin.
LEMMA BeginFresh ==
  ASSUME IInv, NEW r \in Req, Fresh, Become(r, Begun(token.real)),
         UNCHANGED <<token, lock, free, body>>, call[r].pc \in {"token", "lock"}
  PROVE  Keeps(r)
<1>1. token.real \in 0..TTL /\ token.real > 0
  BY TimeAssumption DEF IInv, TokenInv, TokenKnown, Fresh
<1>2. /\ Sound(Begun(token.real)) /\ Begun(token.real).pc = "dial"
      /\ Begun(token.real).tok = token.real /\ Begun(token.real).conn = NULL
  BY <1>1, BegunSound
<1>3. StepKeeps(r)
  BY <1>1, <1>2, PlainStep DEF IInv, Fetching
<1>4. call[r].conn = NULL
  BY CallFacts DEF IInv, Exchanging
<1>5. ConnInv'
  BY <1>2, <1>4, ConnKept
<1> QED BY <1>3, <1>5 DEF Keeps

LEMMA GotoStep ==
  ASSUME IInv, NEW r \in Req, NEW pc \in {"token", "lock"}, Goto(r, pc),
         UNCHANGED <<token, lock, free, body>>,
         call[r].pc \in Ended \cup {"token"}
  PROVE  Keeps(r)
<1> DEFINE c == [call[r] EXCEPT !.pc = pc]
<1>1. Sound(call[r]) /\ call[r].conn = NULL /\ call[r].pc \notin Exchanging
  BY CallFacts DEF IInv, Exchanging, Ended
<1>2. Sound(c) /\ c.pc = pc /\ c.conn = NULL
  BY <1>1, GotoSound
<1>3. Become(r, c)
  BY DEF Goto
<1> HIDE DEF c
<1>4. StepKeeps(r)
  BY <1>2, <1>3, PlainStep DEF IInv, Fetching, Ended
<1>5. ConnInv'
  BY <1>1, <1>2, <1>3, ConnKept
<1> QED BY <1>4, <1>5 DEF Keeps

LEMMA BeginKeeps == ASSUME IInv, NEW r \in Req, Begin(r) PROVE Keeps(r)
  BY GotoStep DEF Begin

LEMMA ServedKeeps == ASSUME IInv, NEW r \in Req, Served(r) PROVE Keeps(r)
<1> DEFINE c == [call[r] EXCEPT !.pc = "idle"]
<1>1. Become(r, c) /\ call[r].pc = "returned" /\ UNCHANGED <<token, lock>>
  BY DEF Served, Goto, At
<1>2. Sound(c) /\ c.pc = "idle"
  BY <1>1, CallFacts, GotoSound DEF IInv, Exchanging
<1> HIDE DEF c
<1>3. StepKeeps(r)
  BY <1>1, <1>2, PlainStep DEF IInv, Fetching
<1> QED BY <1>3, ConnServed DEF Keeps

LEMMA ReadTokenKeeps == ASSUME IInv, NEW r \in Req, ReadToken(r) PROVE Keeps(r)
<1>1. CASE Fresh
  BY <1>1, BeginFresh DEF ReadToken, At
<1>2. CASE ~Fresh
  BY <1>2, GotoStep DEF ReadToken, At
<1> QED BY <1>1, <1>2

LEMMA LockTokenKeeps == ASSUME IInv, NEW r \in Req, LockToken(r) PROVE Keeps(r)
<1>1. CASE Fresh
  BY <1>1, BeginFresh DEF LockToken, At
<1>2. CASE ~Fresh
  <2> DEFINE c == [call[r] EXCEPT !.pc = "fetchdial", !.left = Timeout]
  <2>1. /\ Become(r, c) /\ lock = NULL /\ lock' = r /\ call[r].pc = "lock"
        /\ UNCHANGED <<token, free, body>>
    BY <1>2 DEF LockToken, At
  <2>2. Sound(c) /\ c.pc = "fetchdial" /\ c.conn = NULL /\ call[r].conn = NULL
    BY <2>1, CallFacts, FetchDialSound DEF IInv, Exchanging
  <2> HIDE DEF c
  <2>3. TokenInv'
    BY <1>2, <2>1, <2>2, Move, NullAssumption DEF IInv, Fetching
  <2>4. StepKeeps(r)
    BY <2>1, <2>2, <2>3, OneCall DEF StepKeeps, IInv, TokenInv, TokenKnown
  <2>5. ConnInv'
    BY <2>1, <2>2, ConnKept
  <2> QED BY <2>4, <2>5 DEF Keeps
<1> QED BY <1>1, <1>2

LEMMA FetchDialKeeps == ASSUME IInv, NEW r \in Req, FetchDial(r) PROVE Keeps(r)
<1>1. PICK k \in free : /\ free' = free \ {k}
                        /\ Become(r, [call[r] EXCEPT !.pc = "fetch", !.conn = k])
  BY DEF FetchDial, Take
<1> DEFINE c == [call[r] EXCEPT !.pc = "fetch", !.conn = k]
<1>2. call[r].pc = "fetchdial" /\ call[r].conn = NULL /\ k \in Conn
  BY CallFacts DEF FetchDial, At, IInv, ConnInv, Exchanging
<1>3. Sound(c) /\ c.pc = "fetch" /\ c.conn = k
  <2>1. Sound(call[r])
    BY CallFacts DEF IInv
  <2>2. \A x, y : Sound(x) /\ y \in Conn /\ x.pc = "fetchdial"
          => LET d == [x EXCEPT !.pc = "fetch", !.conn = y]
             IN  Sound(d) /\ d.pc = "fetch" /\ d.conn = y
    BY TakeSound
  <2> QED BY <1>2, <2>1, <2>2
<1>4. Become(r, c)
  BY <1>1
<1> HIDE DEF c
<1>5. StepKeeps(r)
  BY <1>2, <1>3, <1>4, HolderStep DEF FetchDial, IInv, Fetching
<1>6. ConnInv'
  BY <1>1, <1>2, <1>3, <1>4, ConnTaken DEF FetchDial
<1> QED BY <1>5, <1>6 DEF Keeps

LEMMA KcIssueKeeps == ASSUME IInv, NEW r \in Req, KcIssue(r) PROVE Keeps(r)
<1> DEFINE c == [call[r] EXCEPT !.pc = "fetched", !.tok = TTL]
<1>1. Become(r, c) /\ call[r].pc = "fetch" /\ UNCHANGED <<token, lock, free, body>>
  BY DEF KcIssue, At
<1>2. Sound(c) /\ c.pc = "fetched" /\ c.conn = call[r].conn
  BY <1>1, CallFacts, IssueSound DEF IInv
<1> HIDE DEF c
<1>3. StepKeeps(r)
  BY <1>1, <1>2, HolderStep DEF IInv, Fetching
<1>4. ConnInv'
  BY <1>1, <1>2, ConnKept
<1> QED BY <1>3, <1>4 DEF Keeps

LEMMA StoreTokenKeeps == ASSUME IInv, NEW r \in Req, StoreToken(r) PROVE Keeps(r)
<1> DEFINE c == Begun(call[r].tok)
<1>1. /\ call[r].pc = "fetched" /\ token' = [left |-> TTL, real |-> call[r].tok]
      /\ lock' = NULL /\ Become(r, c) /\ Release(r) /\ UNCHANGED body
  BY DEF StoreToken, At
<1>2. Sound(c) /\ c.pc = "dial" /\ c.tok = call[r].tok /\ c.conn = NULL
  BY CallFacts, BegunSound DEF IInv
<1>3. /\ call[r].tok + Timeout >= TTL /\ call[r].tok > 0 /\ call[r].tok \in 0..TTL
  BY <1>1, CallFacts, TimeAssumption DEF IInv, Sound, InTransit
<1>4. lock = r /\ token.left <= Margin
  BY <1>1, CallFacts, TimeAssumption
  DEF IInv, TokenInv, FetchJustified, Fresh, Fetching, TokenKnown
<1> HIDE DEF c
<1>5. TokenKnown'
  BY <1>1, <1>3, TimeAssumption DEF TokenKnown
<1>6. \A q \in Req : call'[q] = IF q = r THEN c ELSE call[q]
  BY <1>1, OneCall
<1>7. CallsSound'
  BY <1>1, <1>2, <1>6 DEF Become, IInv, TokenInv, CallsSound, Sound
<1>8. \A q \in Req : call'[q].pc \notin Fetching
  BY <1>2, <1>4, <1>6 DEF IInv, TokenInv, OneHolder, Fetching
<1>9. OneHolder' /\ FetchJustified'
  BY <1>1, <1>8, NullAssumption DEF OneHolder, FetchJustified
<1>10. StepKeeps(r)
  BY <1>2, <1>3, <1>4, <1>5, <1>6, <1>7, <1>9 DEF StepKeeps, TokenInv
<1>11. ConnInv'
  BY <1>1, <1>2, ConnReleased
<1> QED BY <1>10, <1>11 DEF Keeps

LEMMA FetchFailsKeeps == ASSUME IInv, NEW r \in Req, FetchFails(r) PROVE Keeps(r)
<1>1. Sound(Over) /\ Over.pc = "returned" /\ Over.conn = NULL
  BY RestingSound DEF Over
<1>2. /\ lock = r /\ lock' = NULL /\ UNCHANGED <<token, body>>
      /\ Become(r, Over) /\ Release(r)
  BY CallFacts DEF FetchFails, IInv
<1>3. TokenInv'
  BY <1>1, <1>2, Move, NullAssumption DEF IInv, Fetching
<1>4. StepKeeps(r)
  BY <1>1, <1>2, <1>3, OneCall DEF StepKeeps, IInv, TokenInv, TokenKnown
<1>5. ConnInv'
  BY <1>1, <1>2, ConnReleased
<1> QED BY <1>4, <1>5 DEF Keeps
-----------------------------------------------------------------------------
LEMMA DialKeeps == ASSUME IInv, NEW r \in Req, Dial(r) PROVE Keeps(r)
<1>1. PICK k \in free : /\ free' = free \ {k}
                        /\ Become(r, [call[r] EXCEPT !.pc = "wait", !.conn = k])
  BY DEF Dial, Take
<1> DEFINE c == [call[r] EXCEPT !.pc = "wait", !.conn = k]
<1>2. call[r].pc = "dial" /\ call[r].conn = NULL /\ k \in Conn
  BY CallFacts DEF Dial, At, IInv, ConnInv, Exchanging
<1>3. Sound(c) /\ c.pc = "wait" /\ c.conn = k
  <2>1. Sound(call[r])
    BY CallFacts DEF IInv
  <2>2. \A x, y : Sound(x) /\ y \in Conn /\ x.pc = "dial"
          => LET d == [x EXCEPT !.pc = "wait", !.conn = y]
             IN  Sound(d) /\ d.pc = "wait" /\ d.conn = y
    BY TakeSound
  <2> QED BY <1>2, <2>1, <2>2
<1>4. Become(r, c)
  BY <1>1
<1> HIDE DEF c
<1>5. StepKeeps(r)
  BY <1>2, <1>3, <1>4, PlainStep DEF Dial, IInv, Fetching
<1>6. ConnInv'
  BY <1>1, <1>2, <1>3, <1>4, ConnTaken DEF Dial
<1> QED BY <1>5, <1>6 DEF Keeps

LEMMA AnsweredKeeps == ASSUME IInv, NEW r \in Req, Answered(r) PROVE Keeps(r)
  BY OverStep DEF Answered, At, Fetching

\* What Pause does, whatever becomes of the connection.
LEMMA PauseStep ==
  ASSUME IInv, NEW r \in Req, Pause(r), call[r].pc \in Trying, call[r].try < Tries,
         UNCHANGED <<token, lock>>
  PROVE  /\ StepKeeps(r)
         /\ \E c : Become(r, c) /\ c.conn = NULL /\ c.pc = "backoff"
<1> DEFINE c == [call[r] EXCEPT !.pc = "backoff", !.left = 0, !.conn = NULL]
<1>1. Sound(c) /\ c.pc = "backoff" /\ c.conn = NULL
  BY CallFacts, PauseSound DEF IInv
<1>2. Become(r, c)
  BY DEF Pause
<1> HIDE DEF c
<1>3. StepKeeps(r)
  BY <1>1, <1>2, PlainStep DEF IInv, Fetching, Trying
<1> QED BY <1>1, <1>2, <1>3

LEMMA Failed5xxKeeps == ASSUME IInv, NEW r \in Req, Failed5xx(r) PROVE Keeps(r)
<1>1. /\ call[r].pc = "wait" /\ call[r].try < Tries /\ Pause(r)
      /\ UNCHANGED <<token, lock>>
  BY DEF Failed5xx, At
<1>2. StepKeeps(r) /\ \E c : Become(r, c) /\ c.conn = NULL /\ c.pc = "backoff"
  BY <1>1, PauseStep DEF Trying
<1>3. PICK c : Become(r, c) /\ c.conn = NULL /\ c.pc = "backoff"
  BY <1>2
<1>4. call[r].conn # NULL
  BY <1>1, CallFacts DEF IInv, Exchanging
<1>5. ConnInv'
  <2>1. CASE Release(r) /\ UNCHANGED body
    BY <1>3, <2>1, ConnReleased
  <2>2. CASE /\ body' = [body EXCEPT ![call[r].conn] = [req |-> r, left |-> call[r].left]]
             /\ UNCHANGED free
    BY <1>3, <1>4, <2>2, ConnHeld
  <2> QED BY <2>1, <2>2 DEF Failed5xx
<1> QED BY <1>2, <1>5 DEF Keeps

LEMMA NoAnswerKeeps == ASSUME IInv, NEW r \in Req, NoAnswer(r) PROVE Keeps(r)
<1>1. CASE call[r].try < Tries
  <2>1. Pause(r) /\ Release(r) /\ call[r].pc \in Trying /\ UNCHANGED <<token, lock, body>>
    BY <1>1 DEF NoAnswer
  <2>2. StepKeeps(r) /\ \E c : Become(r, c) /\ c.conn = NULL /\ c.pc = "backoff"
    BY <1>1, <2>1, PauseStep
  <2>3. ConnInv'
    BY <2>1, <2>2, ConnReleased
  <2> QED BY <2>2, <2>3 DEF Keeps
<1>2. CASE ~(call[r].try < Tries)
  BY <1>2, OverStep DEF NoAnswer, Trying, Fetching
<1> QED BY <1>1, <1>2

LEMMA RetryKeeps == ASSUME IInv, NEW r \in Req, Retry(r) PROVE Keeps(r)
<1> DEFINE c == [call[r] EXCEPT !.pc = "dial", !.try = @ + 1, !.left = Timeout]
<1>1. Become(r, c) /\ call[r].pc = "backoff" /\ UNCHANGED <<token, lock, free, body>>
  BY DEF Retry, At
<1>2. Sound(c) /\ c.pc = "dial" /\ c.conn = NULL /\ c.try # 1
  BY <1>1, CallFacts, RetrySound DEF IInv
<1> HIDE DEF c
<1>3. call[r].conn = NULL
  BY <1>1, CallFacts DEF IInv, Exchanging
<1>4. StepKeeps(r)
  BY <1>1, <1>2, PlainStep DEF IInv, Fetching
<1>5. ConnInv'
  BY <1>1, <1>2, <1>3, ConnKept
<1> QED BY <1>4, <1>5 DEF Keeps

LEMMA ExpireKeeps ==
  ASSUME IInv, NEW k \in Conn, Expire(k)
  PROVE  IInv' /\ UNCHANGED <<token, call>>
<1>1. UNCHANGED <<token, lock, call>>
  BY DEF Expire
<1>2. TokenInv'
  BY <1>1 DEF IInv, TokenInv, TokenKnown, CallsSound, OneHolder, FetchJustified, Fresh
<1> QED BY <1>1, <1>2, ConnExpired DEF IInv
-----------------------------------------------------------------------------
(***************************************************************************)
(* Time.                                                                   *)
(***************************************************************************)
LEMMA TickKeeps ==
  ASSUME IInv, Tick
  PROVE  /\ IInv'
         /\ ~(token'.left > token.left)
         /\ \A r \in Req : call'[r].pc = call[r].pc
<1>1. \A r \in Req : call[r].pc = "fetched" => call[r].left > 0
  BY DEF Tick, Pending, Fetching
<1>2. \A r \in Req : call'[r] = [call[r] EXCEPT !.left = Less(@), !.tok = Less(@)]
  BY DEF Tick
<1>3. \A r \in Req : /\ Sound(call'[r]) /\ call'[r].pc = call[r].pc
                     /\ call'[r].conn = call[r].conn
  <2> SUFFICES ASSUME NEW r \in Req
               PROVE  /\ Sound(call'[r]) /\ call'[r].pc = call[r].pc
                      /\ call'[r].conn = call[r].conn
    OBVIOUS
  <2>1. Sound(call[r]) /\ (call[r].pc = "fetched" => call[r].left > 0)
    BY <1>1, CallFacts DEF IInv
  <2>2. call'[r] = [call[r] EXCEPT !.left = Less(@), !.tok = Less(@)]
    BY <1>2
  <2> QED BY <2>1, <2>2, OlderSound
<1>4. CallsSound'
  BY <1>3 DEF Tick, CallsSound, Sound
<1>5. /\ TokenKnown' /\ token'.left \in 0..TTL
      /\ token'.left <= token.left /\ token.left \in 0..TTL
  <2>1. /\ token.left \in 0..TTL /\ token.real \in 0..TTL
        /\ token.real + Timeout >= token.left
    BY DEF IInv, TokenInv, TokenKnown
  <2>2. token' = [left |-> Less(token.left), real |-> Less(token.real)]
    BY DEF Tick
  <2>3. /\ Less(token.left) \in 0..TTL /\ Less(token.real) \in 0..TTL
        /\ Less(token.left) <= token.left
        /\ Less(token.real) + Timeout >= Less(token.left)
    BY <2>1, TimeAssumption DEF Less
  <2> QED BY <2>1, <2>2, <2>3 DEF TokenKnown
<1>6. OneHolder'
  BY <1>3 DEF IInv, TokenInv, OneHolder, Tick
<1>7. FetchJustified'
  BY <1>3, <1>5, TimeAssumption DEF IInv, TokenInv, FetchJustified, Fresh
<1>8. \A k \in Conn : /\ body[k] \in Body /\ body'[k] = [body[k] EXCEPT !.left = Less(@)]
  BY DEF Tick, IInv, ConnInv
<1>9. ASSUME NEW b \in Body, NEW d, d = [b EXCEPT !.left = Less(@)]
      PROVE  d \in Body /\ d.req = b.req /\ (b = NoBody => d = NoBody)
  <2>1. b.left \in 0..Timeout /\ Less(b.left) \in 0..Timeout
    BY TimeAssumption DEF Body, Less
  <2>2. d \in Body /\ d.req = b.req /\ d.left = Less(b.left)
    BY <1>9, <2>1 DEF Body
  <2>3. ASSUME b = NoBody PROVE d = NoBody
    BY <2>2, <2>3 DEF NoBody, Less, Body
  <2> QED BY <2>2, <2>3
<1>10. \A k \in Conn : /\ body'[k] \in Body /\ body'[k].req = body[k].req
                       /\ body[k] = NoBody => body'[k] = NoBody
  BY <1>8, <1>9
<1>11. \A k \in Conn : body'[k] = NoBody <=> body[k] = NoBody
  BY <1>10 DEF IInv, ConnInv, BodyServed, NoBody
<1>12. OwnConn'
  BY <1>3, <1>11, CallFacts DEF IInv, ConnInv, OwnConn
<1>13. FreeConn'
  <2>1. free' = free
    BY DEF Tick
  <2> QED BY <1>3, <1>11, <2>1 DEF IInv, ConnInv, FreeConn
<1>14. BodyServed'
  <2>1. \A k \in Conn : body[k].req \in Req \cup {NULL}
    BY <1>8 DEF Body
  <2> QED BY <1>3, <1>10, <2>1 DEF IInv, ConnInv, BodyServed, At
<1>15. free' \subseteq Conn /\ body' \in [Conn -> Body]
  BY <1>10 DEF Tick, IInv, ConnInv
<1> QED
  BY <1>3, <1>4, <1>5, <1>6, <1>7, <1>12, <1>13, <1>14, <1>15 DEF IInv, TokenInv, ConnInv
-----------------------------------------------------------------------------
LEMMA InitIInv == Init => IInv
<1> SUFFICES ASSUME Init PROVE IInv
  OBVIOUS
<1>1. \A r \in Req : call[r] = Resting("idle")
  BY DEF Init
<1>2. /\ Sound(Resting("idle")) /\ Resting("idle").pc = "idle"
      /\ Resting("idle").conn = NULL
  BY RestingSound
<1>3. CallsSound
  BY <1>1, <1>2 DEF Init, CallsSound, Sound
<1>4. OneHolder /\ FetchJustified
  BY <1>1, <1>2, NullAssumption DEF Init, OneHolder, FetchJustified, Fetching
<1>5. TokenKnown
  BY TimeAssumption DEF Init, TokenKnown
<1>6. NoBody \in Body /\ NoBody.req = NULL
  BY TimeAssumption DEF NoBody, Body
<1>7. free \subseteq Conn /\ body \in [Conn -> Body]
  BY <1>6 DEF Init
<1>8. OwnConn /\ FreeConn /\ BodyServed
  BY <1>1, <1>2, <1>6, NullAssumption DEF Init, OwnConn, FreeConn, BodyServed
<1> QED BY <1>3, <1>4, <1>5, <1>7, <1>8 DEF IInv, TokenInv, ConnInv

LEMMA AdvanceKeeps ==
  ASSUME IInv, NEW r \in Req, Begin(r) \/ Served(r) \/ Advance(r)
  PROVE  Keeps(r)
<1>1. CASE Begin(r) \/ Served(r) \/ ReadToken(r) \/ LockToken(r)
  BY <1>1, BeginKeeps, ServedKeeps, ReadTokenKeeps, LockTokenKeeps
<1>2. CASE Fetch(r)
  BY <1>2, FetchDialKeeps, KcIssueKeeps, StoreTokenKeeps, FetchFailsKeeps DEF Fetch
<1>3. CASE Attempt(r)
  BY <1>3, DialKeeps, AnsweredKeeps, Failed5xxKeeps, NoAnswerKeeps, RetryKeeps DEF Attempt
<1> QED BY <1>1, <1>2, <1>3 DEF Advance

\* What the two action properties say of one step.
FetchJustifiedStep == token'.left > token.left => token.left <= Margin
FreshStart ==
  \A r \in Req : call[r].pc # "dial" /\ call'[r].pc = "dial" /\ call'[r].try = 1
    => call'[r].tok > 0

LEMMA NextKeeps ==
  ASSUME IInv, [Next]_vars
  PROVE  IInv' /\ FetchJustifiedStep /\ FreshStart
<1>1. ASSUME NEW r \in Req, Begin(r) \/ Served(r) \/ Advance(r)
      PROVE  IInv' /\ FetchJustifiedStep /\ FreshStart
  BY <1>1, AdvanceKeeps DEF Keeps, StepKeeps, FetchJustifiedStep, FreshStart, IInv
<1>2. token.left \in Nat
  BY TimeAssumption DEF IInv, TokenInv, TokenKnown
<1>3. ASSUME NEW k \in Conn, Expire(k)
      PROVE  IInv' /\ FetchJustifiedStep /\ FreshStart
  BY <1>2, <1>3, ExpireKeeps DEF FetchJustifiedStep, FreshStart
<1>4. CASE Tick
  BY <1>4, TickKeeps DEF FetchJustifiedStep, FreshStart
<1>5. CASE UNCHANGED vars
  <2>1. UNCHANGED <<token, lock, free, body, call>>
    BY <1>5 DEF vars
  <2>2. TokenInv'
    BY <2>1 DEF IInv, TokenInv, TokenKnown, CallsSound, OneHolder, FetchJustified, Fresh
  <2>3. ConnInv'
    BY <2>1 DEF IInv, ConnInv, OwnConn, FreeConn, BodyServed, At
  <2> QED BY <1>2, <2>1, <2>2, <2>3 DEF IInv, FetchJustifiedStep, FreshStart
<1> QED BY <1>1, <1>3, <1>4, <1>5 DEF Next
-----------------------------------------------------------------------------
\* The invariant behind the theorems: one holder of the lock, who has a
\* reason to fetch (ensureAdminToken, client.go:86), and one owner for every
\* connection (doAdminRequest, client.go:177).
THEOREM ClientInvariant == Spec => []IInv
<1>1. IInv /\ [Next]_vars => IInv'
  BY NextKeeps
<1> QED
  BY InitIInv, <1>1, PTL DEF Spec

\* Every variable keeps its type, and the write lock is held exactly while
\* its holder fetches: it is not kept on any error path (client.go:86-98).
THEOREM TypeCorrect == Spec => []TypeOK
<1>1. IInv => TypeOK
  BY DEF IInv, TokenInv, TokenKnown, CallsSound, OneHolder, ConnInv, TypeOK
<1> QED
  BY ClientInvariant, <1>1, PTL

\* Whatever fails, at any of the attempts of any number of requests, no
\* connection of the transport is lost and none is used twice at a time
\* (doAdminRequest, client.go:177-193).
THEOREM ConnectionsAccountedHolds == Spec => []ConnectionsAccounted
<1>1. IInv => ConnectionsAccounted
  <2> SUFFICES ASSUME IInv PROVE ConnectionsAccounted
    OBVIOUS
  <2>1. \A r \in Req : (call[r].conn # NULL) <=> (call[r].pc \in Exchanging)
    BY CallFacts DEF IInv
  <2>2. \A c \in Conn : body[c].req # NULL => ~At(body[c].req, "idle")
    BY DEF IInv, ConnInv, BodyServed
  <2> QED
    BY <2>1, <2>2 DEF IInv, ConnInv, OwnConn, FreeConn, ConnectionsAccounted
<1> QED
  BY ClientInvariant, <1>1, PTL

\* However many requests find the token stale, it is replaced only when it
\* is stale: the second look under the lock is what makes them share a fetch.
THEOREM FetchOnlyWhenStaleHolds == Spec => FetchOnlyWhenStale
<1>1. IInv /\ [Next]_vars => [FetchJustifiedStep]_vars
  BY NextKeeps
<1>2. Spec => [][FetchJustifiedStep]_vars
  BY ClientInvariant, <1>1, PTL DEF Spec
<1> QED
  BY <1>2 DEF FetchOnlyWhenStale, FetchJustifiedStep

\* A call begins with a token Keycloak still accepts, for any lifetime of
\* tokens longer than the client's timeout, and any margin not below it.
THEOREM StartsFreshHolds == Spec => StartsFresh
<1>1. IInv /\ [Next]_vars => [FreshStart]_vars
  BY NextKeeps
<1>2. Spec => [][FreshStart]_vars
  BY ClientInvariant, <1>1, PTL DEF Spec
<1> QED
  BY <1>2 DEF StartsFresh, FreshStart
=============================================================================

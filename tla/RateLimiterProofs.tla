-------------------------- MODULE RateLimiterProofs --------------------------
(***************************************************************************)
(* A table of buckets that is made once keeps every address to its budget, *)
(* if a bucket is full before it may be dropped: the fault of the limiter  *)
(* is where it is constructed, not how it counts.                          *)
(***************************************************************************)
EXTENDS RateLimiter, TLAPS

Bucket == [tokens : Nat, idle : Nat]

\* A bucket that was idle for a while has refilled for as long; what the
\* table forgets, or never had, is a full bucket.
BucketsCount ==
  \A ip \in IP :
    IF limiters[ip] = NULL THEN budget[ip] = Burst
    ELSE /\ limiters[ip].tokens <= budget[ip]
         /\ limiters[ip].idle <= budget[ip] \/ budget[ip] = Burst

Inv ==
  /\ limiters \in [IP -> Bucket \cup {NULL}]
  /\ budget \in [IP -> 0..Burst]
  /\ BucketsCount

\* The middleware constructed once; a window of five times Stale or less.
Once ==
  /\ ~PerMatch
  /\ Burst \in Nat
  /\ Stale \in Nat
  /\ Burst <= Stale + 1
  /\ NULL \notin Bucket

LEMMA InitInv == ASSUME Once, Init PROVE Inv
  BY DEF Once, Init, Inv, BucketsCount

LEMMA ServeInv == ASSUME Once, Inv, NEW ip \in IP, Serve(ip) PROVE Inv'
<1> DEFINE b == Found(ip)
           taken == IF b.tokens > 0 THEN 1 ELSE 0
           c == [tokens |-> b.tokens - taken, idle |-> 0]
<1>1. /\ limiters' = [limiters EXCEPT ![ip] = c]
      /\ budget' = [budget EXCEPT ![ip] = @ - taken]
  BY DEF Serve, Once
<1>2. b \in Bucket /\ b.tokens <= budget[ip]
  <2>1. CASE limiters[ip] = NULL
    BY <2>1 DEF Found, Full, Inv, Once, Bucket, BucketsCount
  <2>2. CASE limiters[ip] # NULL
    BY <2>2 DEF Found, Inv, BucketsCount
  <2> QED BY <2>1, <2>2
<1>3. budget[ip] \in 0..Burst /\ b.tokens \in Nat
  BY <1>2 DEF Inv, Bucket
<1>4. budget[ip] - taken \in 0..Burst /\ b.tokens - taken \in Nat
  BY <1>2, <1>3 DEF Once
<1>5. c \in Bucket /\ c # NULL /\ c.tokens <= budget[ip] - taken /\ c.idle <= budget[ip] - taken
  BY <1>2, <1>3, <1>4 DEF Bucket, Once
<1> HIDE DEF b, taken, c
<1> QED
  BY <1>1, <1>4, <1>5 DEF Inv, BucketsCount

LEMMA SweepInv == ASSUME Once, Inv, Sweep PROVE Inv'
<1>1. ASSUME NEW ip \in IP, limiters[ip] # NULL, limiters[ip].idle > Stale
      PROVE  budget[ip] = Burst
  BY <1>1 DEF Once, Inv, BucketsCount, Bucket
<1> QED
  BY <1>1 DEF Sweep, Inv, BucketsCount

LEMMA TickInv == ASSUME Once, Inv, Tick PROVE Inv'
<1> DEFINE Aged(l) == [tokens |-> Fill(l.tokens),
                       idle |-> IF l.idle > Stale THEN l.idle ELSE l.idle + 1]
<1>1. /\ limiters' = [ip \in IP |-> IF limiters[ip] = NULL THEN NULL ELSE Aged(limiters[ip])]
      /\ budget' = [ip \in IP |-> Fill(budget[ip])]
  BY DEF Tick
<1>2. ASSUME NEW ip \in IP PROVE Fill(budget[ip]) \in 0..Burst
  BY DEF Inv, Fill, Once
<1>3. ASSUME NEW ip \in IP, limiters[ip] = NULL PROVE Fill(budget[ip]) = Burst
  BY <1>3 DEF Inv, BucketsCount, Fill, Once
<1>4. ASSUME NEW ip \in IP, limiters[ip] # NULL
      PROVE  /\ Aged(limiters[ip]) \in Bucket /\ Aged(limiters[ip]) # NULL
             /\ Aged(limiters[ip]).tokens <= Fill(budget[ip])
             /\ Aged(limiters[ip]).idle <= Fill(budget[ip]) \/ Fill(budget[ip]) = Burst
  <2>1. /\ limiters[ip].tokens \in Nat /\ limiters[ip].idle \in Nat
        /\ budget[ip] \in 0..Burst /\ limiters[ip].tokens <= budget[ip]
        /\ limiters[ip].idle <= budget[ip] \/ budget[ip] = Burst
    BY <1>4 DEF Inv, Bucket, BucketsCount
  <2> QED BY <2>1 DEF Fill, Bucket, Once
<1> HIDE DEF Aged
<1> QED
  BY <1>1, <1>2, <1>3, <1>4 DEF Inv, BucketsCount

\* One table for all requests, whose buckets are full before they are
\* dropped, lets no address exceed its budget (RateLimiter, middleware.go:141).
THEOREM SharedTableKeepsBudget == ASSUME Once PROVE Spec => []IpBudget
<1>1. Init => Inv
  BY InitInv
<1>2. Inv /\ [Next]_vars => Inv'
  <2> SUFFICES ASSUME Inv, [Next]_vars PROVE Inv'
    OBVIOUS
  <2>1. CASE \E ip \in IP : Serve(ip)
    BY <2>1, ServeInv
  <2>2. CASE Sweep
    BY <2>2, SweepInv
  <2>3. CASE Tick
    BY <2>3, TickInv
  <2>4. CASE UNCHANGED vars
    BY <2>4 DEF vars, Inv, BucketsCount
  <2> QED BY <2>1, <2>2, <2>3, <2>4 DEF Next
<1>3. Inv => IpBudget
  BY DEF Inv, IpBudget, Once
<1> QED
  BY <1>1, <1>2, <1>3, PTL DEF Spec
=============================================================================

----------------------------- MODULE RateLimiter -----------------------------
(***************************************************************************)
(* The per-IP token buckets of the rate-limiting middleware.               *)
(*                                                                         *)
(* The buckets and the goroutine that sweeps them are made by the          *)
(* middleware's constructor. The router applies its middleware anew to the *)
(* handler of every request it matches, so the constructor runs per        *)
(* request (PerMatch). A tick is the time in which one request's worth of  *)
(* tokens flows into a bucket.                                             *)
(***************************************************************************)
EXTENDS Integers

CONSTANTS
  IP,
  Requests,  \* RATE_LIMIT_REQUESTS
  Stale,     \* three minutes, in ticks
  PerMatch,  \* whether the router constructs the middleware per request
  MaxSweepers,  \* bound: the model stops at so many goroutines
  NULL       \* no bucket

Burst == Requests \div 5

VARIABLES
  limiters,  \* the buckets the next request will find
  sweepers,  \* goroutines that will never end
  budget     \* what one bucket per IP, made once, would still hold

vars == <<limiters, sweepers, budget>>

Full == [tokens |-> Burst, idle |-> 0]

Init ==
  /\ limiters = [ip \in IP |-> NULL]
  /\ sweepers = IF PerMatch THEN 0 ELSE 1
  /\ budget = [ip \in IP |-> Burst]

Found(ip) == IF limiters[ip] = NULL THEN Full ELSE limiters[ip]

\* A request is let through if its bucket holds a token, which it takes.
\* With a table of its own it leaves nothing behind but the sweeper.
Serve(ip) ==
  LET bucket == IF PerMatch THEN Full ELSE Found(ip)
      taken == IF bucket.tokens > 0 THEN 1 ELSE 0
  IN  /\ budget' = [budget EXCEPT ![ip] = @ - taken]
      /\ IF PerMatch
         THEN sweepers < MaxSweepers /\ sweepers' = sweepers + 1 /\ UNCHANGED limiters
         ELSE /\ limiters' = [limiters EXCEPT ![ip] =
                               [tokens |-> bucket.tokens - taken, idle |-> 0]]
              /\ UNCHANGED sweepers

\* Every minute: buckets not used for three minutes are dropped.
Sweep ==
  /\ limiters' = [ip \in IP |->
       IF limiters[ip] = NULL THEN NULL
       ELSE IF limiters[ip].idle > Stale THEN NULL ELSE limiters[ip]]
  /\ UNCHANGED <<sweepers, budget>>

Fill(n) == IF n < Burst THEN n + 1 ELSE n

Tick ==
  /\ limiters' = [ip \in IP |->
       IF limiters[ip] = NULL THEN NULL
       ELSE [tokens |-> Fill(limiters[ip].tokens),
             idle |-> IF limiters[ip].idle > Stale THEN limiters[ip].idle
                      ELSE limiters[ip].idle + 1]]
  /\ budget' = [ip \in IP |-> Fill(budget[ip])]
  /\ UNCHANGED sweepers

Next == (\E ip \in IP : Serve(ip)) \/ Sweep \/ Tick

Spec == Init /\ [][Next]_vars
-----------------------------------------------------------------------------
\* No IP gets more requests through than its one bucket would let.
IpBudget == \A ip \in IP : budget[ip] >= 0
=============================================================================

------------------------------- MODULE KeyView -------------------------------
(***************************************************************************)
(* What the verifier promises about the signing keys of Keycloak's realms. *)
(*                                                                         *)
(* Each realm has at most one view: the keys its endpoint listed at one    *)
(* moment, complete and never mixed with those of another moment or realm. *)
(* A view is young for a while; only one that is not young is replaced, so *)
(* an unknown key costs Keycloak at most one request per realm and while.  *)
(* A verdict on a token needs a view that knows its key, or is young.      *)
(***************************************************************************)
CONSTANTS Req, Realm, Kid, NULL

VARIABLES
  published,  \* the keys each realm's endpoint lists
  view,       \* NULL, or the keys listed at the last refresh
  young,      \* the realms whose view is not to be replaced yet
  token       \* the token each request asks about, or the last verdict on it

vars == <<published, view, young, token>>

\* A token still asked about, and the verdict on one.
Token == [realm : Realm, iss : Realm, kid : Kid]
Said(v) == [verdict |-> v]
Verdicts == {Said("none"), Said("accepted"), Said("refused")}

Init ==
  /\ published \in [Realm -> SUBSET Kid]
  /\ view = [n \in Realm |-> NULL]
  /\ young = {}
  /\ token = [r \in Req |-> Said("none")]

Rotate(n) ==
  /\ \E keys \in SUBSET Kid : published' = [published EXCEPT ![n] = keys]
  /\ UNCHANGED <<view, young, token>>

Age(n) ==
  /\ n \in young
  /\ young' = young \ {n}
  /\ UNCHANGED <<published, view, token>>

\* A realm that lists no key is not viewed.
Refresh(n) ==
  /\ n \notin young
  /\ published[n] # {}
  /\ view' = [view EXCEPT ![n] = published[n]]
  /\ young' = young \cup {n}
  /\ UNCHANGED <<published, token>>

Becomes(r, t) ==
  /\ token' = [token EXCEPT ![r] = t]
  /\ UNCHANGED <<published, view, young>>

Ask(r, t) == token[r] \in Verdicts /\ Becomes(r, t)

Asks(r) == token[r] \in Token
Knows(t) == view[t.realm] # NULL /\ t.kid \in view[t.realm]

Accept(r) ==
  Asks(r) /\ Knows(token[r]) /\ token[r].iss = token[r].realm /\ Becomes(r, Said("accepted"))

\* A token of another realm is refused although its key id may be known.
RefuseForeign(r) ==
  Asks(r) /\ Knows(token[r]) /\ token[r].iss # token[r].realm /\ Becomes(r, Said("refused"))

RefuseUnknown(r) ==
  Asks(r) /\ ~Knows(token[r]) /\ token[r].realm \in young /\ Becomes(r, Said("refused"))

\* A view was due and Keycloak could not be asked for one.
GiveUp(r) ==
  Asks(r) /\ ~Knows(token[r]) /\ token[r].realm \notin young /\ Becomes(r, Said("refused"))

Next ==
  \/ \E n \in Realm : Rotate(n) \/ Age(n) \/ Refresh(n)
  \/ \E r \in Req, t \in Token : Ask(r, t)
  \/ \E r \in Req : Accept(r) \/ RefuseForeign(r) \/ RefuseUnknown(r) \/ GiveUp(r)

Spec == Init /\ [][Next]_vars
=============================================================================

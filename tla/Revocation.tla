----------------------------- MODULE Revocation ------------------------------
(***************************************************************************)
(* Revocation from the provider to the resource server: the denylist of    *)
(* src/examples/02-oidc-provider.ts (POST /oauth/revoke, GET               *)
(* /oauth/revocations), the copy of it that src/examples/03-resource-      *)
(* server.ts caches and gives src/src/ResourceServer.ts as its `revoked`   *)
(* predicate, and the expiry rule of `verify` in src/src/Jwt.ts, which     *)
(* both ends apply.                                                        *)
(*                                                                         *)
(* A request is a fiber of the resource server.  The request for the list, *)
(* the provider's answer and its arrival are steps of their own;           *)
(* `Effect.cachedWithTTL`, the library's, keeps the outcome - a failure as *)
(* well as a list - and lets concurrent requests share one fetch.          *)
(***************************************************************************)
EXTENDS Integers

CONSTANTS
    Tokens,     \* access tokens the provider has signed
    Named,      \* those with a jti
    Exp,        \* [Tokens -> Nat]: their exp
    Fibers,     \* requests in the resource server
    Skew,       \* CLOCK_SKEW_SECONDS
    Ttl,        \* how long the outcome of a fetch of the list is reused
    MaxFetch,   \* bound: how long a fetch takes
    MaxTime     \* bound: the clock stops here

ASSUME TokenAssumption == Named \subseteq Tokens /\ Exp \in [Tokens -> Nat]
ASSUME DelayAssumption == Skew \in Nat /\ Ttl \in Nat \ {0} /\ MaxFetch \in Nat

VARIABLES
    now,
    denylist,   \* revokedJtis, at the provider
    revokedAt,  \* history: when the provider first acknowledged a revocation
    running,    \* a fetch of the list is under way
    cached,     \* its last outcome: a set of tokens, Failure, or Nothing
    expiresAt,  \* when the outcome stops being served
    pc,         \* where each request is
    token,      \* what it carries
    reply,      \* of the request that fetches: what the provider answered
    asked,      \* and when it asked
    verdict,    \* how a request was answered
    refused,    \* history: tokens some request was refused for as revoked
    failedAt    \* history: when the last fetch failed

providerVars == <<denylist, revokedAt>>
listVars == <<running, cached, expiresAt, failedAt>>
requestVars == <<pc, token, reply, asked, verdict, refused>>
vars == <<now, providerVars, listVars, requestVars>>

Nothing == "nothing"
Failure == "failure"
Never == -1
NoToken == "none"
Lists == SUBSET Named
Outcomes == [kind : {Nothing, Failure}, list : {{}}] \cup [kind : {"list"}, list : Lists]
Empty(kind) == [kind |-> kind, list |-> {}]
List(S) == [kind |-> "list", list |-> S]
Verdicts == {"pending", "Ok", "Revoked", "Expired", "NoRevocations"}

Init ==
    /\ now = 1
    /\ denylist = {}
    /\ revokedAt = [t \in Tokens |-> Never]
    /\ running = FALSE
    /\ cached = Empty(Nothing)
    /\ expiresAt = 0
    /\ failedAt = Never
    /\ pc = [f \in Fibers |-> "idle"]
    /\ token = [f \in Fibers |-> NoToken]
    /\ reply = [f \in Fibers |-> Empty(Nothing)]
    /\ asked = [f \in Fibers |-> 0]
    /\ verdict = [f \in Fibers |-> "pending"]
    /\ refused = {}

\* Jwt.verify's time claim; everything else about these tokens is in order.
Unexpired(t) == now <= Exp[t] + Skew

Tick ==
    /\ now < MaxTime
    /\ \A f \in Fibers : pc[f] # "lookup" /\ (pc[f] = "fetching" => now < asked[f] + MaxFetch)
    /\ now' = now + 1
    /\ UNCHANGED <<providerVars, listVars, requestVars>>

------------------------------------------------------------------------------
(* The provider.                                                            *)

\* POST /oauth/revoke, acknowledged whatever the token: a token that verifies
\* and has a jti joins the denylist.
Revoke(t) ==
    /\ denylist' = IF Unexpired(t) /\ t \in Named THEN denylist \cup {t} ELSE denylist
    /\ revokedAt' = [revokedAt EXCEPT ![t] = IF @ = Never THEN now ELSE @]
    /\ UNCHANGED <<now, listVars, requestVars>>

\* Mutation of Serve: an entry goes while its exp is still to pass.
ServePurgesEarly(f) ==
    /\ pc[f] = "fetching"
    /\ reply[f].kind = Nothing
    /\ denylist' = {t \in denylist : now < Exp[t]}
    /\ reply' = [reply EXCEPT ![f] = List(denylist')]
    /\ UNCHANGED <<now, revokedAt, listVars, pc, token, asked, verdict, refused>>

\* GET /oauth/revocations: entries past their exp are purged, the rest is the
\* answer.
Serve(f) ==
    /\ pc[f] = "fetching"
    /\ reply[f].kind = Nothing
    /\ denylist' = {t \in denylist : now <= Exp[t]}
    /\ reply' = [reply EXCEPT ![f] = List(denylist')]
    /\ UNCHANGED <<now, revokedAt, listVars, pc, token, asked, verdict, refused>>

------------------------------------------------------------------------------
(* The resource server.                                                     *)

\* The requests of S learn the outcome of the fetch.
Judge(S, outcome) ==
    LET hit(f) == f \in S /\ token[f] \in outcome.list
    IN /\ pc' = [f \in Fibers |-> IF f \in S THEN "done" ELSE pc[f]]
       /\ verdict' = [f \in Fibers |->
                        IF f \notin S THEN verdict[f]
                        ELSE IF outcome.kind = Failure THEN "NoRevocations"
                        ELSE IF hit(f) THEN "Revoked" ELSE "Ok"]
       /\ refused' = refused \cup {token[f] : f \in {g \in S : hit(g)}}

\* Mutation of Present: expiry is looked at when the list has come, and then
\* of the tokens that cannot be on it.
PresentUnverified(f, t) ==
    /\ pc[f] = "idle"
    /\ token' = [token EXCEPT ![f] = t]
    /\ IF t \in Named
       THEN /\ pc' = [pc EXCEPT ![f] = "lookup"]
            /\ UNCHANGED verdict
       ELSE /\ pc' = [pc EXCEPT ![f] = "done"]
            /\ verdict' = [verdict EXCEPT ![f] = IF Unexpired(t) THEN "Ok" ELSE "Expired"]
    /\ UNCHANGED <<now, providerVars, listVars, reply, asked, refused>>

\* The signature is good; an expired token goes no further, and neither does
\* one without a jti, which no denylist can name.
Present(f, t) ==
    /\ pc[f] = "idle"
    /\ token' = [token EXCEPT ![f] = t]
    /\ IF Unexpired(t) /\ t \in Named
       THEN /\ pc' = [pc EXCEPT ![f] = "lookup"]
            /\ UNCHANGED verdict
       ELSE /\ pc' = [pc EXCEPT ![f] = "done"]
            /\ verdict' = [verdict EXCEPT ![f] = IF Unexpired(t) THEN "Ok" ELSE "Expired"]
    /\ UNCHANGED <<now, providerVars, listVars, reply, asked, refused>>

\* Mutation of Hit: an outcome is good for ever.
HitForEver(f) ==
    /\ pc[f] = "lookup"
    /\ ~running
    /\ cached.kind # Nothing
    /\ Judge({f}, cached)
    /\ UNCHANGED <<now, providerVars, listVars, token, reply, asked>>

Hit(f) ==
    /\ pc[f] = "lookup"
    /\ ~running
    /\ now < expiresAt
    /\ Judge({f}, cached)
    /\ UNCHANGED <<now, providerVars, listVars, token, reply, asked>>

Join(f) ==
    /\ pc[f] = "lookup"
    /\ running
    /\ pc' = [pc EXCEPT ![f] = "waiting"]
    /\ UNCHANGED <<now, providerVars, listVars, token, reply, asked, verdict, refused>>

StartFetch(f) ==
    /\ pc[f] = "lookup"
    /\ ~running
    /\ expiresAt <= now
    /\ running' = TRUE
    /\ cached' = Empty(Nothing)
    /\ pc' = [pc EXCEPT ![f] = "fetching"]
    /\ asked' = [asked EXCEPT ![f] = now]
    /\ UNCHANGED <<now, providerVars, expiresAt, failedAt, token, reply, verdict, refused>>

\* Mutation of Settle: a request that joined is not woken up.
SettleAlone(f, outcome) ==
    /\ running' = FALSE
    /\ cached' = outcome
    /\ expiresAt' = now + Ttl
    /\ reply' = [reply EXCEPT ![f] = Empty(Nothing)]
    /\ asked' = [asked EXCEPT ![f] = 0]
    /\ Judge({f}, outcome)
    /\ UNCHANGED <<now, providerVars, token>>

\* The fetch ends, for the request that ran it and all that joined it.
\* Whether the ttl counts from its start or its end is the library's.
Settle(f, outcome) ==
    /\ running' = FALSE
    /\ cached' = outcome
    /\ \E from \in {asked[f], now} : expiresAt' = from + Ttl
    /\ reply' = [reply EXCEPT ![f] = Empty(Nothing)]
    /\ asked' = [asked EXCEPT ![f] = 0]
    /\ Judge({f} \cup {g \in Fibers : pc[g] = "waiting"}, outcome)
    /\ UNCHANGED <<now, providerVars, token>>

Arrive(f) ==
    /\ pc[f] = "fetching"
    /\ reply[f].kind = "list"
    /\ UNCHANGED failedAt
    /\ Settle(f, reply[f])

\* Mutation of Fail: no list is an empty list.
FailOpen(f) ==
    /\ pc[f] = "fetching"
    /\ failedAt' = now
    /\ Settle(f, List({}))

\* Unreachable, an error status or not a list of strings, whether or not the
\* provider has served the request.
Fail(f) ==
    /\ pc[f] = "fetching"
    /\ failedAt' = now
    /\ Settle(f, Empty(Failure))

Leave(f) ==
    /\ pc[f] = "done"
    /\ pc' = [pc EXCEPT ![f] = "idle"]
    /\ token' = [token EXCEPT ![f] = NoToken]
    /\ verdict' = [verdict EXCEPT ![f] = "pending"]
    /\ UNCHANGED <<now, providerVars, listVars, reply, asked, refused>>

------------------------------------------------------------------------------
Run(f) == Hit(f) \/ Join(f) \/ StartFetch(f) \/ Arrive(f) \/ Fail(f)

Next ==
    \/ Tick
    \/ \E t \in Tokens : Revoke(t)
    \/ \E f \in Fibers :
          \/ Run(f) \/ Serve(f) \/ Leave(f)
          \/ \E t \in Tokens : Present(f, t)

Spec == Init /\ [][Next]_vars

\* A request that can run does; the transport ends every fetch.
FairSpec == Spec /\ \A f \in Fibers : WF_vars(Run(f))

------------------------------------------------------------------------------
(* Properties.                                                              *)

RevocationTypeOK ==
    /\ now \in Nat
    /\ denylist \in Lists
    /\ revokedAt \in [Tokens -> Nat \cup {Never}]
    /\ running \in BOOLEAN
    /\ cached \in Outcomes
    /\ expiresAt \in Nat
    /\ failedAt \in Nat \cup {Never}
    /\ pc \in [Fibers -> {"idle", "lookup", "fetching", "waiting", "done"}]
    /\ token \in [Fibers -> Tokens \cup {NoToken}]
    /\ reply \in [Fibers -> Outcomes]
    /\ asked \in [Fibers -> Nat]
    /\ verdict \in [Fibers -> Verdicts]
    /\ refused \in Lists

\* Some request that carries t is let through in this step.
Passes(t) ==
    \E f \in Fibers : token'[f] = t /\ verdict[f] = "pending" /\ verdict'[f] = "Ok"

\* t was revoked, in a way the denylist can hold, and the news has had time to
\* reach the resource server: a fetch and the life of its outcome.
TakenEffect(t) ==
    /\ t \in Named
    /\ revokedAt[t] # Never
    /\ now > revokedAt[t] + Ttl + MaxFetch

\* "Revocation is eventual, not instant": up to its exp, a revoked token is
\* let through for at most the ttl and a fetch, however many requests share
\* or outlive a list, and whatever fetches fail.
RevocationTakesEffect ==
    [][\A t \in Tokens : TakenEffect(t) /\ now <= Exp[t] => ~Passes(t)]_vars

\* A token once refused as revoked is not let through again before its exp: no
\* older list replaces a newer one.
RefusalIsFinal ==
    [][\A t \in Tokens : t \in refused /\ now <= Exp[t] => ~Passes(t)]_vars

\* Predicate failures answer 500, and the failure is kept like a list: it is
\* inherited for one ttl and no longer.
OutageEndsWithTtl ==
    [][\A f \in Fibers :
        verdict[f] = "pending" /\ verdict'[f] = "NoRevocations"
            => failedAt' # Never /\ (now < failedAt' + Ttl)]_vars

\* Nobody looks at a token's expiry again once its request waits for the list:
\* it is let through late, but by one fetch at most, whichever request began
\* that and whatever became of it.
LateByOneFetch ==
    [][\A t \in Tokens : Passes(t) => now <= Exp[t] + Skew + MaxFetch]_vars

\* Every request gets its answer, with or without a list.
EveryCheckEnds ==
    \A f \in Fibers : pc[f] = "lookup" ~> pc[f] = "done"

\* "Entries expire with their tokens": an entry is on the list for as long as
\* its token is accepted anywhere, so a revocation that took effect stays.
EntriesExpireWithTokens ==
    [][\A t \in Tokens : TakenEffect(t) => ~Passes(t)]_vars
==============================================================================

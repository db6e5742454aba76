------------------------------ MODULE JwksCache ------------------------------
(***************************************************************************)
(* The cached view of an issuer's JWKS document: `jwksCache` of            *)
(* src/src/Oidc.ts, called by every verifier (the bearer middleware of     *)
(* ResourceServer.ts, the callback of RelyingParty.ts) as `get`, then -    *)
(* when no key of the document answers the token - `refresh`.              *)
(*                                                                         *)
(* A caller is a fiber.  Each `yield*` of the code is a step of its own, so *)
(* fibers interleave at every one of them; the steps in Urgent take no     *)
(* time (nothing is awaited), while a fetch and a caller that holds its    *)
(* answer may last any number of ticks.  A document is its version: a      *)
(* later one has every key of an earlier one that is still in use.         *)
(*                                                                         *)
(* `Effect.cachedInvalidateWithTTL` is the Effect library's: running, exit *)
(* and expiresAt are its state, Hit, Join, StartFetch, Settle and Drop     *)
(* what the code relies on it to do.                                       *)
(***************************************************************************)
EXTENDS Integers

CONSTANTS
    Callers,     \* fibers that verify tokens
    Ttl,         \* how long a fetched document is reused
    MinRefresh,  \* the window in which one forced refresh is allowed
    Start,       \* the clock when the process starts
    MaxTime,     \* bound: the clock stops here
    MaxVersion   \* bound: the issuer publishes this many documents

ASSUME TtlAssumption == Ttl \in Nat \ {0}
ASSUME MinRefreshAssumption == MinRefresh \in Nat
ASSUME ClockAssumption == Start \in Nat /\ MaxTime \in Nat
ASSUME VersionAssumption == MaxVersion \in Nat \ {0}

VARIABLES
    now,          \* the clock, in units of a tick
    published,    \* version of the document the issuer serves
    lastGood,     \* Ref lastGood: NoDoc before the first success
    lastRefresh,  \* Ref lastRefreshMillis
    running,      \* a fetch is in flight
    exit,         \* the stored outcome of the last fetch, or NoExit
    expiresAt,    \* when the stored outcome stops being served
    pc,           \* where each caller is
    leg,          \* what it is calling: get, or refresh forced / rate limited
    fetch,        \* of a caller that fetches: when it asked, and what was published
    checked,      \* refresh's nowMillis
    answer,       \* the outcome a caller holds
    seen          \* history: published when the caller's get returned

cacheVars == <<lastGood, running, exit, expiresAt>>
callVars == <<pc, leg, fetch, checked, answer, seen>>
vars == <<now, published, lastRefresh, cacheVars, callVars>>

NoDoc == 0
Docs == 1..MaxVersion

\* The outcome of a fetch: the document it yields, and whether it fell back
\* on lastGood (NoDoc: there was none, the outcome is the error).
Outcome == [doc : {NoDoc} \cup Docs, fell : BOOLEAN]
NoExit == [doc |-> NoDoc, fell |-> FALSE]

Legs == {"get", "forced", "limited"}
Urgent == {"get", "evict", "check", "stamp", "drop"}
Steps == Urgent \cup {"idle", "fetching", "waiting", "answered", "failed"}
NoFetch == [since |-> NoDoc, at |-> 0]

Init ==
    /\ now = Start
    /\ published = 1
    /\ lastGood = NoDoc
    /\ lastRefresh = 0
    /\ running = FALSE
    /\ exit = NoExit
    /\ expiresAt = 0
    /\ pc = [c \in Callers |-> "idle"]
    /\ leg = [c \in Callers |-> "get"]
    /\ fetch = [c \in Callers |-> NoFetch]
    /\ checked = [c \in Callers |-> 0]
    /\ answer = [c \in Callers |-> NoExit]
    /\ seen = [c \in Callers |-> NoDoc]

------------------------------------------------------------------------------
(* The environment: time, and the issuer rotating its keys.                 *)

Tick ==
    /\ now < MaxTime
    /\ \A c \in Callers : pc[c] \notin Urgent
    /\ now' = now + 1
    /\ UNCHANGED <<published, lastRefresh, cacheVars, callVars>>

Rotate ==
    /\ published < MaxVersion
    /\ published' = published + 1
    /\ UNCHANGED <<now, lastRefresh, cacheVars, callVars>>

------------------------------------------------------------------------------
(* `cached`, as cachedInvalidateWithTTL runs it.                            *)

\* The callers of S receive outcome o: an error goes on to tapError, an
\* answer to the caller, whose get is then over.
Deliver(S, o) ==
    /\ pc' = [c \in Callers |->
                IF c \notin S THEN pc[c]
                ELSE IF o.doc = NoDoc THEN "evict" ELSE "answered"]
    /\ answer' = [c \in Callers |-> IF c \in S THEN o ELSE answer[c]]
    /\ seen' = [c \in Callers |->
                  IF c \in S /\ leg[c] = "get" THEN published ELSE seen[c]]

\* Mutation of Hit: a stored outcome is served until it is dropped.
HitStale(c) ==
    /\ pc[c] = "get"
    /\ ~running
    /\ expiresAt > 0
    /\ Deliver({c}, exit)
    /\ UNCHANGED <<now, published, lastRefresh, cacheVars, leg, fetch, checked>>

\* A stored outcome that has not expired is the answer.
Hit(c) ==
    /\ pc[c] = "get"
    /\ ~running
    /\ now < expiresAt
    /\ Deliver({c}, exit)
    /\ UNCHANGED <<now, published, lastRefresh, cacheVars, leg, fetch, checked>>

\* A fetch in flight is shared.
Join(c) ==
    /\ pc[c] = "get"
    /\ running
    /\ pc' = [pc EXCEPT ![c] = "waiting"]
    /\ UNCHANGED <<now, published, lastRefresh, cacheVars, leg, fetch, checked,
                   answer, seen>>

\* Otherwise this caller runs fetchJwks.
StartFetch(c) ==
    /\ pc[c] = "get"
    /\ ~running
    /\ expiresAt <= now
    /\ running' = TRUE
    /\ exit' = NoExit
    /\ pc' = [pc EXCEPT ![c] = "fetching"]
    /\ fetch' = [fetch EXCEPT ![c] = [since |-> published, at |-> now]]
    /\ UNCHANGED <<now, published, lastGood, lastRefresh, expiresAt, leg,
                   checked, answer, seen>>

\* The fetch of caller c ends with outcome o, for it and all that joined it.
\* Whether the ttl counts from the request or the response is the library's.
Settle(c, o) ==
    /\ running' = FALSE
    /\ exit' = o
    /\ \E from \in {fetch[c].at, now} : expiresAt' = from + Ttl
    /\ Deliver({c} \cup {d \in Callers : pc[d] = "waiting"}, o)
    /\ fetch' = [fetch EXCEPT ![c] = NoFetch]
    /\ UNCHANGED <<now, published, lastRefresh, leg, checked>>

\* The issuer answers with a document it served while the request was under
\* way; `tap` keeps it as lastGood.
FetchSucceeds(c) ==
    /\ pc[c] = "fetching"
    /\ \E v \in fetch[c].since..published :
          /\ lastGood' = v
          /\ Settle(c, [doc |-> v, fell |-> FALSE])

\* Mutations of FetchFails: lastGood is not consulted; only the caller that
\* fetched hears of the error.
FetchFailsWithoutFallback(c) ==
    /\ pc[c] = "fetching"
    /\ UNCHANGED lastGood
    /\ Settle(c, [doc |-> NoDoc, fell |-> TRUE])

FetchFailsAlone(c) ==
    /\ pc[c] = "fetching"
    /\ running' = FALSE
    /\ exit' = [doc |-> lastGood, fell |-> TRUE]
    /\ expiresAt' = now + Ttl
    /\ Deliver({c}, exit')
    /\ fetch' = [fetch EXCEPT ![c] = NoFetch]
    /\ UNCHANGED <<now, published, lastGood, lastRefresh, leg, checked>>

\* Unreachable, an error status, or not a JWKS: `catch` answers lastGood, and
\* fails when there is none.
FetchFails(c) ==
    /\ pc[c] = "fetching"
    /\ UNCHANGED lastGood
    /\ Settle(c, [doc |-> lastGood, fell |-> TRUE])

\* Mutations of Drop: a fetch in flight is forgotten; the entry is backdated.
DropFlight ==
    /\ expiresAt' = 0
    /\ exit' = NoExit
    /\ running' = FALSE
    /\ UNCHANGED lastGood

DropBackdated ==
    /\ expiresAt' = expiresAt - Ttl
    /\ exit' = NoExit
    /\ UNCHANGED <<lastGood, running>>

\* `invalidate`: a fetch in flight goes on.
Drop ==
    /\ expiresAt' = 0
    /\ exit' = NoExit
    /\ UNCHANGED <<lastGood, running>>

------------------------------------------------------------------------------
(* `get` and `refresh`.                                                     *)

Get(c) ==
    /\ pc[c] = "idle"
    /\ pc' = [pc EXCEPT ![c] = "get"]
    /\ UNCHANGED <<now, published, lastRefresh, cacheVars, leg, fetch, checked,
                   answer, seen>>

\* Mutation of Evict: `cached` without its tapError.
FailWithoutEvicting(c) ==
    /\ pc[c] = "evict"
    /\ pc' = [pc EXCEPT ![c] = "failed"]
    /\ UNCHANGED <<now, published, lastRefresh, cacheVars, leg, fetch, checked,
                   answer, seen>>

\* get's tapError: whoever received the error evicts it, then fails.
Evict(c) ==
    /\ pc[c] = "evict"
    /\ Drop
    /\ pc' = [pc EXCEPT ![c] = "failed"]
    /\ UNCHANGED <<now, published, lastRefresh, leg, fetch, checked, answer, seen>>

\* No key of the document answers the token.
Refresh(c) ==
    /\ pc[c] = "answered"
    /\ leg[c] = "get"
    /\ pc' = [pc EXCEPT ![c] = "check"]
    /\ answer' = [answer EXCEPT ![c] = NoExit]
    /\ UNCHANGED <<now, published, lastRefresh, cacheVars, leg, fetch, checked, seen>>

\* Inside the window: the cached document it is.
RateLimited(c) ==
    /\ pc[c] = "check"
    /\ now - lastRefresh < MinRefresh
    /\ pc' = [pc EXCEPT ![c] = "get"]
    /\ leg' = [leg EXCEPT ![c] = "limited"]
    /\ UNCHANGED <<now, published, lastRefresh, cacheVars, fetch, checked, answer, seen>>

\* Mutation of PassWindow: the window is a tick short.
PassWindowEarly(c) ==
    /\ pc[c] = "check"
    /\ now - lastRefresh >= MinRefresh - 1
    /\ pc' = [pc EXCEPT ![c] = "stamp"]
    /\ checked' = [checked EXCEPT ![c] = now]
    /\ UNCHANGED <<now, published, lastRefresh, cacheVars, leg, fetch, answer, seen>>

PassWindow(c) ==
    /\ pc[c] = "check"
    /\ now - lastRefresh >= MinRefresh
    /\ pc' = [pc EXCEPT ![c] = "stamp"]
    /\ checked' = [checked EXCEPT ![c] = now]
    /\ UNCHANGED <<now, published, lastRefresh, cacheVars, leg, fetch, answer, seen>>

\* The stamp is set whatever becomes of the fetch.
Stamp(c) ==
    /\ pc[c] = "stamp"
    /\ lastRefresh' = checked[c]
    /\ pc' = [pc EXCEPT ![c] = "drop"]
    /\ checked' = [checked EXCEPT ![c] = 0]
    /\ UNCHANGED <<now, published, cacheVars, leg, fetch, answer, seen>>

\* Mutation of Invalidate: refresh goes straight to get.
SkipInvalidate(c) ==
    /\ pc[c] = "drop"
    /\ pc' = [pc EXCEPT ![c] = "get"]
    /\ leg' = [leg EXCEPT ![c] = "forced"]
    /\ UNCHANGED <<now, published, lastRefresh, cacheVars, fetch, checked, answer, seen>>

Invalidate(c) ==
    /\ pc[c] = "drop"
    /\ Drop
    /\ pc' = [pc EXCEPT ![c] = "get"]
    /\ leg' = [leg EXCEPT ![c] = "forced"]
    /\ UNCHANGED <<now, published, lastRefresh, fetch, checked, answer, seen>>

\* The verifier has its verdict.
Finish(c) ==
    /\ pc[c] \in {"answered", "failed"}
    /\ pc' = [pc EXCEPT ![c] = "idle"]
    /\ leg' = [leg EXCEPT ![c] = "get"]
    /\ answer' = [answer EXCEPT ![c] = NoExit]
    /\ seen' = [seen EXCEPT ![c] = NoDoc]
    /\ UNCHANGED <<now, published, lastRefresh, cacheVars, fetch, checked>>

------------------------------------------------------------------------------
\* A caller inside get or refresh is scheduled by the runtime.
Enter(c) == Hit(c) \/ Join(c) \/ StartFetch(c)
FetchEnds(c) == FetchSucceeds(c) \/ FetchFails(c)
Run(c) ==
    \/ Enter(c) \/ FetchEnds(c) \/ Evict(c)
    \/ RateLimited(c) \/ PassWindow(c) \/ Stamp(c) \/ Invalidate(c)

Next ==
    \/ Tick
    \/ Rotate
    \/ \E c \in Callers : Run(c) \/ Get(c) \/ Refresh(c) \/ Finish(c)

Spec == Init /\ [][Next]_vars

------------------------------------------------------------------------------
(* Properties.                                                              *)

TypeOK ==
    /\ now \in Nat
    /\ published \in Docs
    /\ lastGood \in {NoDoc} \cup Docs
    /\ lastRefresh \in Nat
    /\ running \in BOOLEAN
    /\ exit \in Outcome
    /\ expiresAt \in Nat
    /\ pc \in [Callers -> Steps]
    /\ leg \in [Callers -> Legs]
    /\ fetch \in [Callers -> [since : {NoDoc} \cup Docs, at : Nat]]
    /\ checked \in [Callers -> Nat]
    /\ answer \in [Callers -> Outcome]
    /\ seen \in [Callers -> {NoDoc} \cup Docs]

\* "Concurrent callers share one fetch": never two requests at the issuer at
\* a time, evictions and forced refreshes during a fetch included.
SingleFlight ==
    \A c, d \in Callers : pc[c] = "fetching" /\ pc[d] = "fetching" => c = d

\* "A blip at the issuer cannot fail verifications the old keys could still
\* answer": what the cache stores, and so what it serves, is the newest
\* document ever fetched; it stores a failure only as long as nothing was.
StoredIsLastGood ==
    exit # NoExit => exit.doc = lastGood

\* A failure "is evicted from the cache immediately, so the next caller
\* retries instead of inheriting the failure": whenever a failure could be
\* served, some caller is about to evict it.
FailureIsBeingEvicted ==
    ~running /\ now < expiresAt /\ exit.doc = NoDoc
        => \E c \in Callers : pc[c] = "evict"

\* A forced refresh "fetches a fresh one": unless that fetch failed, it knows
\* every key the issuer had published when the caller's get returned, though
\* it may well have joined a fetch another caller started.
RefreshSeesRotation ==
    \A c \in Callers :
        pc[c] = "answered" /\ leg[c] = "forced" /\ ~answer[c].fell
            => answer[c].doc >= seen[c]

\* "Rate limited to one forced refresh per minRefreshInterval": stamps are a
\* whole window apart, save those of callers that passed the check at the
\* same instant.
StampsAreAWindowApart ==
    [][lastRefresh' # lastRefresh => lastRefresh' - lastRefresh >= MinRefresh]_vars

\* Keys already known are not forgotten by a late or overlapping fetch, and a
\* caller's refresh never answers an older document than its get did.
View == INSTANCE KeyView WITH
    view <- lastGood,
    reply <- [c \in Callers |->
                IF pc[c] \in {"answered", "evict", "failed"} THEN answer[c].doc ELSE -1]
ImplementsKeyView == View!Spec
==============================================================================

--------------------------- MODULE RevocationProofs ---------------------------
(***************************************************************************)
(* Proofs about Revocation: how long a revoked token may still pass, that  *)
(* a refusal is final, how long a failure is inherited and how late an     *)
(* expired token may pass, for any tokens, any requests and any delays.    *)
(***************************************************************************)
EXTENDS Revocation, TLAPS

\* Still of interest: revoked in a way the denylist can hold, exp not past.
Live(t) == revokedAt[t] # Never /\ now <= Exp[t]

\* Requests that have a token, and whose answer is still to come.
Busy == {"lookup", "fetching", "waiting"}

\* One fetch at a time; requests wait only while there is one, nothing is
\* cached meanwhile, and only the request that fetches has an answer to it.
FlightInv ==
    /\ \A f \in Fibers : pc[f] \in {"fetching", "waiting"} => running
    /\ \A f, g \in Fibers : pc[f] = "fetching" /\ pc[g] = "fetching" => f = g
    /\ running => cached = Empty(Nothing)
    /\ \A f \in Fibers :
          /\ reply[f].kind # Failure
          /\ pc[f] # "fetching" => reply[f].kind = Nothing
          /\ pc[f] # "idle" => token[f] \in Tokens

\* Delays: of a fetch, of what it brings, and of the requests that wait for it
\* with a token that was not expired when they came.
DelayInv ==
    /\ expiresAt <= now + Ttl
    /\ ~running /\ cached.kind = Nothing => expiresAt <= now
    /\ \A f \in Fibers :
          /\ pc[f] = "fetching" => asked[f] <= now /\ now <= asked[f] + MaxFetch
          /\ pc[f] = "lookup" => Unexpired(token[f])
    /\ \A f, g \in Fibers :
          pc[f] = "fetching" /\ (g = f \/ pc[g] = "waiting")
              => asked[f] <= Exp[token[g]] + Skew

\* How far the news of a revocation has come: it is on the denylist until its
\* exp, and a list without it was asked for before, or does not live long after.
NewsInv ==
    /\ \A t \in Tokens : revokedAt[t] <= now
    /\ \A t \in Named : Live(t) => t \in denylist
    /\ \A f \in Fibers, t \in Named :
          pc[f] = "fetching" /\ reply[f].kind = "list" /\ t \notin reply[f].list /\ Live(t)
              => asked[f] <= revokedAt[t]
    /\ \A t \in Named :
          ~running /\ cached.kind = "list" /\ t \notin cached.list /\ Live(t)
              => expiresAt <= revokedAt[t] + Ttl + MaxFetch

\* Lists only hold what the denylist holds or would have purged, and a token
\* refused once is on every list that is to come.
RefusalInv ==
    \A t \in Named : now <= Exp[t] =>
        /\ t \in cached.list => t \in denylist
        /\ \A f \in Fibers : t \in reply[f].list => t \in denylist
        /\ t \in refused =>
              /\ t \in denylist
              /\ cached.kind = "list" => t \in cached.list
              /\ \A f \in Fibers : reply[f].kind = "list" => t \in reply[f].list

\* A failure that is served is the last one, and no older than the ttl.
FailureInv ==
    /\ failedAt <= now
    /\ cached.kind = Failure => failedAt # Never /\ expiresAt <= failedAt + Ttl

Inv ==
    /\ RevocationTypeOK /\ FlightInv /\ DelayInv
    /\ NewsInv /\ RefusalInv /\ FailureInv

------------------------------------------------------------------------------
(* The initial state and the types.                                         *)

LEMMA InvInit == ASSUME Init PROVE Inv
<1> USE TokenAssumption, DelayAssumption DEF Init, Empty, Nothing, Failure, Never
<1>1. RevocationTypeOK
  BY DEF RevocationTypeOK, Lists, Outcomes, Verdicts
<1>2. FlightInv
  BY DEF FlightInv
<1>3. DelayInv
  BY DEF DelayInv
<1>4. NewsInv
  BY DEF NewsInv, Live
<1>5. RefusalInv
  BY DEF RefusalInv
<1>6. FailureInv
  BY DEF FailureInv
<1> QED
  BY <1>1, <1>2, <1>3, <1>4, <1>5, <1>6 DEF Inv

\* What learning an outcome does to the types.
LEMMA JudgeType ==
    ASSUME RevocationTypeOK, NEW S \in SUBSET Fibers, NEW o \in Outcomes, Judge(S, o)
    PROVE  /\ pc' \in [Fibers -> {"idle", "lookup", "fetching", "waiting", "done"}]
           /\ verdict' \in [Fibers -> Verdicts]
           /\ refused' \in Lists
<1>1. o.list \in Lists
  BY DEF Outcomes, Lists
<1> QED
  BY <1>1 DEF Judge, RevocationTypeOK, Verdicts, Lists

\* The requests that learn an outcome when the fetch of f ends.
Audience(f) == {f} \cup {g \in Fibers : pc[g] = "waiting"}

\* What the end of a fetch does to the types.
LEMMA SettleType ==
    ASSUME RevocationTypeOK, NEW f \in Fibers, NEW o \in Outcomes, Settle(f, o),
           failedAt' \in Nat \cup {Never}
    PROVE  RevocationTypeOK'
<1>1. Audience(f) \in SUBSET Fibers /\ Judge(Audience(f), o)
  BY DEF Audience, Settle
<1>2. Empty(Nothing) \in Outcomes
  BY DEF Empty, Outcomes
<1>3. expiresAt' \in Nat
  BY DelayAssumption DEF Settle, RevocationTypeOK
<1> QED
  BY <1>1, <1>2, <1>3, JudgeType DEF Settle, RevocationTypeOK, providerVars

\* Every step keeps the types.
LEMMA TypeStep == ASSUME RevocationTypeOK, FlightInv, [Next]_vars PROVE RevocationTypeOK'
<1> USE TokenAssumption, DelayAssumption DEF providerVars, listVars, requestVars
<1>1. CASE Tick
  BY <1>1 DEF Tick, RevocationTypeOK
<1>2. ASSUME NEW t \in Tokens, Revoke(t) PROVE RevocationTypeOK'
  BY <1>2 DEF Revoke, RevocationTypeOK, Lists
<1>3. ASSUME NEW f \in Fibers, Run(f) PROVE RevocationTypeOK'
  <2>1. CASE Hit(f)
    <3>1. cached \in Outcomes /\ {f} \in SUBSET Fibers /\ Judge({f}, cached)
      BY <2>1 DEF Hit, RevocationTypeOK
    <3> QED
      BY <2>1, <3>1, JudgeType DEF Hit, RevocationTypeOK
  <2>2. CASE Join(f)
    BY <2>2 DEF Join, RevocationTypeOK
  <2>3. CASE StartFetch(f)
    BY <2>3 DEF StartFetch, RevocationTypeOK, Outcomes, Empty
  <2>4. CASE Arrive(f)
    BY <2>4, SettleType DEF Arrive, RevocationTypeOK
  <2>5. CASE Fail(f)
    <3>1. Empty(Failure) \in Outcomes
      BY DEF Empty, Outcomes
    <3> QED
      BY <2>5, <3>1, SettleType DEF Fail, RevocationTypeOK
  <2> QED
    BY <1>3, <2>1, <2>2, <2>3, <2>4, <2>5 DEF Run
<1>4. ASSUME NEW f \in Fibers, Serve(f) PROVE RevocationTypeOK'
  <2>1. denylist' \in Lists /\ List(denylist') \in Outcomes
    BY <1>4 DEF Serve, RevocationTypeOK, Lists, List, Outcomes
  <2> QED
    BY <1>4, <2>1 DEF Serve, RevocationTypeOK
<1>5. ASSUME NEW f \in Fibers, Leave(f) PROVE RevocationTypeOK'
  BY <1>5 DEF Leave, RevocationTypeOK, Verdicts
<1>6. ASSUME NEW f \in Fibers, NEW t \in Tokens, Present(f, t) PROVE RevocationTypeOK'
  BY <1>6 DEF Present, RevocationTypeOK, Verdicts
<1>7. CASE UNCHANGED vars
  BY <1>7 DEF vars, RevocationTypeOK
<1> QED
  BY <1>1, <1>2, <1>3, <1>4, <1>5, <1>6, <1>7 DEF Next

------------------------------------------------------------------------------
(* The invariant is kept, one lemma for each kind of step.                  *)

\* Time passes: only while nobody has a decision to take, and a fetch is not
\* overdue.
LEMMA TickStep == ASSUME Inv, Tick PROVE Inv'
<1> USE TokenAssumption, DelayAssumption DEF Inv, providerVars, listVars, requestVars
<1>1. now' = now + 1 /\ now \in Nat /\ UNCHANGED <<providerVars, listVars, requestVars>>
  BY DEF Tick, RevocationTypeOK
<1>2. RevocationTypeOK'
  BY <1>1 DEF RevocationTypeOK
<1>3. FlightInv'
  BY <1>1 DEF FlightInv
<1>4. DelayInv'
  BY <1>1 DEF Tick, DelayInv, RevocationTypeOK, Unexpired
<1>5. \A t \in Tokens : now' <= Exp[t] => now <= Exp[t]
  BY <1>1
<1>6. NewsInv'
  <2>1. \A t \in Tokens : revokedAt'[t] <= now'
    BY <1>1 DEF NewsInv, RevocationTypeOK, Never
  <2>2. \A t \in Named : Live(t)' => Live(t)
    BY <1>1, <1>5 DEF Live
  <2> QED
    BY <1>1, <2>1, <2>2 DEF NewsInv
<1>7. RefusalInv'
  BY <1>1, <1>5 DEF RefusalInv
<1>8. FailureInv'
  BY <1>1 DEF FailureInv, RevocationTypeOK
<1> QED
  BY <1>2, <1>3, <1>4, <1>6, <1>7, <1>8

\* A revocation joins the denylist now: no list that lacks it is older news
\* than that.
LEMMA RevokeStep == ASSUME Inv, NEW t \in Tokens, Revoke(t) PROVE Inv'
<1> USE TokenAssumption, DelayAssumption DEF Inv, listVars, requestVars
<1>1. /\ now' = now /\ UNCHANGED <<listVars, requestVars>> /\ denylist \subseteq denylist'
      /\ revokedAt' = [revokedAt EXCEPT ![t] = IF @ = Never THEN now ELSE @]
      /\ now <= Exp[t] /\ t \in Named => t \in denylist'
  <2>1. now <= Exp[t] => Unexpired(t)
    BY DEF Unexpired, RevocationTypeOK
  <2> QED
    BY <2>1 DEF Revoke
<1>2. RevocationTypeOK'
  BY TypeStep DEF Next
<1>3. FlightInv' /\ DelayInv' /\ FailureInv'
  BY <1>1 DEF FlightInv, DelayInv, FailureInv, Unexpired
<1>4. \A u \in Tokens :
          /\ u # t \/ revokedAt[t] # Never => revokedAt'[u] = revokedAt[u]
          /\ revokedAt'[t] \in {now, revokedAt[t]} /\ (revokedAt[t] = Never => revokedAt'[t] = now)
  BY <1>1 DEF RevocationTypeOK
<1>5. NewsInv'
  <2>1. \A u \in Tokens : revokedAt'[u] <= now'
    BY <1>1, <1>4 DEF NewsInv, RevocationTypeOK
  <2>2. \A u \in Named : Live(u)' => u \in denylist'
    BY <1>1, <1>4 DEF NewsInv, Live
  <2>3. ASSUME NEW f \in Fibers, NEW u \in Named, pc[f] = "fetching", reply[f].kind = "list",
               u \notin reply[f].list, Live(u)'
        PROVE  asked[f] <= revokedAt'[u]
    BY <1>1, <1>4, <2>3 DEF NewsInv, DelayInv, Live
  <2>4. ASSUME NEW u \in Named, ~running, cached.kind = "list", u \notin cached.list, Live(u)'
        PROVE  expiresAt <= revokedAt'[u] + Ttl + MaxFetch
    <3>1. CASE revokedAt'[u] = now
      BY <3>1 DEF DelayInv, RevocationTypeOK
    <3>2. CASE revokedAt'[u] = revokedAt[u]
      BY <1>1, <2>4, <3>2 DEF NewsInv, Live
    <3> QED
      BY <1>4, <3>1, <3>2
  <2> QED
    BY <1>1, <2>1, <2>2, <2>3, <2>4 DEF NewsInv
<1>6. RefusalInv'
  BY <1>1 DEF RefusalInv
<1> QED
  BY <1>2, <1>3, <1>5, <1>6

\* The provider's answer is the denylist, less what nobody accepts any more.
LEMMA ServeStep == ASSUME Inv, NEW f \in Fibers, Serve(f) PROVE Inv'
<1> USE TokenAssumption, DelayAssumption DEF Inv, listVars
<1>1. /\ UNCHANGED <<now, revokedAt, listVars, pc, token, asked, verdict, refused>>
      /\ denylist' = {t \in denylist : now <= Exp[t]} /\ pc[f] = "fetching"
      /\ reply' = [reply EXCEPT ![f] = List(denylist')]
  BY DEF Serve
<1>2. RevocationTypeOK'
  BY TypeStep DEF Next
<1>3. \A g \in Fibers : reply'[g] = IF g = f THEN List(denylist') ELSE reply[g]
  BY <1>1 DEF RevocationTypeOK
<1>4. FlightInv' /\ DelayInv' /\ FailureInv'
  BY <1>1, <1>3 DEF FlightInv, DelayInv, FailureInv, Unexpired, List, Failure
<1>5. NewsInv'
  BY <1>1, <1>3 DEF NewsInv, Live, List
<1>6. RefusalInv'
  BY <1>1, <1>3 DEF RefusalInv, List
<1> QED
  BY <1>2, <1>4, <1>5, <1>6

\* A request comes or goes, or looks the list up: the list is as it was.
LEMMA RequestStep ==
    ASSUME Inv, NEW f \in Fibers,
           Leave(f) \/ Join(f) \/ \E t \in Tokens : Present(f, t)
    PROVE  Inv'
<1> USE TokenAssumption, DelayAssumption DEF Inv, listVars, providerVars
<1>1. UNCHANGED <<now, providerVars, listVars, reply, asked, refused>>
  BY DEF Leave, Join, Present
<1>2. RevocationTypeOK'
  BY TypeStep DEF Next, Run
<1>3. \A g \in Fibers \ {f} : pc'[g] = pc[g] /\ token'[g] = token[g]
  BY DEF Leave, Join, Present, RevocationTypeOK
<1>4. /\ pc[f] # "fetching" /\ pc[f] # "waiting"
      /\ pc'[f] # "fetching" /\ (pc'[f] = "waiting" => running)
      /\ pc'[f] # "idle" => token'[f] \in Tokens
      /\ pc'[f] = "lookup" => Unexpired(token'[f])
      /\ pc'[f] = "waiting" => pc[f] = "lookup" /\ token' = token
  BY DEF Leave, Join, Present, RevocationTypeOK, FlightInv
<1>5. FlightInv'
  BY <1>1, <1>3, <1>4 DEF FlightInv
<1>6. DelayInv'
  <2>1. ASSUME NEW g \in Fibers, NEW h \in Fibers, pc'[g] = "fetching", h = g \/ pc'[h] = "waiting"
        PROVE  asked[g] <= Exp[token'[h]] + Skew
    <3>1. g # f /\ pc[g] = "fetching"
      BY <1>3, <1>4, <2>1
    <3>2. CASE h = f
      <4>1. token'[h] = token[h] /\ Unexpired(token[h]) /\ token[h] \in Tokens /\ asked[g] <= now
        BY <1>4, <2>1, <3>1, <3>2 DEF DelayInv, FlightInv
      <4> QED
        BY <4>1 DEF Unexpired, RevocationTypeOK
    <3>3. CASE h # f
      BY <1>3, <2>1, <3>1, <3>3 DEF DelayInv
    <3> QED
      BY <3>2, <3>3
  <2>2. ASSUME NEW g \in Fibers
        PROVE  /\ pc'[g] = "fetching" => asked[g] <= now /\ now <= asked[g] + MaxFetch
               /\ pc'[g] = "lookup" => Unexpired(token'[g])
    BY <1>3, <1>4 DEF DelayInv
  <2> QED
    BY <1>1, <2>1, <2>2 DEF DelayInv, Unexpired
<1>7. NewsInv'
  BY <1>1, <1>3, <1>4 DEF NewsInv, Live
<1>8. RefusalInv' /\ FailureInv'
  BY <1>1 DEF RefusalInv, FailureInv
<1> QED
  BY <1>2, <1>5, <1>6, <1>7, <1>8

\* A list that is cached is looked at: what it refuses stays refused.
LEMMA HitStep == ASSUME Inv, NEW f \in Fibers, Hit(f) PROVE Inv'
<1> USE TokenAssumption, DelayAssumption DEF Inv, listVars, providerVars
<1>1. /\ UNCHANGED <<now, providerVars, listVars, token, reply, asked>>
      /\ pc[f] = "lookup" /\ ~running /\ now < expiresAt /\ Judge({f}, cached)
  BY DEF Hit
<1>2. RevocationTypeOK'
  BY TypeStep DEF Next, Run
<1>3. /\ \A g \in Fibers : pc'[g] = IF g = f THEN "done" ELSE pc[g]
      /\ \A t \in refused' : t \in refused \/ t \in cached.list
  BY <1>1 DEF Judge
<1>4. FlightInv'
  BY <1>1, <1>3 DEF FlightInv
<1>5. DelayInv'
  BY <1>1, <1>3 DEF DelayInv, Unexpired
<1>6. NewsInv'
  BY <1>1, <1>3 DEF NewsInv, Live
<1>7. \A g \in Fibers : reply[g].kind # "list"
  BY <1>1 DEF FlightInv, Nothing
<1>8. RefusalInv' /\ FailureInv'
  BY <1>1, <1>3, <1>7 DEF RefusalInv, FailureInv
<1> QED
  BY <1>2, <1>4, <1>5, <1>6, <1>8

\* A fetch starts when the outcome has had its time, and nobody else fetches.
LEMMA StartStep == ASSUME Inv, NEW f \in Fibers, StartFetch(f) PROVE Inv'
<1> USE TokenAssumption, DelayAssumption DEF Inv, providerVars
<1>1. /\ UNCHANGED <<now, providerVars, expiresAt, failedAt, token, reply, verdict, refused>>
      /\ pc[f] = "lookup" /\ ~running /\ running' /\ cached' = Empty(Nothing)
      /\ Empty(Nothing).list = {} /\ Empty(Nothing).kind = Nothing
  BY DEF StartFetch, Empty
<1>2. RevocationTypeOK'
  BY TypeStep DEF Next, Run
<1>3. /\ \A g \in Fibers : pc'[g] = IF g = f THEN "fetching" ELSE pc[g]
      /\ \A g \in Fibers : asked'[g] = IF g = f THEN now ELSE asked[g]
  BY DEF StartFetch, RevocationTypeOK
<1>4. \A g \in Fibers : pc[g] \notin {"fetching", "waiting"} /\ reply[g].kind = Nothing
  BY <1>1 DEF FlightInv
<1>5. FlightInv'
  BY <1>1, <1>3, <1>4 DEF FlightInv, Nothing, Failure
<1>6. DelayInv'
  BY <1>1, <1>3, <1>4 DEF DelayInv, Unexpired, RevocationTypeOK
<1>7. NewsInv'
  BY <1>1, <1>3, <1>4 DEF NewsInv, Live, Nothing
<1>8. RefusalInv'
  BY <1>1, <1>4 DEF RefusalInv, Nothing
<1>9. FailureInv'
  BY <1>1 DEF FailureInv, Nothing, Failure
<1> QED
  BY <1>2, <1>5, <1>6, <1>7, <1>8, <1>9

\* The end of a fetch, whatever its outcome: nobody fetches or waits any more.
LEMMA SettleFlight ==
    ASSUME Inv, NEW f \in Fibers, pc[f] = "fetching", NEW o \in Outcomes, Settle(f, o)
    PROVE  /\ now' = now /\ UNCHANGED providerVars /\ token' = token
           /\ ~running' /\ cached' = o
           /\ expiresAt' <= now + Ttl /\ expiresAt' <= asked[f] + Ttl + MaxFetch
           /\ \A g \in Fibers :
                 /\ pc'[g] = IF pc[g] \in {"fetching", "waiting"} THEN "done" ELSE pc[g]
                 /\ reply'[g].kind = Nothing
                 /\ reply'[g].list = {} \/ reply'[g] = reply[g]
           /\ \A t \in refused' : t \in refused \/ t \in o.list
<1> USE DelayAssumption DEF Inv, providerVars
<1>1. /\ now' = now /\ UNCHANGED providerVars /\ token' = token
      /\ ~running' /\ cached' = o /\ Judge(Audience(f), o)
      /\ reply' = [reply EXCEPT ![f] = Empty(Nothing)]
  BY DEF Settle, Audience
<1>2. asked[f] <= now /\ now <= asked[f] + MaxFetch /\ asked[f] \in Nat /\ now \in Nat
  BY DEF DelayInv, RevocationTypeOK
<1>3. expiresAt' <= now + Ttl /\ expiresAt' <= asked[f] + Ttl + MaxFetch
  BY <1>2 DEF Settle
<1>4. \A g \in Fibers : g \in Audience(f) <=> pc[g] \in {"fetching", "waiting"}
  BY DEF Audience, FlightInv
<1>5. \A g \in Fibers : pc'[g] = IF pc[g] \in {"fetching", "waiting"} THEN "done" ELSE pc[g]
  BY <1>1, <1>4 DEF Judge
<1>6. Empty(Nothing).kind = Nothing /\ Empty(Nothing).list = {}
  BY DEF Empty
<1>7. \A g \in Fibers :
          reply'[g] = IF g = f THEN Empty(Nothing) ELSE reply[g]
  BY <1>1 DEF RevocationTypeOK
<1>8. \A g \in Fibers : g # f => reply[g].kind = Nothing
  BY DEF FlightInv
<1>9. \A t \in refused' : t \in refused \/ t \in o.list
  BY <1>1 DEF Judge
<1> QED
  BY <1>1, <1>3, <1>5, <1>6, <1>7, <1>8, <1>9

\* What the invariant asks of an outcome for it to be kept.
LEMMA SettleStep ==
    ASSUME Inv, NEW f \in Fibers, pc[f] = "fetching", NEW o \in Outcomes, Settle(f, o),
           o.kind # Nothing,
           o.kind = "list" => o = reply[f] /\ failedAt' = failedAt,
           o.kind = Failure => o.list = {} /\ failedAt' = now
    PROVE  Inv'
<1> USE TokenAssumption, DelayAssumption DEF Inv, providerVars
<1>1. RevocationTypeOK'
  <2>1. failedAt' \in Nat \cup {Never}
    BY DEF Outcomes, RevocationTypeOK
  <2> QED
    BY <2>1, SettleType
<1>2. /\ now' = now /\ UNCHANGED <<denylist, revokedAt>> /\ token' = token
      /\ ~running' /\ cached' = o /\ now \in Nat /\ o.kind \in {Failure, "list"}
  BY SettleFlight DEF RevocationTypeOK, Outcomes
<1>3. FlightInv'
  BY <1>2, SettleFlight DEF FlightInv, Nothing, Failure
<1>4. DelayInv'
  BY <1>2, SettleFlight DEF DelayInv, Unexpired
<1>5. NewsInv'
  <2>1. ASSUME NEW t \in Named, o.kind = "list", t \notin o.list, Live(t)'
        PROVE  expiresAt' <= revokedAt[t] + Ttl + MaxFetch
    <3>1. asked[f] <= revokedAt[t] /\ revokedAt[t] \in Int /\ asked[f] \in Int /\ expiresAt' \in Int
      BY <1>1, <1>2, <2>1 DEF NewsInv, Live, RevocationTypeOK, Never
    <3> QED
      BY <3>1, SettleFlight
  <2>2. \A g \in Fibers : pc'[g] # "fetching"
    BY SettleFlight
  <2>3. \A t \in Named : Live(t)' => Live(t)
    BY <1>2 DEF Live
  <2> QED
    BY <1>2, <2>1, <2>2, <2>3 DEF NewsInv
<1>6. RefusalInv'
  BY <1>2, SettleFlight DEF RefusalInv, Nothing
<1>7. FailureInv'
  <2>1. CASE o.kind = "list"
    BY <1>2, <2>1 DEF FailureInv, Failure
  <2>2. CASE o.kind = Failure
    BY <1>2, <2>2, SettleFlight DEF FailureInv, Never
  <2> QED
    BY <1>2, <2>1, <2>2
<1> QED
  BY <1>1, <1>3, <1>4, <1>5, <1>6, <1>7

\* Every step keeps the invariant.
LEMMA InvStep == ASSUME Inv, [Next]_vars PROVE Inv'
<1>1. CASE Tick
  BY <1>1, TickStep
<1>2. ASSUME NEW t \in Tokens, Revoke(t) PROVE Inv'
  BY <1>2, RevokeStep
<1>3. ASSUME NEW f \in Fibers, Arrive(f) PROVE Inv'
  BY <1>3, SettleStep DEF Arrive, Inv, RevocationTypeOK, Nothing, Failure
<1>4. ASSUME NEW f \in Fibers, Fail(f) PROVE Inv'
  <2>1. /\ Empty(Failure) \in Outcomes /\ Empty(Failure).list = {}
        /\ Empty(Failure).kind = Failure /\ Failure # "list" /\ Failure # Nothing
    BY DEF Empty, Outcomes, Failure, Nothing
  <2> QED
    BY <1>4, <2>1, SettleStep DEF Fail
<1>5. ASSUME NEW f \in Fibers, Run(f) \/ Serve(f) \/ Leave(f) PROVE Inv'
  BY <1>3, <1>4, <1>5, HitStep, RequestStep, StartStep, ServeStep DEF Run
<1>6. ASSUME NEW f \in Fibers, NEW t \in Tokens, Present(f, t) PROVE Inv'
  BY <1>6, RequestStep
<1>7. CASE UNCHANGED vars
  BY <1>7 DEF vars, providerVars, listVars, requestVars, Inv, RevocationTypeOK, FlightInv,
              DelayInv, NewsInv, RefusalInv, FailureInv, Live, Unexpired
<1> QED
  BY <1>1, <1>2, <1>5, <1>6, <1>7 DEF Next

\* The invariant holds of every behaviour.
LEMMA Invariance == Spec => []Inv
<1> QED
  BY InvInit, InvStep, PTL DEF Spec

------------------------------------------------------------------------------
(* What passes.                                                             *)

\* A request is let through at once, with a token no denylist can hold; by a
\* cached list without its token that is still to be served; or by such a list
\* at the end of the fetch it ran or joined.
LEMMA HowTokensPass ==
    ASSUME Inv, [Next]_vars, NEW t \in Tokens, Passes(t)
    PROVE  \/ t \notin Named /\ Unexpired(t)
           \/ /\ ~running /\ now < expiresAt /\ cached.kind = "list" /\ t \notin cached.list
              /\ Unexpired(t)
           \/ \E f \in Fibers :
                 /\ pc[f] = "fetching" /\ reply[f].kind = "list" /\ t \notin reply[f].list
                 /\ asked[f] <= Exp[t] + Skew
<1>1. PICK f \in Fibers : token'[f] = t /\ verdict[f] = "pending" /\ verdict'[f] = "Ok"
  BY DEF Passes
<1>2. CASE Tick \/ (\E u \in Tokens : Revoke(u)) \/ UNCHANGED vars
  BY <1>1, <1>2 DEF Tick, Revoke, vars, requestVars
<1>3. ASSUME NEW g \in Fibers, Join(g) \/ StartFetch(g) \/ Serve(g) \/ Leave(g) PROVE FALSE
  BY <1>1, <1>3 DEF Join, StartFetch, Serve, Leave, Inv, RevocationTypeOK
<1>4. ASSUME NEW g \in Fibers, NEW u \in Tokens, Present(g, u)
      PROVE  t \notin Named /\ Unexpired(t)
  BY <1>1, <1>4 DEF Present, Inv, RevocationTypeOK
<1>5. ASSUME NEW g \in Fibers, Hit(g)
      PROVE  /\ ~running /\ now < expiresAt /\ cached.kind = "list" /\ t \notin cached.list
             /\ Unexpired(t)
  <2>1. /\ pc[g] = "lookup" /\ ~running /\ now < expiresAt /\ token' = token
        /\ verdict'[f] = IF f # g THEN verdict[f]
                         ELSE IF cached.kind = Failure THEN "NoRevocations"
                         ELSE IF token[f] \in cached.list THEN "Revoked" ELSE "Ok"
    BY <1>5 DEF Hit, Judge
  <2>2. f = g /\ cached.kind # Failure /\ t \notin cached.list
    BY <1>1, <2>1
  <2>3. Unexpired(t)
    BY <1>1, <2>1, <2>2 DEF Inv, DelayInv
  <2>4. cached.kind # Nothing
    BY <2>1 DEF Inv, DelayInv, RevocationTypeOK
  <2> QED
    BY <2>1, <2>2, <2>3, <2>4 DEF Inv, RevocationTypeOK, Outcomes
<1>6. ASSUME NEW g \in Fibers, NEW o, pc[g] = "fetching", Settle(g, o)
      PROVE  o.kind # Failure /\ t \notin o.list /\ asked[g] <= Exp[t] + Skew
  <2>1. /\ token' = token
        /\ verdict'[f] = IF f # g /\ pc[f] # "waiting" THEN verdict[f]
                         ELSE IF o.kind = Failure THEN "NoRevocations"
                         ELSE IF token[f] \in o.list THEN "Revoked" ELSE "Ok"
    BY <1>6 DEF Settle, Judge
  <2>2. (f = g \/ pc[f] = "waiting") /\ token[f] = t
    BY <1>1, <2>1
  <2> QED
    BY <1>1, <1>6, <2>1, <2>2 DEF Inv, DelayInv
<1>7. ASSUME NEW g \in Fibers, Fail(g) PROVE FALSE
  BY <1>6, <1>7 DEF Fail, Empty
<1>8. ASSUME NEW g \in Fibers, Arrive(g)
      PROVE  /\ pc[g] = "fetching" /\ reply[g].kind = "list" /\ t \notin reply[g].list
             /\ asked[g] <= Exp[t] + Skew
  BY <1>6, <1>8 DEF Arrive
<1> QED
  BY <1>2, <1>3, <1>4, <1>5, <1>7, <1>8 DEF Next, Run

\* Every variable keeps its type.
THEOREM RevocationTypeCorrect == Spec => []RevocationTypeOK
<1>1. Inv => RevocationTypeOK
  BY DEF Inv
<1> QED
  BY <1>1, Invariance, PTL

\* A revoked token passes for at most a ttl and a fetch after its revocation
\* was acknowledged: the copy the resource server goes by is never older.
THEOREM RevocationIsTimely == Spec => RevocationTakesEffect
<1>1. ASSUME Inv, [Next]_vars, NEW t \in Tokens, TakenEffect(t), now <= Exp[t], Passes(t)
      PROVE  FALSE
  <2>1. /\ t \in Named /\ Live(t) /\ now > revokedAt[t] + Ttl + MaxFetch
        /\ revokedAt[t] \in Int /\ now \in Int /\ expiresAt \in Int
        /\ Ttl \in Nat /\ MaxFetch \in Nat
    BY <1>1, DelayAssumption DEF TakenEffect, Live, Inv, RevocationTypeOK, Never
  <2>2. CASE ~running /\ now < expiresAt /\ cached.kind = "list" /\ t \notin cached.list
    BY <1>1, <2>1, <2>2 DEF Inv, NewsInv
  <2>3. ASSUME NEW f \in Fibers,
               pc[f] = "fetching", reply[f].kind = "list", t \notin reply[f].list
        PROVE  FALSE
    <3>1. asked[f] <= revokedAt[t] /\ now <= asked[f] + MaxFetch /\ asked[f] \in Int
      BY <1>1, <2>1, <2>3 DEF Inv, NewsInv, DelayInv, RevocationTypeOK
    <3> QED
      BY <2>1, <3>1
  <2> QED
    BY <1>1, <2>1, <2>2, <2>3, HowTokensPass
<1>2. Inv /\ [Next]_vars
        => [\A t \in Tokens : TakenEffect(t) /\ now <= Exp[t] => ~Passes(t)]_vars
  BY <1>1
<1> QED
  BY <1>2, Invariance, PTL DEF Spec, RevocationTakesEffect

\* No list that is served later lacks a token that was refused, until its exp.
THEOREM RefusalHolds == Spec => RefusalIsFinal
<1>1. ASSUME Inv, [Next]_vars, NEW t \in Tokens, t \in refused, now <= Exp[t], Passes(t)
      PROVE  FALSE
  <2>1. t \in Named
    BY <1>1 DEF Inv, RevocationTypeOK, Lists
  <2> QED
    BY <1>1, <2>1, HowTokensPass DEF Inv, RefusalInv
<1>2. Inv /\ [Next]_vars
        => [\A t \in Tokens : t \in refused /\ now <= Exp[t] => ~Passes(t)]_vars
  BY <1>1
<1> QED
  BY <1>2, Invariance, PTL DEF Spec, RefusalIsFinal

\* A token passes after its expiry by the skew and one fetch at most.
THEOREM LateByOneFetchHolds == Spec => LateByOneFetch
<1>1. ASSUME Inv, [Next]_vars, NEW t \in Tokens, Passes(t)
      PROVE  now <= Exp[t] + Skew + MaxFetch
  <2>1. now \in Nat /\ Exp[t] \in Nat /\ Skew \in Nat /\ MaxFetch \in Nat
    BY <1>1, TokenAssumption, DelayAssumption DEF Inv, RevocationTypeOK
  <2>2. CASE Unexpired(t)
    BY <2>1, <2>2 DEF Unexpired
  <2>3. ASSUME NEW f \in Fibers, pc[f] = "fetching", asked[f] <= Exp[t] + Skew
        PROVE  now <= Exp[t] + Skew + MaxFetch
    <3>1. now <= asked[f] + MaxFetch /\ asked[f] \in Nat
      BY <1>1, <2>3 DEF Inv, DelayInv, RevocationTypeOK
    <3> QED
      BY <2>1, <2>3, <3>1
  <2> QED
    BY <1>1, <2>2, <2>3, HowTokensPass
<1>2. Inv /\ [Next]_vars
        => [\A t \in Tokens : Passes(t) => now <= Exp[t] + Skew + MaxFetch]_vars
  BY <1>1
<1> QED
  BY <1>2, Invariance, PTL DEF Spec, LateByOneFetch

\* A request is answered 500 only within a ttl of a fetch that failed.
THEOREM OutageEnds == Spec => OutageEndsWithTtl
<1>1. ASSUME Inv, [Next]_vars, NEW f \in Fibers,
             verdict[f] = "pending", verdict'[f] = "NoRevocations"
      PROVE  failedAt' # Never /\ now < failedAt' + Ttl
  <2>1. now \in Nat /\ failedAt \in Int /\ expiresAt \in Nat /\ Ttl \in Nat \ {0}
    BY <1>1, DelayAssumption DEF Inv, RevocationTypeOK, Never
  <2>2. CASE Tick \/ (\E u \in Tokens : Revoke(u)) \/ UNCHANGED vars
    BY <1>1, <2>2 DEF Tick, Revoke, vars, requestVars
  <2>3. ASSUME NEW g \in Fibers,
               \/ Join(g) \/ StartFetch(g) \/ Serve(g) \/ Leave(g)
               \/ \E t \in Tokens : Present(g, t)
        PROVE  FALSE
    BY <1>1, <2>3 DEF Join, StartFetch, Serve, Leave, Present, Inv, RevocationTypeOK
  <2>4. ASSUME NEW g \in Fibers, Hit(g) PROVE failedAt' # Never /\ now < failedAt' + Ttl
    <3>1. cached.kind = Failure /\ now < expiresAt /\ failedAt' = failedAt
      BY <1>1, <2>4 DEF Hit, Judge, listVars
    <3> QED
      BY <1>1, <2>1, <3>1 DEF Inv, FailureInv
  <2>5. ASSUME NEW g \in Fibers, Arrive(g) PROVE FALSE
    <3>1. reply[g].kind = "list" /\ verdict'[f] \in {verdict[f], "NoRevocations", "Revoked", "Ok"}
            /\ (verdict'[f] = "NoRevocations" => verdict[f] = verdict'[f] \/ reply[g].kind = Failure)
      BY <1>1, <2>5 DEF Arrive, Settle, Judge
    <3> QED
      BY <1>1, <3>1 DEF Failure
  <2>6. ASSUME NEW g \in Fibers, Fail(g) PROVE failedAt' # Never /\ now < failedAt' + Ttl
    BY <2>1, <2>6 DEF Fail, Never
  <2> QED
    BY <1>1, <2>2, <2>3, <2>4, <2>5, <2>6 DEF Next, Run
<1>2. Inv /\ [Next]_vars
        => [\A f \in Fibers : verdict[f] = "pending" /\ verdict'[f] = "NoRevocations"
              => failedAt' # Never /\ (now < failedAt' + Ttl)]_vars
  BY <1>1
<1> QED
  BY <1>2, Invariance, PTL DEF Spec, OutageEndsWithTtl
------------------------------------------------------------------------------
(* Nobody waits for nothing: what remains of liveness when fairness is left *)
(* out.                                                                     *)

\* A request that waits for the list waits for one whose fetch is still out.
SomebodyFetches ==
    \A f \in Fibers : pc[f] = "waiting" => \E g \in Fibers : pc[g] = "fetching"

\* What FlightInv lacks: the flag that makes requests wait stands for a fetch.
RunningInv == running => \E g \in Fibers : pc[g] = "fetching"

\* Every step keeps it.
LEMMA RunningStep == ASSUME RevocationTypeOK, RunningInv, [Next]_vars PROVE RunningInv'
<1>1. CASE Tick \/ (\E t \in Tokens : Revoke(t)) \/ UNCHANGED vars
  BY <1>1 DEF Tick, Revoke, vars, listVars, requestVars, RunningInv
<1>2. ASSUME NEW f \in Fibers, Arrive(f) \/ Fail(f) PROVE RunningInv'
  BY <1>2 DEF Arrive, Fail, Settle, RunningInv
<1>3. ASSUME NEW f \in Fibers, Hit(f) PROVE RunningInv'
  BY <1>3 DEF Hit, listVars, RunningInv
<1>4. ASSUME NEW f \in Fibers, StartFetch(f) PROVE RunningInv'
  BY <1>4 DEF StartFetch, RevocationTypeOK, RunningInv
<1>5. ASSUME NEW f \in Fibers, Join(f) \/ Leave(f) \/ Serve(f) \/ \E t \in Tokens : Present(f, t)
      PROVE  RunningInv'
  <2>1. /\ running' = running
        /\ \A g \in Fibers : pc[g] = "fetching" => pc'[g] = "fetching"
    BY <1>5 DEF Join, Leave, Serve, Present, listVars, RevocationTypeOK
  <2> QED
    BY <2>1 DEF RunningInv
<1> QED
  BY <1>1, <1>2, <1>3, <1>4, <1>5 DEF Next, Run

\* However requests join a fetch, inherit its failure or start the next one,
\* whoever waits for the list waits for a fetch that is out.
THEOREM NobodyWaitsForNoList == Spec => []SomebodyFetches
<1>1. Init => RunningInv
  BY DEF Init, RunningInv
<1>2. RevocationTypeOK /\ RunningInv /\ [Next]_vars => RunningInv'
  BY RunningStep
<1>3. Inv => RevocationTypeOK
  BY DEF Inv
<1>4. Inv /\ RunningInv => SomebodyFetches
  BY DEF Inv, FlightInv, RunningInv, SomebodyFetches
<1> QED
  BY <1>1, <1>2, <1>3, <1>4, Invariance, PTL DEF Spec
==============================================================================

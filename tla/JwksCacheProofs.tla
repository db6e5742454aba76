--------------------------- MODULE JwksCacheProofs ---------------------------
(***************************************************************************)
(* Proofs about JwksCache: its type invariant, the safety invariants its   *)
(* runs check, the spacing of forced refreshes, and that it implements     *)
(* KeyView, for any set of callers, any ttl, window and bounds.            *)
(***************************************************************************)
EXTENDS JwksCache, TLAPS

\* The steps of one caller.
CallerStep(c) == Run(c) \/ Get(c) \/ Refresh(c) \/ Finish(c)

------------------------------------------------------------------------------
(* Type correctness.                                                        *)

\* What delivering an outcome does to the callers' variables.
LEMMA DeliverType ==
    ASSUME TypeOK, NEW S \in SUBSET Callers, NEW o \in Outcome, Deliver(S, o)
    PROVE  /\ pc' \in [Callers -> Steps]
           /\ answer' \in [Callers -> Outcome]
           /\ seen' \in [Callers -> {NoDoc} \cup Docs]
  BY DEF TypeOK, Deliver, Steps, Urgent, Docs

\* What the end of a fetch does to the types.
LEMMA SettleType ==
    ASSUME TypeOK, NEW c \in Callers, NEW o \in Outcome, Settle(c, o),
           lastGood' \in {NoDoc} \cup Docs
    PROVE  TypeOK'
<1>1. expiresAt' \in Nat
  BY TtlAssumption DEF Settle, TypeOK
<1>2. {c} \cup {d \in Callers : pc[d] = "waiting"} \in SUBSET Callers
  OBVIOUS
<1>3. /\ pc' \in [Callers -> Steps]
      /\ answer' \in [Callers -> Outcome]
      /\ seen' \in [Callers -> {NoDoc} \cup Docs]
  BY <1>2, DeliverType DEF Settle
<1>4. fetch' \in [Callers -> [since : {NoDoc} \cup Docs, at : Nat]]
  BY DEF Settle, TypeOK, NoFetch
<1> QED
  BY <1>1, <1>3, <1>4 DEF Settle, TypeOK

\* The initial state is typed.
LEMMA TypeInit == ASSUME Init PROVE TypeOK
<1>1. 1 \in Docs /\ NoDoc \in {NoDoc} \cup Docs /\ 0 \in Nat
  BY VersionAssumption DEF Docs
<1>2. NoExit \in Outcome
  BY DEF NoExit, Outcome
<1>3. NoFetch \in [since : {NoDoc} \cup Docs, at : Nat]
  BY DEF NoFetch
<1>4. "idle" \in Steps /\ "get" \in Legs
  BY DEF Steps, Legs
<1> QED
  BY <1>1, <1>2, <1>3, <1>4, ClockAssumption DEF Init, TypeOK

\* Every step keeps the types.
LEMMA TypeStep == ASSUME TypeOK, [Next]_vars PROVE TypeOK'
<1>1. CASE Tick
  BY <1>1 DEF Tick, TypeOK, cacheVars, callVars
<1>2. CASE Rotate
  BY <1>2, VersionAssumption DEF Rotate, TypeOK, Docs, cacheVars, callVars
<1>3. ASSUME NEW c \in Callers, CallerStep(c) PROVE TypeOK'
  <2>1. CASE Hit(c)
    <3>1. /\ pc' \in [Callers -> Steps]
          /\ answer' \in [Callers -> Outcome]
          /\ seen' \in [Callers -> {NoDoc} \cup Docs]
      BY <2>1, DeliverType DEF Hit, TypeOK
    <3> QED
      BY <2>1, <3>1 DEF Hit, TypeOK, cacheVars
  <2>2. CASE Join(c)
    BY <2>2 DEF Join, TypeOK, cacheVars, Steps
  <2>3. CASE StartFetch(c)
    BY <2>3 DEF StartFetch, TypeOK, Outcome, NoExit, Steps, Docs
  <2>4. CASE FetchSucceeds(c)
    <3>1. PICK v \in fetch[c].since..published :
            lastGood' = v /\ Settle(c, [doc |-> v, fell |-> FALSE])
      BY <2>4 DEF FetchSucceeds
    <3>2. v \in {NoDoc} \cup Docs
      <4>1. fetch[c].since \in {NoDoc} \cup Docs /\ published \in Docs
        BY <1>3 DEF TypeOK
      <4> QED
        BY <4>1, VersionAssumption DEF Docs, NoDoc
    <3>3. [doc |-> v, fell |-> FALSE] \in Outcome
      BY <3>2 DEF Outcome
    <3> QED
      BY <3>1, <3>2, <3>3, SettleType
  <2>5. CASE FetchFails(c)
    <3>1. [doc |-> lastGood, fell |-> TRUE] \in Outcome
      BY DEF Outcome, TypeOK
    <3>2. lastGood' \in {NoDoc} \cup Docs
      BY <2>5 DEF FetchFails, TypeOK
    <3> QED
      BY <2>5, <3>1, <3>2, SettleType DEF FetchFails
  <2>6. CASE Evict(c)
    BY <2>6 DEF Evict, Drop, TypeOK, Outcome, NoExit, Steps
  <2>7. CASE RateLimited(c)
    BY <2>7 DEF RateLimited, TypeOK, cacheVars, Steps, Urgent, Legs
  <2>8. CASE PassWindow(c)
    BY <2>8 DEF PassWindow, TypeOK, cacheVars, Steps, Urgent
  <2>9. CASE Stamp(c)
    BY <2>9 DEF Stamp, TypeOK, cacheVars, Steps, Urgent
  <2>10. CASE Invalidate(c)
    BY <2>10 DEF Invalidate, Drop, TypeOK, Outcome, NoExit, Steps, Urgent, Legs
  <2>11. CASE Get(c)
    BY <2>11 DEF Get, TypeOK, cacheVars, Steps, Urgent
  <2>12. CASE Refresh(c)
    BY <2>12 DEF Refresh, TypeOK, cacheVars, Steps, Urgent, Outcome, NoExit
  <2>13. CASE Finish(c)
    BY <2>13 DEF Finish, TypeOK, cacheVars, Steps, Legs, Outcome, NoExit
  <2> QED
    BY <1>3, <2>1, <2>2, <2>3, <2>4, <2>5, <2>6, <2>7, <2>8, <2>9, <2>10,
       <2>11, <2>12, <2>13 DEF CallerStep, Run, Enter, FetchEnds
<1>4. CASE UNCHANGED vars
  BY <1>4 DEF vars, cacheVars, callVars, TypeOK
<1> QED
  BY <1>1, <1>2, <1>3, <1>4 DEF Next, CallerStep

\* Every variable keeps its type: the clock and the stamps are naturals, and
\* a caller is always at one of the steps of get and refresh.
THEOREM TypeCorrect == Spec => []TypeOK
<1>1. Init => TypeOK
  BY TypeInit
<1>2. TypeOK /\ [Next]_vars => TypeOK'
  BY TypeStep
<1> QED
  BY <1>1, <1>2, PTL DEF Spec

------------------------------------------------------------------------------
(* The inductive invariant.                                                 *)

\* One fetch at a time, and nothing is stored while it runs.
FlightInv ==
    /\ SingleFlight
    /\ \A c \in Callers : pc[c] = "fetching" => running
    /\ running => exit = NoExit

\* A fetch asks after everything learned so far: its answer can be neither
\* older than lastGood nor older than what a caller has seen published.
FreshInv ==
    /\ lastGood <= published
    /\ \A c \in Callers : seen[c] <= published
    /\ \A c \in Callers : pc[c] = "fetching" =>
          /\ fetch[c].since \in Docs
          /\ fetch[c].since <= published
          /\ lastGood <= fetch[c].since
          /\ \A d \in Callers : seen[d] <= fetch[c].since

\* What is stored: lastGood, or a failure someone is about to evict, or
\* nothing, and then nothing is served.
StoredInv ==
    /\ StoredIsLastGood
    /\ exit = NoExit => expiresAt <= now
    /\ exit # NoExit /\ exit.doc = NoDoc => exit.fell
    /\ FailureIsBeingEvicted

\* A caller that forced a refresh finds only outcomes of later fetches.
ForcedInv ==
    /\ RefreshSeesRotation
    /\ \A c \in Callers : pc[c] = "idle" => leg[c] = "get"
    /\ \A c \in Callers :
          pc[c] = "get" /\ leg[c] = "forced" /\ exit # NoExit /\ ~exit.fell
              => exit.doc >= seen[c]

\* The check of the window still holds when the stamp is set, unless another
\* caller stamped the same instant.
StampInv ==
    \A c \in Callers : pc[c] = "stamp" =>
        /\ checked[c] = now
        /\ now - lastRefresh >= MinRefresh \/ lastRefresh = now

Inv ==
    /\ TypeOK
    /\ FlightInv
    /\ FreshInv
    /\ StoredInv
    /\ ForcedInv
    /\ StampInv

\* The strengthened invariant holds initially.
LEMMA InvInit == ASSUME Init PROVE Inv
<1>1. TypeOK
  BY TypeInit
<1>2. FlightInv
  BY DEF Init, FlightInv, SingleFlight
<1>3. FreshInv
  BY DEF Init, FreshInv, NoDoc
<1>4. StoredInv
  BY ClockAssumption DEF Init, StoredInv, StoredIsLastGood, FailureIsBeingEvicted, NoExit, NoDoc
<1>5. ForcedInv
  BY DEF Init, ForcedInv, RefreshSeesRotation
<1>6. StampInv
  BY DEF Init, StampInv
<1> QED
  BY <1>1, <1>2, <1>3, <1>4, <1>5, <1>6 DEF Inv

\* The end of a fetch preserves it, whatever the outcome it stores.
LEMMA SettleInv ==
    ASSUME Inv, TypeOK', NEW c \in Callers, pc[c] = "fetching",
           NEW o \in Outcome, Settle(c, o),
           o # NoExit, o.doc = lastGood', o.doc = NoDoc => o.fell,
           lastGood' <= published,
           ~o.fell => o.doc >= fetch[c].since
    PROVE  Inv'
<1> USE DEF Inv
<1>1. /\ running' = FALSE
      /\ exit' = o
      /\ UNCHANGED <<now, published, lastRefresh, leg, checked>>
  BY DEF Settle
<1>2. \A d \in Callers :
        /\ pc'[d] = IF d = c \/ pc[d] = "waiting"
                    THEN IF o.doc = NoDoc THEN "evict" ELSE "answered"
                    ELSE pc[d]
        /\ answer'[d] = IF d = c \/ pc[d] = "waiting" THEN o ELSE answer[d]
        /\ seen'[d] \in {seen[d], published}
        /\ leg[d] # "get" => seen'[d] = seen[d]
  BY DEF Settle, Deliver
<1>4. \A d \in Callers : pc'[d] # "fetching"
  BY <1>2 DEF FlightInv, SingleFlight
<1>5. FlightInv'
  BY <1>1, <1>4 DEF FlightInv, SingleFlight
<1>6. FreshInv'
  BY <1>1, <1>2, <1>4 DEF FreshInv, TypeOK, Docs, NoDoc
<1>7. StoredInv'
  BY <1>1, <1>2 DEF StoredInv, StoredIsLastGood, FailureIsBeingEvicted
<1>8. ForcedInv'
  <2>1. \A d \in Callers : seen[d] <= fetch[c].since
    BY DEF FreshInv
  <2>2. ~o.fell => \A d \in Callers : seen[d] <= o.doc
    <3>1. fetch[c].since \in Int /\ o.doc \in Int /\ \A d \in Callers : seen[d] \in Int
      BY DEF FreshInv, TypeOK, Docs, NoDoc, Outcome
    <3> QED
      BY <2>1, <3>1
  <2> QED
    BY <1>1, <1>2, <2>2 DEF ForcedInv, RefreshSeesRotation
<1>9. StampInv'
  BY <1>1, <1>2 DEF StampInv
<1> QED
  BY <1>5, <1>6, <1>7, <1>8, <1>9

\* Every step preserves it.
LEMMA InvStep == ASSUME Inv, [Next]_vars PROVE Inv'
<1> USE DEF Inv
<1>0. TypeOK'
  BY TypeStep
<1>1. CASE Tick
  <2>1. FlightInv'
    BY <1>1 DEF Tick, Urgent, FlightInv, SingleFlight, TypeOK, Outcome, NoExit, NoDoc, cacheVars, callVars
  <2>2. FreshInv'
    BY <1>1 DEF Tick, Urgent, FreshInv, TypeOK, Outcome, NoExit, NoDoc, cacheVars, callVars
  <2>3. StoredInv'
    BY <1>1 DEF Tick, Urgent, StoredInv, StoredIsLastGood, FailureIsBeingEvicted, TypeOK, Outcome, NoExit, NoDoc, cacheVars, callVars
  <2>4. ForcedInv'
    BY <1>1 DEF Tick, Urgent, ForcedInv, RefreshSeesRotation, TypeOK, Outcome, NoExit, NoDoc, cacheVars, callVars
  <2>5. StampInv'
    BY <1>1 DEF Tick, Urgent, StampInv, TypeOK, Outcome, NoExit, NoDoc, cacheVars, callVars
  <2> QED
    BY <1>0, <2>1, <2>2, <2>3, <2>4, <2>5
<1>2. CASE Rotate
  <2>1. FlightInv'
    BY <1>2 DEF Rotate, Docs, FlightInv, SingleFlight, TypeOK, Outcome, NoExit, NoDoc, cacheVars, callVars
  <2>2. FreshInv'
    BY <1>2 DEF Rotate, Docs, FreshInv, TypeOK, Outcome, NoExit, NoDoc, cacheVars, callVars
  <2>3. StoredInv'
    BY <1>2 DEF Rotate, Docs, StoredInv, StoredIsLastGood, FailureIsBeingEvicted, TypeOK, Outcome, NoExit, NoDoc, cacheVars, callVars
  <2>4. ForcedInv'
    BY <1>2 DEF Rotate, Docs, ForcedInv, RefreshSeesRotation, TypeOK, Outcome, NoExit, NoDoc, cacheVars, callVars
  <2>5. StampInv'
    BY <1>2 DEF Rotate, Docs, StampInv, TypeOK, Outcome, NoExit, NoDoc, cacheVars, callVars
  <2> QED
    BY <1>0, <2>1, <2>2, <2>3, <2>4, <2>5
<1>3. ASSUME NEW c \in Callers, Hit(c) PROVE Inv'
  <2>1. FlightInv'
    BY <1>3 DEF Hit, Deliver, FlightInv, SingleFlight, TypeOK, Outcome, NoExit, NoDoc, cacheVars, callVars
  <2>2. FreshInv'
    BY <1>3 DEF Hit, Deliver, FlightInv, FreshInv, TypeOK, Docs, Outcome, NoExit, NoDoc, cacheVars, callVars
  <2>3. StoredInv'
    BY <1>3 DEF Hit, Deliver, StoredInv, StoredIsLastGood, FailureIsBeingEvicted, TypeOK, Outcome, NoExit, NoDoc, cacheVars, callVars
  <2>4. ForcedInv'
    BY <1>3 DEF Hit, Deliver, ForcedInv, RefreshSeesRotation, TypeOK, Outcome, NoExit, NoDoc, cacheVars, callVars
  <2>5. StampInv'
    BY <1>3 DEF Hit, Deliver, StampInv, TypeOK, Outcome, NoExit, NoDoc, cacheVars, callVars
  <2> QED
    BY <1>0, <2>1, <2>2, <2>3, <2>4, <2>5
<1>4. ASSUME NEW c \in Callers, Join(c) PROVE Inv'
  <2>1. FlightInv'
    BY <1>4 DEF Join, FlightInv, SingleFlight, TypeOK, Outcome, NoExit, NoDoc, cacheVars, callVars
  <2>2. FreshInv'
    BY <1>4 DEF Join, FreshInv, TypeOK, Outcome, NoExit, NoDoc, cacheVars, callVars
  <2>3. StoredInv'
    BY <1>4 DEF Join, StoredInv, StoredIsLastGood, FailureIsBeingEvicted, TypeOK, Outcome, NoExit, NoDoc, cacheVars, callVars
  <2>4. ForcedInv'
    BY <1>4 DEF Join, ForcedInv, RefreshSeesRotation, TypeOK, Outcome, NoExit, NoDoc, cacheVars, callVars
  <2>5. StampInv'
    BY <1>4 DEF Join, StampInv, TypeOK, Outcome, NoExit, NoDoc, cacheVars, callVars
  <2> QED
    BY <1>0, <2>1, <2>2, <2>3, <2>4, <2>5
<1>5. ASSUME NEW c \in Callers, StartFetch(c) PROVE Inv'
  <2>1. FlightInv'
    BY <1>5 DEF StartFetch, FlightInv, SingleFlight, TypeOK, Outcome, NoExit, NoDoc, cacheVars, callVars
  <2>2. FreshInv'
    BY <1>5 DEF StartFetch, FreshInv, TypeOK, Docs, Outcome, NoExit, NoDoc, cacheVars, callVars
  <2>3. StoredInv'
    BY <1>5 DEF StartFetch, StoredInv, StoredIsLastGood, FailureIsBeingEvicted, TypeOK, Outcome, NoExit, NoDoc, cacheVars, callVars
  <2>4. ForcedInv'
    BY <1>5 DEF StartFetch, ForcedInv, RefreshSeesRotation, TypeOK, Outcome, NoExit, NoDoc, cacheVars, callVars
  <2>5. StampInv'
    BY <1>5 DEF StartFetch, StampInv, TypeOK, Outcome, NoExit, NoDoc, cacheVars, callVars
  <2> QED
    BY <1>0, <2>1, <2>2, <2>3, <2>4, <2>5
<1>6. ASSUME NEW c \in Callers, Evict(c) PROVE Inv'
  <2>1. FlightInv'
    BY <1>6 DEF Evict, Drop, FlightInv, SingleFlight, TypeOK, Outcome, NoExit, NoDoc, cacheVars, callVars
  <2>2. FreshInv'
    BY <1>6 DEF Evict, Drop, FreshInv, TypeOK, Outcome, NoExit, NoDoc, cacheVars, callVars
  <2>3. StoredInv'
    BY <1>6 DEF Evict, Drop, StoredInv, StoredIsLastGood, FailureIsBeingEvicted, TypeOK, Outcome, NoExit, NoDoc, cacheVars, callVars
  <2>4. ForcedInv'
    BY <1>6 DEF Evict, Drop, ForcedInv, RefreshSeesRotation, TypeOK, Outcome, NoExit, NoDoc, cacheVars, callVars
  <2>5. StampInv'
    BY <1>6 DEF Evict, Drop, StampInv, TypeOK, Outcome, NoExit, NoDoc, cacheVars, callVars
  <2> QED
    BY <1>0, <2>1, <2>2, <2>3, <2>4, <2>5
<1>7. ASSUME NEW c \in Callers, RateLimited(c) PROVE Inv'
  <2>1. FlightInv'
    BY <1>7 DEF RateLimited, FlightInv, SingleFlight, TypeOK, Outcome, NoExit, NoDoc, cacheVars, callVars
  <2>2. FreshInv'
    BY <1>7 DEF RateLimited, FreshInv, TypeOK, Outcome, NoExit, NoDoc, cacheVars, callVars
  <2>3. StoredInv'
    BY <1>7 DEF RateLimited, StoredInv, StoredIsLastGood, FailureIsBeingEvicted, TypeOK, Outcome, NoExit, NoDoc, cacheVars, callVars
  <2>4. ForcedInv'
    BY <1>7 DEF RateLimited, ForcedInv, RefreshSeesRotation, TypeOK, Outcome, NoExit, NoDoc, cacheVars, callVars
  <2>5. StampInv'
    BY <1>7 DEF RateLimited, StampInv, TypeOK, Outcome, NoExit, NoDoc, cacheVars, callVars
  <2> QED
    BY <1>0, <2>1, <2>2, <2>3, <2>4, <2>5
<1>8. ASSUME NEW c \in Callers, PassWindow(c) PROVE Inv'
  <2>1. FlightInv'
    BY <1>8 DEF PassWindow, FlightInv, SingleFlight, TypeOK, Outcome, NoExit, NoDoc, cacheVars, callVars
  <2>2. FreshInv'
    BY <1>8 DEF PassWindow, FreshInv, TypeOK, Outcome, NoExit, NoDoc, cacheVars, callVars
  <2>3. StoredInv'
    BY <1>8 DEF PassWindow, StoredInv, StoredIsLastGood, FailureIsBeingEvicted, TypeOK, Outcome, NoExit, NoDoc, cacheVars, callVars
  <2>4. ForcedInv'
    BY <1>8 DEF PassWindow, ForcedInv, RefreshSeesRotation, TypeOK, Outcome, NoExit, NoDoc, cacheVars, callVars
  <2>5. StampInv'
    BY <1>8 DEF PassWindow, StampInv, TypeOK, Outcome, NoExit, NoDoc, cacheVars, callVars
  <2> QED
    BY <1>0, <2>1, <2>2, <2>3, <2>4, <2>5
<1>9. ASSUME NEW c \in Callers, Stamp(c) PROVE Inv'
  <2>1. FlightInv'
    BY <1>9 DEF Stamp, FlightInv, SingleFlight, TypeOK, Outcome, NoExit, NoDoc, cacheVars, callVars
  <2>2. FreshInv'
    BY <1>9 DEF Stamp, FreshInv, TypeOK, Outcome, NoExit, NoDoc, cacheVars, callVars
  <2>3. StoredInv'
    BY <1>9 DEF Stamp, StoredInv, StoredIsLastGood, FailureIsBeingEvicted, TypeOK, Outcome, NoExit, NoDoc, cacheVars, callVars
  <2>4. ForcedInv'
    BY <1>9 DEF Stamp, ForcedInv, RefreshSeesRotation, TypeOK, Outcome, NoExit, NoDoc, cacheVars, callVars
  <2>5. StampInv'
    BY <1>9 DEF Stamp, StampInv, TypeOK, Outcome, NoExit, NoDoc, cacheVars, callVars
  <2> QED
    BY <1>0, <2>1, <2>2, <2>3, <2>4, <2>5
<1>10. ASSUME NEW c \in Callers, Invalidate(c) PROVE Inv'
  <2>1. FlightInv'
    BY <1>10 DEF Invalidate, Drop, FlightInv, SingleFlight, TypeOK, Outcome, NoExit, NoDoc, cacheVars, callVars
  <2>2. FreshInv'
    BY <1>10 DEF Invalidate, Drop, FreshInv, TypeOK, Outcome, NoExit, NoDoc, cacheVars, callVars
  <2>3. StoredInv'
    BY <1>10 DEF Invalidate, Drop, StoredInv, StoredIsLastGood, FailureIsBeingEvicted, TypeOK, Outcome, NoExit, NoDoc, cacheVars, callVars
  <2>4. ForcedInv'
    BY <1>10 DEF Invalidate, Drop, ForcedInv, RefreshSeesRotation, TypeOK, Outcome, NoExit, NoDoc, cacheVars, callVars
  <2>5. StampInv'
    BY <1>10 DEF Invalidate, Drop, StampInv, TypeOK, Outcome, NoExit, NoDoc, cacheVars, callVars
  <2> QED
    BY <1>0, <2>1, <2>2, <2>3, <2>4, <2>5
<1>11. ASSUME NEW c \in Callers, Get(c) PROVE Inv'
  <2>1. FlightInv'
    BY <1>11 DEF Get, FlightInv, SingleFlight, TypeOK, Outcome, NoExit, NoDoc, cacheVars, callVars
  <2>2. FreshInv'
    BY <1>11 DEF Get, FreshInv, TypeOK, Outcome, NoExit, NoDoc, cacheVars, callVars
  <2>3. StoredInv'
    BY <1>11 DEF Get, StoredInv, StoredIsLastGood, FailureIsBeingEvicted, TypeOK, Outcome, NoExit, NoDoc, cacheVars, callVars
  <2>4. ForcedInv'
    BY <1>11 DEF Get, ForcedInv, RefreshSeesRotation, TypeOK, Outcome, NoExit, NoDoc, cacheVars, callVars
  <2>5. StampInv'
    BY <1>11 DEF Get, StampInv, TypeOK, Outcome, NoExit, NoDoc, cacheVars, callVars
  <2> QED
    BY <1>0, <2>1, <2>2, <2>3, <2>4, <2>5
<1>12. ASSUME NEW c \in Callers, Refresh(c) PROVE Inv'
  <2>1. FlightInv'
    BY <1>12 DEF Refresh, FlightInv, SingleFlight, TypeOK, Outcome, NoExit, NoDoc, cacheVars, callVars
  <2>2. FreshInv'
    BY <1>12 DEF Refresh, FreshInv, TypeOK, Outcome, NoExit, NoDoc, cacheVars, callVars
  <2>3. StoredInv'
    BY <1>12 DEF Refresh, StoredInv, StoredIsLastGood, FailureIsBeingEvicted, TypeOK, Outcome, NoExit, NoDoc, cacheVars, callVars
  <2>4. ForcedInv'
    BY <1>12 DEF Refresh, ForcedInv, RefreshSeesRotation, TypeOK, Outcome, NoExit, NoDoc, cacheVars, callVars
  <2>5. StampInv'
    BY <1>12 DEF Refresh, StampInv, TypeOK, Outcome, NoExit, NoDoc, cacheVars, callVars
  <2> QED
    BY <1>0, <2>1, <2>2, <2>3, <2>4, <2>5
<1>13. ASSUME NEW c \in Callers, Finish(c) PROVE Inv'
  <2>1. FlightInv'
    BY <1>13 DEF Finish, FlightInv, SingleFlight, TypeOK, Outcome, NoExit, NoDoc, cacheVars, callVars
  <2>2. FreshInv'
    BY <1>13 DEF Finish, FreshInv, TypeOK, Docs, Outcome, NoExit, NoDoc, cacheVars, callVars
  <2>3. StoredInv'
    BY <1>13 DEF Finish, StoredInv, StoredIsLastGood, FailureIsBeingEvicted, TypeOK, Outcome, NoExit, NoDoc, cacheVars, callVars
  <2>4. ForcedInv'
    BY <1>13 DEF Finish, ForcedInv, RefreshSeesRotation, TypeOK, Outcome, NoExit, NoDoc, cacheVars, callVars
  <2>5. StampInv'
    BY <1>13 DEF Finish, StampInv, TypeOK, Outcome, NoExit, NoDoc, cacheVars, callVars
  <2> QED
    BY <1>0, <2>1, <2>2, <2>3, <2>4, <2>5
<1>14. ASSUME NEW c \in Callers, FetchSucceeds(c) PROVE Inv'
  <2>1. PICK v \in fetch[c].since..published :
          lastGood' = v /\ Settle(c, [doc |-> v, fell |-> FALSE])
    BY <1>14 DEF FetchSucceeds
  <2>2. pc[c] = "fetching"
    BY <1>14 DEF FetchSucceeds
  <2>3. v \in Docs /\ v <= published /\ v >= fetch[c].since /\ v # NoDoc
    <3>1. fetch[c].since \in Docs /\ published \in Docs
      BY <2>2 DEF FreshInv, TypeOK
    <3> QED
      BY <3>1, VersionAssumption DEF Docs, NoDoc
  <2>4. /\ [doc |-> v, fell |-> FALSE] \in Outcome
        /\ [doc |-> v, fell |-> FALSE] # NoExit
    BY <2>3 DEF Outcome, NoExit
  <2> QED
    BY <1>0, <2>1, <2>2, <2>3, <2>4, SettleInv
<1>15. ASSUME NEW c \in Callers, FetchFails(c) PROVE Inv'
  <2>1. /\ pc[c] = "fetching"
        /\ lastGood' = lastGood
        /\ Settle(c, [doc |-> lastGood, fell |-> TRUE])
    BY <1>15 DEF FetchFails
  <2>2. /\ [doc |-> lastGood, fell |-> TRUE] \in Outcome
        /\ [doc |-> lastGood, fell |-> TRUE] # NoExit
    BY DEF Outcome, NoExit, TypeOK
  <2>3. lastGood' <= published
    BY <2>1 DEF FreshInv
  <2> QED
    BY <1>0, <2>1, <2>2, <2>3, SettleInv
<1>16. CASE UNCHANGED vars
  BY <1>0, <1>16 DEF vars, cacheVars, callVars, FlightInv, SingleFlight, FreshInv,
     StoredInv, StoredIsLastGood, FailureIsBeingEvicted, ForcedInv,
     RefreshSeesRotation, StampInv
<1> QED
  BY <1>1, <1>2, <1>3, <1>4, <1>5, <1>6, <1>7, <1>8, <1>9, <1>10, <1>11,
     <1>12, <1>13, <1>14, <1>15, <1>16 DEF Next, Run, Enter, FetchEnds

------------------------------------------------------------------------------
(* The theorems.                                                            *)

\* The strengthened invariant holds in every behaviour.
LEMMA Invariance == Spec => []Inv
<1>1. Init => Inv
  BY InvInit
<1>2. Inv /\ [Next]_vars => Inv'
  BY InvStep
<1> QED
  BY <1>1, <1>2, PTL DEF Spec

\* However gets, evictions and forced refreshes interleave, the issuer sees
\* one request at a time from this cache.
THEOREM OneFetchAtATime == Spec => []SingleFlight
<1>1. Inv => SingleFlight
  BY DEF Inv, FlightInv
<1> QED
  BY <1>1, Invariance, PTL

\* The cache never serves a document older than one it has fetched, nor a
\* failure once it has fetched any.
THEOREM ServesTheLastGood == Spec => []StoredIsLastGood
<1>1. Inv => StoredIsLastGood
  BY DEF Inv, StoredInv
<1> QED
  BY <1>1, Invariance, PTL

\* A failure is never left in the cache for its ttl: whoever received it is
\* still about to evict it.
THEOREM FailuresAreEvicted == Spec => []FailureIsBeingEvicted
<1>1. Inv => FailureIsBeingEvicted
  BY DEF Inv, StoredInv
<1> QED
  BY <1>1, Invariance, PTL

\* A forced refresh whose fetch succeeds knows every key that was published
\* when the caller found its document lacking.
THEOREM RotationIsSeen == Spec => []RefreshSeesRotation
<1>1. Inv => RefreshSeesRotation
  BY DEF Inv, ForcedInv
<1> QED
  BY <1>1, Invariance, PTL

\* Two stamps of the rate limiter differ by nothing or by a window at least.
THEOREM RefreshesAreSpaced == Spec => StampsAreAWindowApart
<1>1. Inv /\ [Next]_vars
        => [lastRefresh' # lastRefresh => lastRefresh' - lastRefresh >= MinRefresh]_vars
  <2> SUFFICES ASSUME Inv, Next, lastRefresh' # lastRefresh
               PROVE  lastRefresh' - lastRefresh >= MinRefresh
    BY DEF vars
  <2>1. PICK c \in Callers : Stamp(c)
    BY DEF Next, Tick, Rotate, Run, Enter, Hit, Join, StartFetch, FetchEnds,
       FetchSucceeds, FetchFails, Settle, Evict, RateLimited, PassWindow,
       Invalidate, Get, Refresh, Finish
  <2> QED
    BY <2>1 DEF Inv, StampInv, Stamp
<1> QED
  BY <1>1, Invariance, PTL DEF Spec, StampsAreAWindowApart

------------------------------------------------------------------------------
(* Refinement of KeyView.                                                   *)

\* What each caller holds, as KeyView sees it.
Reply == [c \in Callers |->
            IF pc[c] \in {"answered", "evict", "failed"} THEN answer[c].doc ELSE -1]

\* A delivery to callers that hold nothing answers each of them lastGood.
LEMMA DeliverAnswers ==
    ASSUME Inv, NEW S \in SUBSET Callers, NEW o \in Outcome, Deliver(S, o),
           \A c \in S : pc[c] \in {"get", "waiting", "fetching"},
           o.doc = lastGood', lastGood' \in {lastGood} \cup (1..published),
           lastGood' >= lastGood, published' = published
    PROVE  View!Answer(S)
<1>1. \A c \in S : Reply[c] = -1
  BY DEF Reply
<1>2. Reply' = [c \in Callers |-> IF c \in S THEN lastGood' ELSE Reply[c]]
  <2>1. ASSUME NEW c \in Callers PROVE Reply'[c] = IF c \in S THEN lastGood' ELSE Reply[c]
    BY DEF Reply, Deliver
  <2> QED
    BY <2>1 DEF Reply
<1> QED
  BY <1>1, <1>2 DEF View!Answer, View!Pending, Reply

\* The steps that begin a call or let go of an answer.
LEMMA AskStep ==
    ASSUME Inv, NEW c \in Callers, Get(c) \/ Refresh(c) \/ Finish(c)
    PROVE  View!Ask(c)
<1>1. Reply' = [Reply EXCEPT ![c] = -1]
  <2>1. ASSUME NEW d \in Callers PROVE Reply'[d] = [Reply EXCEPT ![c] = -1][d]
    BY DEF Reply, Get, Refresh, Finish, Inv, TypeOK
  <2> QED
    BY <2>1 DEF Reply
<1>2. UNCHANGED <<published, lastGood>>
  BY DEF Get, Refresh, Finish, cacheVars
<1> QED
  BY <1>1, <1>2 DEF View!Ask, View!Pending, Reply

\* The steps inside a call change nothing KeyView sees.
LEMMA InnerStep ==
    ASSUME Inv, NEW c \in Callers,
           \/ Join(c) \/ StartFetch(c) \/ Evict(c)
           \/ RateLimited(c) \/ PassWindow(c) \/ Stamp(c) \/ Invalidate(c)
    PROVE  UNCHANGED <<published, lastGood, Reply>>
<1>1. UNCHANGED <<published, lastGood, answer>>
  BY DEF Join, StartFetch, Evict, Drop, RateLimited, PassWindow, Stamp, Invalidate, cacheVars
<1>2. ASSUME NEW d \in Callers PROVE Reply'[d] = Reply[d]
  BY <1>1 DEF Reply, Join, StartFetch, Evict, RateLimited, PassWindow, Stamp,
     Invalidate, Inv, TypeOK
<1> QED
  BY <1>1, <1>2 DEF Reply

\* Each step is a step of KeyView or leaves its variables alone.
LEMMA StepImplements == ASSUME Inv, [Next]_vars PROVE [View!Next]_(View!vars)
<1> USE DEF View!vars, View!Next, Reply
<1>1. CASE Tick
  BY <1>1 DEF Tick, cacheVars, callVars
<1>2. CASE Rotate
  BY <1>2 DEF Rotate, View!Rotate, cacheVars, callVars
<1>3. ASSUME NEW c \in Callers, Get(c) \/ Refresh(c) \/ Finish(c)
      PROVE  [View!Next]_(View!vars)
  BY <1>3, AskStep
<1>4. ASSUME NEW c \in Callers, Hit(c) PROVE [View!Next]_(View!vars)
  <2>1. exit # NoExit /\ exit.doc = lastGood /\ exit \in Outcome
    BY <1>4 DEF Hit, Inv, StoredInv, StoredIsLastGood, TypeOK
  <2>2. View!Answer({c})
    BY <1>4, <2>1, DeliverAnswers DEF Hit, cacheVars, Inv, TypeOK, Docs, NoDoc
  <2> QED
    BY <2>2
<1>5. ASSUME NEW c \in Callers, FetchSucceeds(c) \/ FetchFails(c)
      PROVE  [View!Next]_(View!vars)
  <2>1. pc[c] = "fetching"
    BY <1>5 DEF FetchSucceeds, FetchFails
  <2>2. /\ fetch[c].since \in Docs
        /\ lastGood <= fetch[c].since
        /\ published \in Docs
        /\ lastGood \in {NoDoc} \cup Docs
    BY <2>1 DEF Inv, FreshInv, TypeOK
  <2>3. PICK o \in Outcome :
          /\ Settle(c, o)
          /\ o.doc = lastGood'
          /\ lastGood' \in {lastGood} \cup (1..published)
          /\ lastGood' >= lastGood
    <3>1. CASE FetchSucceeds(c)
      <4>1. PICK v \in fetch[c].since..published :
              lastGood' = v /\ Settle(c, [doc |-> v, fell |-> FALSE])
        BY <3>1 DEF FetchSucceeds
      <4>2. v \in Docs /\ v \in 1..published /\ v >= lastGood
        BY <2>2, VersionAssumption DEF Docs, NoDoc
      <4> QED
        BY <4>1, <4>2 DEF Outcome
    <3>2. CASE FetchFails(c)
      <4>1. Settle(c, [doc |-> lastGood, fell |-> TRUE]) /\ lastGood' = lastGood
        BY <3>2 DEF FetchFails
      <4>2. lastGood >= lastGood
        BY <2>2 DEF Docs, NoDoc
      <4> QED
        BY <2>2, <4>1, <4>2 DEF Outcome
    <3> QED
      BY <1>5, <3>1, <3>2
  <2>4. PICK S \in SUBSET Callers : S = {c} \cup {d \in Callers : pc[d] = "waiting"}
    OBVIOUS
  <2>5. /\ Deliver(S, o) /\ published' = published
        /\ \A d \in S : pc[d] \in {"get", "waiting", "fetching"}
    BY <2>1, <2>3, <2>4 DEF Settle
  <2>6. View!Answer(S)
    BY <2>3, <2>5, DeliverAnswers
  <2> QED
    BY <2>6
<1>6. ASSUME NEW c \in Callers,
             \/ Join(c) \/ StartFetch(c) \/ Evict(c)
             \/ RateLimited(c) \/ PassWindow(c) \/ Stamp(c) \/ Invalidate(c)
      PROVE  [View!Next]_(View!vars)
  BY <1>6, InnerStep
<1>7. CASE UNCHANGED vars
  BY <1>7 DEF vars, cacheVars, callVars
<1> QED
  BY <1>1, <1>2, <1>3, <1>4, <1>5, <1>6, <1>7 DEF Next, Run, Enter, FetchEnds

\* The cache implements its promise: to its callers it is one view of the
\* issuer's keys that only moves forward.
THEOREM Implementation == Spec => ImplementsKeyView
<1>1. Init => View!Init
  BY DEF Init, View!Init, View!NoDoc, View!Pending, NoDoc
<1>2. Inv /\ [Next]_vars => [View!Next]_(View!vars)
  BY StepImplements
<1> QED
  BY <1>1, <1>2, Invariance, PTL DEF Spec, View!Spec, ImplementsKeyView
------------------------------------------------------------------------------
(* Nobody waits for nothing: what remains of liveness when fairness is left *)
(* out.                                                                     *)

\* "Concurrent callers share one fetch", and none is left with a fetch that is
\* no longer there: whoever waits, waits for a caller whose request is still
\* out, though evictions and forced refreshes invalidate the entry meanwhile.
SomebodyFetches ==
    \A c \in Callers : pc[c] = "waiting" => \E d \in Callers : pc[d] = "fetching"

\* Its inductive form: the flag that makes callers wait is up exactly while a
\* request is out.
WaitInv ==
    /\ running => \E d \in Callers : pc[d] = "fetching"
    /\ \A c \in Callers : pc[c] = "waiting" => running

\* A step of a caller that neither fetches nor waits, and that leaves the flag
\* alone, sends it elsewhere than into a wait.
LEMMA OwnStepWaits ==
    ASSUME TypeOK, WaitInv, NEW c \in Callers, NEW step,
           pc[c] # "fetching", step = "waiting" => running, running' = running,
           pc' = [pc EXCEPT ![c] = step]
    PROVE  WaitInv'
<1>1. \A d \in Callers : pc'[d] = IF d = c THEN step ELSE pc[d]
  BY DEF TypeOK
<1>2. ASSUME running' PROVE \E d \in Callers : pc'[d] = "fetching"
  <2>1. PICK d \in Callers : pc[d] = "fetching"
    BY <1>2 DEF WaitInv
  <2> QED
    BY <1>1, <2>1
<1> QED
  BY <1>1, <1>2 DEF WaitInv

\* The end of a fetch leaves nobody waiting.
LEMMA SettleWaits ==
    ASSUME NEW c \in Callers, NEW o, Settle(c, o)
    PROVE  WaitInv'
<1>1. \A d \in Callers : pc'[d] # "waiting"
  BY DEF Settle, Deliver
<1> QED
  BY <1>1 DEF WaitInv, Settle

\* Every step keeps it.
LEMMA WaitStep == ASSUME TypeOK, WaitInv, [Next]_vars PROVE WaitInv'
<1>1. CASE Tick \/ Rotate \/ UNCHANGED vars
  BY <1>1 DEF Tick, Rotate, vars, cacheVars, callVars, WaitInv
<1>2. ASSUME NEW c \in Callers, CallerStep(c) PROVE WaitInv'
  <2>1. CASE Hit(c)
    <3>1. running' = running /\ \E step \in {"evict", "answered"} :
            pc' = [pc EXCEPT ![c] = step]
      BY <2>1 DEF Hit, Deliver, TypeOK, cacheVars
    <3> QED
      BY <2>1, <3>1, OwnStepWaits DEF Hit
  <2>2. CASE StartFetch(c)
    BY <2>2 DEF StartFetch, TypeOK, WaitInv
  <2>3. CASE FetchEnds(c)
    BY <2>3, SettleWaits DEF FetchEnds, FetchSucceeds, FetchFails
  <2>4. CASE Join(c)
    BY <2>4, OwnStepWaits DEF Join, cacheVars
  <2>5. CASE Evict(c) \/ RateLimited(c) \/ PassWindow(c) \/ Stamp(c) \/ Invalidate(c)
    <3>1. /\ pc[c] # "fetching" /\ running' = running
          /\ \E step \in {"failed", "get", "stamp", "drop"} : pc' = [pc EXCEPT ![c] = step]
      BY <2>5 DEF Evict, RateLimited, PassWindow, Stamp, Invalidate, Drop, cacheVars
    <3> QED
      BY <3>1, OwnStepWaits
  <2>6. CASE Get(c) \/ Refresh(c) \/ Finish(c)
    <3>1. /\ pc[c] # "fetching" /\ running' = running
          /\ \E step \in {"get", "check", "idle"} : pc' = [pc EXCEPT ![c] = step]
      BY <2>6 DEF Get, Refresh, Finish, cacheVars
    <3> QED
      BY <3>1, OwnStepWaits
  <2> QED
    BY <1>2, <2>1, <2>2, <2>3, <2>4, <2>5, <2>6 DEF CallerStep, Run, Enter
<1> QED
  BY <1>1, <1>2 DEF Next, CallerStep

\* Whoever waits for keys waits for a request that is out: no settling,
\* eviction, forced refresh or failure leaves a caller behind.
THEOREM NobodyWaitsForNothing == Spec => []SomebodyFetches
<1>1. Init => WaitInv
  BY DEF Init, WaitInv
<1>2. TypeOK /\ WaitInv /\ [Next]_vars => WaitInv'
  BY WaitStep
<1>3. WaitInv => SomebodyFetches
  BY DEF WaitInv, SomebodyFetches
<1> QED
  BY <1>1, <1>2, <1>3, TypeCorrect, PTL DEF Spec
==============================================================================

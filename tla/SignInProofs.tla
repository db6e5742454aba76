---------------------------- MODULE SignInProofs -----------------------------
(***************************************************************************)
(* Proofs about a sign-in.                                                 *)
(*                                                                         *)
(* First the relying party by itself (RelyingParty): its type invariant,   *)
(* that a sign-in which succeeds is of one flow, and that its payload      *)
(* comes back, for any number of tabs and flows and whatever the provider  *)
(* answers.                                                                *)
(*                                                                         *)
(* Then with the provider (SignIn): each of the two keeps to its own       *)
(* specification, a code leads to one sign-in at most and no sign-in fails *)
(* without a reason, for any number of tabs, flows and codes and any       *)
(* clock.  What a code still has to its credit is followed from the store  *)
(* of the provider through the exchange to the callback.                   *)
(***************************************************************************)
EXTENDS SignIn, TLAPS

------------------------------------------------------------------------------
(* The relying party.                                                       *)

\* Cookies of one flow, with its payload if it has one; or none of the three.
Whole(cookies) ==
    /\ cookies.verifier = cookies.state
    /\ cookies.nonce = cookies.state
    /\ cookies.state \in carries => cookies.payload = cookies.state

\* Cookies with which the callback of flow f may go on.
Fits(cookies, f) == Whole(cookies) /\ cookies.state = f /\ f # NoFlow

\* The flows there have been: a payload cannot be given to one later.
BegunInv ==
    /\ \A f \in carries : f <= begun
    /\ jar.state <= begun
    /\ \A t \in Tabs : flow[t] <= begun /\ sent[t].state <= begun

\* The jar never mixes flows, however responses overtake one another, and a tab
\* that leaves has a flow of its own.
JarInv ==
    /\ Whole(jar)
    /\ \A t \in Tabs : tab[t] = "leaving" => flow[t] # NoFlow

\* A callback that went past the cookies had those of its flow.
HandlerInv ==
    \A t \in Tabs :
        /\ tab[t] \in InHandler => Fits(sent[t], flow[t])
        /\ result[t] = "Ok" =>
              tab[t] \in {"answered", "home"} /\ Fits(sent[t], flow[t]) /\ idToken[t] = flow[t]

Inv == PartyTypeOK /\ BegunInv /\ JarInv /\ HandlerInv

------------------------------------------------------------------------------
(* The invariant.                                                           *)

\* Flows are integers, and NoFlow comes before all of them.
LEMMA FlowsAre ==
    /\ Flows \subseteq Int /\ NoFlow \in Int /\ NoFlow \notin Flows
    /\ 0..MaxFlows = Flows \cup {NoFlow}
  BY FlowAssumption DEF Flows, NoFlow

\* The empty jar is a jar, of no flow.
LEMMA NoCookiesAre == NoCookies \in Jars /\ NoCookies.state = NoFlow
  BY DEF NoCookies, Jars

\* An empty jar mixes nothing.
LEMMA NothingIsWhole == ASSUME carries \subseteq Flows PROVE Whole(NoCookies)
  BY FlowsAre DEF Whole, NoCookies

\* The initial state satisfies the invariant.
LEMMA InvInit == ASSUME PartyInit PROVE Inv
<1>1. PartyTypeOK
  BY FlowsAre, NoCookiesAre DEF PartyInit, PartyTypeOK, Results, NoFlow
<1>2. BegunInv
  BY NoCookiesAre DEF PartyInit, BegunInv, NoFlow
<1>3. JarInv
  BY NothingIsWhole DEF PartyInit, JarInv
<1>4. HandlerInv
  BY DEF PartyInit, HandlerInv, InHandler
<1> QED
  BY <1>1, <1>2, <1>3, <1>4 DEF Inv

\* Every step keeps the types.
LEMMA TypeStep == ASSUME Inv, [PartyNext]_partyVars PROVE PartyTypeOK'
<1> USE FlowsAre, NoCookiesAre DEF Inv, PartyTypeOK, Results
<1>1. CASE Forget
  <2>1. jar' \in Jars
    BY <1>1 DEF Forget, Jars
  <2> QED
    BY <1>1, <2>1 DEF Forget
<1>2. ASSUME NEW t \in Tabs, Browse(t) PROVE PartyTypeOK'
  <2>1. ASSUME NEW withPayload \in BOOLEAN, Begin(t, withPayload) PROVE PartyTypeOK'
    <3>1. begun' \in Flows
      BY <2>1, FlowAssumption DEF Begin, Flows
    <3> QED
      BY <2>1, <3>1 DEF Begin
  <2>2. CASE Redirected(t)
    <3>1. flow[t] \in Flows \cup {NoFlow} /\ jar.payload \in Flows \cup {NoFlow}
      BY DEF Jars
    <3>2. SetCookies(flow[t]) \in Jars
      BY <3>1 DEF SetCookies, Jars
    <3> QED
      BY <2>2, <3>2 DEF Redirected
  <2>3. ASSUME NEW f \in Flows \cup {NoFlow}, Callback(t, f, "code") PROVE PartyTypeOK'
    BY <2>3 DEF Callback, Answered, InHandler
  <2>4. ASSUME NEW u \in Tabs, Reopen(t, u) PROVE PartyTypeOK'
    BY <2>3, <2>4 DEF Reopen
  <2>5. CASE Stray(t)
    BY <2>3, <2>5 DEF Stray
  <2>6. CASE Land(t)
    BY <2>6 DEF Land
  <2>7. CASE CloseTab(t)
    BY <2>7 DEF CloseTab
  <2> QED
    BY <1>2, <2>1, <2>2, <2>4, <2>5, <2>6, <2>7 DEF Browse
<1>3. ASSUME NEW t \in Tabs, CheckKeys(t) PROVE PartyTypeOK'
  BY <1>3 DEF CheckKeys, NotVerified, KeyUnknown, Verified, Answered, InHandler
<1>4. ASSUME NEW t \in Tabs, NEW shape \in Shapes, Return(t, shape) PROVE PartyTypeOK'
  BY <1>4 DEF Return, Callback, Answered, Reason, InHandler
<1>5. ASSUME NEW t \in Tabs, NEW n \in Flows \cup {NoFlow}, Exchanged(t, n) PROVE PartyTypeOK'
  BY <1>5 DEF Exchanged, InHandler
<1>6. ASSUME NEW t \in Tabs, ExchangeFails(t) PROVE PartyTypeOK'
  BY <1>6 DEF ExchangeFails, Answered
<1>7. CASE UNCHANGED partyVars
  BY <1>7 DEF partyVars
<1> QED
  BY <1>1, <1>2, <1>3, <1>4, <1>5, <1>6, <1>7 DEF PartyNext

------------------------------------------------------------------------------
(* Steps of the jar and of the handlers.                                    *)

\* A flow that begins is later than any there was.
LEMMA BeginStep ==
    ASSUME Inv, NEW t \in Tabs, NEW withPayload \in BOOLEAN, Begin(t, withPayload)
    PROVE  BegunInv' /\ JarInv' /\ HandlerInv'
<1>1. begun' = begun + 1 /\ begun \in Int /\ begun' # NoFlow /\ begun' \in Flows
  BY FlowAssumption DEF Begin, Inv, PartyTypeOK, NoFlow, Flows
<1>2. /\ jar' = jar /\ sent' = sent /\ idToken' = idToken /\ result' = result
      /\ carries \subseteq carries' /\ carries' \subseteq carries \cup {begun'}
      /\ flow' = [flow EXCEPT ![t] = begun'] /\ tab' = [tab EXCEPT ![t] = "leaving"]
      /\ tab[t] = "idle"
  BY DEF Begin
<1>3. /\ carries \subseteq Int /\ jar.state \in Int
      /\ \A u \in Tabs : flow[u] \in Int /\ sent[u].state \in Int
  BY FlowsAre DEF Inv, PartyTypeOK, Jars
<1>4. BegunInv'
  <2>1. ASSUME NEW f \in carries' PROVE f <= begun'
    <3>1. CASE f \in carries
      BY <1>1, <1>3, <3>1 DEF Inv, BegunInv
    <3>2. CASE f = begun'
      BY <1>1, <3>2
    <3> QED
      BY <1>2, <3>1, <3>2
  <2>2. jar'.state <= begun'
    BY <1>1, <1>2, <1>3 DEF Inv, BegunInv
  <2>3. \A u \in Tabs : flow'[u] <= begun' /\ sent'[u].state <= begun'
    BY <1>1, <1>2, <1>3 DEF Inv, BegunInv, PartyTypeOK
  <2> QED
    BY <2>1, <2>2, <2>3 DEF BegunInv
<1>5. ASSUME NEW cookies, cookies.state \in Int, cookies.state <= begun, Whole(cookies)
      PROVE  (cookies.verifier = cookies.state /\ cookies.nonce = cookies.state
               /\ (cookies.state \in carries' => cookies.payload = cookies.state))
  BY <1>1, <1>2, <1>5 DEF Whole
<1>6. JarInv'
  <2>1. Whole(jar)'
    BY <1>2, <1>3, <1>5 DEF Inv, BegunInv, JarInv, Whole
  <2>2. \A u \in Tabs : tab'[u] = "leaving" => flow'[u] # NoFlow
    BY <1>1, <1>2 DEF Inv, JarInv, PartyTypeOK
  <2> QED
    BY <2>1, <2>2 DEF JarInv
<1>7. ASSUME NEW u \in Tabs
      PROVE  /\ tab'[u] \in InHandler => Fits(sent[u], flow[u])'
             /\ result'[u] = "Ok" =>
                  /\ tab'[u] \in {"answered", "home"} /\ Fits(sent[u], flow[u])'
                  /\ idToken'[u] = flow'[u]
  <2>1. CASE u = t
    <3>1. tab'[u] = "leaving" /\ result'[u] # "Ok"
      BY <1>2, <2>1 DEF Inv, HandlerInv, PartyTypeOK
    <3> QED
      BY <3>1 DEF InHandler
  <2>2. CASE u # t
    <3>1. tab'[u] = tab[u] /\ flow'[u] = flow[u] /\ sent'[u] = sent[u]
      BY <1>2, <2>2 DEF Inv, PartyTypeOK
    <3>2. Fits(sent[u], flow[u]) => Fits(sent[u], flow[u])'
      BY <1>2, <1>3, <1>5, <3>1 DEF Fits, Whole, Inv, BegunInv
    <3> QED
      BY <1>2, <3>1, <3>2 DEF Inv, HandlerInv
  <2> QED
    BY <2>1, <2>2
<1> QED
  BY <1>4, <1>6, <1>7 DEF HandlerInv

\* What the handler of one tab may rely on.
Handles(t) ==
    /\ tab[t] \in InHandler => Fits(sent[t], flow[t])
    /\ result[t] = "Ok" =>
          tab[t] \in {"answered", "home"} /\ Fits(sent[t], flow[t]) /\ idToken[t] = flow[t]

\* Fitting cookies go on fitting while no flow begins.
LEMMA FitsStays ==
    ASSUME carries' = carries, NEW t \in Tabs, Handles(t),
           tab'[t] = tab[t], flow'[t] = flow[t], sent'[t] = sent[t],
           idToken'[t] = idToken[t], result'[t] = result[t]
    PROVE  Handles(t)'
  BY DEF Handles, Fits, Whole

\* Steps of the browser that change the jar.
LEMMA JarStep ==
    ASSUME Inv, Forget \/ \E t \in Tabs : Redirected(t) \/ Land(t)
    PROVE  BegunInv' /\ JarInv' /\ HandlerInv'
<1>1. /\ begun' = begun /\ carries' = carries /\ flow' = flow /\ sent' = sent
      /\ idToken' = idToken /\ result' = result
  BY DEF Forget, Redirected, Land
<1>2. carries \subseteq Flows /\ jar \in Jars /\ Whole(jar) /\ jar.state <= begun
  BY DEF Inv, PartyTypeOK, BegunInv, JarInv
<1>3. begun \in Int /\ NoFlow <= begun /\ \A t \in Tabs : flow[t] <= begun
  <2>1. begun \in 0..MaxFlows /\ \A t \in Tabs : flow[t] <= begun
    BY DEF Inv, PartyTypeOK, BegunInv
  <2> QED
    BY <2>1, FlowAssumption DEF NoFlow
<1>4. CASE Forget
  <2> DEFINE old == IF jar.payload # NoFlow THEN jar.payload ELSE jar.state
  <2>1. /\ jar'.state = IF jar.state = old THEN NoFlow ELSE jar.state
        /\ jar'.verifier = IF jar.verifier = old THEN NoFlow ELSE jar.verifier
        /\ jar'.nonce = IF jar.nonce = old THEN NoFlow ELSE jar.nonce
        /\ jar'.payload = IF jar.payload = old THEN NoFlow ELSE jar.payload
    BY <1>2, <1>4 DEF Forget, Jars
  <2>2. Whole(jar)'
    BY <1>1, <1>2, <2>1, FlowsAre DEF Whole
  <2>3. jar'.state <= begun'
    BY <1>1, <1>2, <2>1, FlowAssumption DEF Inv, PartyTypeOK, NoFlow
  <2>4. ASSUME NEW t \in Tabs PROVE Handles(t)'
    BY <1>1, <1>4, FitsStays DEF Forget, Inv, HandlerInv, Handles
  <2> QED
    BY <1>1, <1>4, <2>2, <2>3, <2>4 DEF Forget, Inv, BegunInv, JarInv, HandlerInv, Handles
<1>5. ASSUME NEW t \in Tabs, Redirected(t) PROVE BegunInv' /\ JarInv' /\ HandlerInv'
  <2>1. jar' = SetCookies(flow[t]) /\ tab[t] = "leaving" /\ tab' = [tab EXCEPT ![t] = "away"]
    BY <1>5 DEF Redirected
  <2>2. Whole(jar)' /\ jar'.state = flow[t]
    BY <1>1, <2>1 DEF Whole, SetCookies
  <2>3. ASSUME NEW u \in Tabs
        PROVE  Handles(u)' /\ (tab'[u] = "leaving" => flow'[u] # NoFlow)
    <3>1. CASE u = t
      <4>1. tab'[u] = "away" /\ result'[u] # "Ok"
        BY <1>1, <2>1, <3>1 DEF Inv, PartyTypeOK, HandlerInv
      <4> QED
        BY <4>1 DEF Handles, InHandler
    <3>2. CASE u # t
      <4>1. tab'[u] = tab[u]
        BY <2>1, <3>2 DEF Inv, PartyTypeOK
      <4> QED
        BY <1>1, <4>1, FitsStays DEF Inv, HandlerInv, Handles, JarInv
    <3> QED
      BY <3>1, <3>2
  <2> QED
    BY <1>1, <1>3, <2>2, <2>3 DEF Inv, BegunInv, JarInv, HandlerInv, Handles
<1>6. ASSUME NEW t \in Tabs, Land(t) PROVE BegunInv' /\ JarInv' /\ HandlerInv'
  <2>1. jar' = NoCookies /\ tab[t] = "answered" /\ tab' = [tab EXCEPT ![t] = "home"]
    BY <1>6 DEF Land
  <2>2. Whole(jar)' /\ jar'.state = NoFlow
    BY <1>1, <1>2, <2>1, FlowsAre DEF Whole, NoCookies
  <2>3. ASSUME NEW u \in Tabs
        PROVE  Handles(u)' /\ (tab'[u] = "leaving" => flow'[u] # NoFlow)
    <3>1. CASE u = t
      <4>1. tab'[u] = "home"
        BY <2>1, <3>1 DEF Inv, PartyTypeOK
      <4>2. Fits(sent[u], flow[u]) => Fits(sent[u], flow[u])'
        BY <1>1 DEF Fits, Whole
      <4> QED
        BY <1>1, <4>1, <4>2 DEF Handles, InHandler, Inv, HandlerInv
    <3>2. CASE u # t
      <4>1. tab'[u] = tab[u]
        BY <2>1, <3>2 DEF Inv, PartyTypeOK
      <4> QED
        BY <1>1, <4>1, FitsStays DEF Inv, HandlerInv, Handles, JarInv
    <3> QED
      BY <3>1, <3>2
  <2>4. NoFlow <= begun
    BY FlowAssumption DEF NoFlow, Inv, PartyTypeOK
  <2> QED
    BY <1>1, <2>2, <2>3, <2>4 DEF Inv, BegunInv, JarInv, HandlerInv, Handles
<1> QED
  BY <1>4, <1>5, <1>6

\* The callback takes the cookies of the moment: it goes on only with those of
\* the flow in its address.
LEMMA CallbackStep ==
    ASSUME Inv, NEW t \in Tabs, tab[t] \in {"idle", "away"},
           NEW f \in Flows \cup {NoFlow}, f <= begun,
           NEW shape \in Shapes, Callback(t, f, shape)
    PROVE  BegunInv' /\ JarInv' /\ HandlerInv'
<1>1. /\ begun' = begun /\ carries' = carries /\ jar' = jar /\ idToken' = idToken
      /\ sent' = [sent EXCEPT ![t] = jar] /\ flow' = [flow EXCEPT ![t] = f]
  BY DEF Callback
<1>2. result[t] # "Ok"
  BY DEF Inv, HandlerInv
<1>3. \/ /\ tab' = [tab EXCEPT ![t] = "answered"]
         /\ \E why : why # "Ok" /\ result' = [result EXCEPT ![t] = why]
      \/ /\ CookiesMatch(f)
         /\ tab' = [tab EXCEPT ![t] = "exchange"] /\ result' = result
  BY DEF Callback, Answered, Reason
<1>4. ASSUME NEW u \in Tabs
      PROVE  Handles(u)' /\ (tab'[u] = "leaving" => flow'[u] # NoFlow)
  <2>1. CASE u = t
    <3>1. result'[u] # "Ok"
      BY <1>2, <1>3, <2>1 DEF Inv, PartyTypeOK
    <3>2. tab'[u] = "answered" \/ (tab'[u] = "exchange" /\ CookiesMatch(f))
      BY <1>3, <2>1 DEF Inv, PartyTypeOK
    <3>3. CookiesMatch(f) => Fits(sent[u], flow[u])'
      BY <1>1, <2>1 DEF CookiesMatch, Fits, Whole, Inv, PartyTypeOK, JarInv
    <3> QED
      BY <3>1, <3>2, <3>3 DEF Handles, InHandler
  <2>2. CASE u # t
    <3>1. /\ tab'[u] = tab[u] /\ flow'[u] = flow[u] /\ sent'[u] = sent[u]
          /\ idToken'[u] = idToken[u] /\ result'[u] = result[u]
      BY <1>1, <1>3, <2>2 DEF Inv, PartyTypeOK
    <3> QED
      BY <1>1, <3>1, FitsStays DEF Inv, HandlerInv, Handles, JarInv
  <2> QED
    BY <2>1, <2>2
<1>5. Whole(jar)'
  BY <1>1 DEF Whole, Inv, JarInv
<1>6. ASSUME NEW u \in Tabs PROVE flow'[u] <= begun' /\ sent'[u].state <= begun'
  BY <1>1 DEF Inv, PartyTypeOK, BegunInv
<1> QED
  BY <1>1, <1>4, <1>5, <1>6 DEF Inv, BegunInv, JarInv, HandlerInv, Handles

\* A step of one handler, or of a tab that is closed, disturbs no other's; it
\* keeps the invariant when it keeps its own tab's part of it.
LEMMA HandlerKeeps ==
    ASSUME Inv, NEW t \in Tabs, Handles(t)', tab'[t] # "leaving",
           UNCHANGED <<begun, carries, jar>>,
           flow'[t] <= begun, sent'[t].state <= begun,
           \A u \in Tabs \ {t} :
               /\ tab'[u] = tab[u] /\ flow'[u] = flow[u] /\ sent'[u] = sent[u]
               /\ idToken'[u] = idToken[u] /\ result'[u] = result[u]
    PROVE  BegunInv' /\ JarInv' /\ HandlerInv'
<1>1. ASSUME NEW u \in Tabs
      PROVE  Handles(u)' /\ (tab'[u] = "leaving" => flow'[u] # NoFlow)
               /\ flow'[u] <= begun /\ sent'[u].state <= begun
  <2>1. CASE u = t
    BY <2>1
  <2>2. CASE u # t
    BY <2>2, FitsStays DEF Inv, BegunInv, HandlerInv, Handles, JarInv
  <2> QED
    BY <2>1, <2>2
<1>2. Whole(jar)'
  BY DEF Whole, Inv, JarInv
<1> QED
  BY <1>1, <1>2 DEF Inv, BegunInv, JarInv, HandlerInv, Handles

\* Only an id token with the nonce of the cookies completes a sign-in.
LEMMA HandlerStep ==
    ASSUME Inv, NEW t \in Tabs,
           \/ CheckKeys(t) \/ ExchangeFails(t) \/ CloseTab(t)
           \/ \E n \in Flows \cup {NoFlow} : Exchanged(t, n)
    PROVE  BegunInv' /\ JarInv' /\ HandlerInv'
<1>1. Handles(t) /\ flow[t] <= begun /\ sent[t].state <= begun
  BY DEF Inv, HandlerInv, BegunInv, Handles
<1>2. UNCHANGED <<begun, carries, jar>>
  BY DEF CheckKeys, NotVerified, KeyUnknown, Verified, ExchangeFails, CloseTab, Exchanged
<1>3. \A u \in Tabs \ {t} :
          /\ tab'[u] = tab[u] /\ flow'[u] = flow[u] /\ sent'[u] = sent[u]
          /\ idToken'[u] = idToken[u] /\ result'[u] = result[u]
  BY DEF CheckKeys, NotVerified, KeyUnknown, Verified, ExchangeFails, CloseTab, Exchanged,
         Answered, Inv, PartyTypeOK
<1>4. CASE CheckKeys(t) \/ ExchangeFails(t) \/ \E n \in Flows \cup {NoFlow} : Exchanged(t, n)
  <2>1. tab[t] \in InHandler /\ flow' = flow /\ sent' = sent
    BY <1>4 DEF CheckKeys, NotVerified, KeyUnknown, Verified, ExchangeFails, Exchanged, InHandler
  <2>2. Fits(sent[t], flow[t]) /\ Fits(sent[t], flow[t])'
    BY <1>1, <1>2, <2>1 DEF Handles, Fits, Whole
  <2>3. tab'[t] \in InHandler \cup {"answered"}
    BY <1>4 DEF CheckKeys, NotVerified, KeyUnknown, Verified, ExchangeFails, Exchanged,
                Answered, InHandler, Inv, PartyTypeOK
  <2>4. result'[t] = "Ok" => tab'[t] = "answered" /\ idToken'[t] = flow'[t]
    <3>1. result[t] # "Ok"
      BY <1>1, <2>1 DEF Handles, InHandler
    <3>2. CASE Verified(t)
      BY <2>2, <3>2 DEF Verified, Answered, Fits, Whole, Inv, PartyTypeOK
    <3>3. CASE ~Verified(t)
      BY <1>4, <3>1, <3>3 DEF CheckKeys, NotVerified, KeyUnknown, ExchangeFails, Exchanged,
                              Answered, Inv, PartyTypeOK
    <3> QED
      BY <3>2, <3>3
  <2>5. Handles(t)'
    BY <2>2, <2>4 DEF Handles
  <2>6. tab'[t] # "leaving" /\ flow'[t] <= begun /\ sent'[t].state <= begun
    BY <1>1, <2>1, <2>3 DEF InHandler
  <2> QED
    BY <1>2, <1>3, <2>5, <2>6, HandlerKeeps
<1>5. CASE CloseTab(t)
  <2>1. /\ tab'[t] = "idle" /\ result'[t] = "pending"
        /\ flow'[t] = NoFlow /\ sent'[t] = NoCookies
    BY <1>5 DEF CloseTab, Inv, PartyTypeOK
  <2>2. Handles(t)'
    BY <2>1 DEF Handles, InHandler
  <2>3. flow'[t] <= begun /\ sent'[t].state <= begun
    BY <2>1, NoCookiesAre, FlowAssumption DEF NoFlow, Inv, PartyTypeOK
  <2> QED
    BY <1>2, <1>3, <2>1, <2>2, <2>3, HandlerKeeps
<1> QED
  BY <1>4, <1>5

\* Every step keeps the invariant.
LEMMA InvStep == ASSUME Inv, [PartyNext]_partyVars PROVE Inv'
<1>1. PartyTypeOK'
  BY TypeStep
<1>2. CASE Forget
  BY <1>1, <1>2, JarStep DEF Inv
<1>3. ASSUME NEW t \in Tabs, Browse(t) PROVE Inv'
  <2>1. ASSUME NEW withPayload \in BOOLEAN, Begin(t, withPayload) PROVE Inv'
    BY <1>1, <2>1, BeginStep DEF Inv
  <2>2. ASSUME NEW u \in Tabs, Reopen(t, u) PROVE Inv'
    <3>1. /\ tab[t] \in {"idle", "away"} /\ flow[u] \in Flows \cup {NoFlow} /\ flow[u] <= begun
          /\ Callback(t, flow[u], "code")
      BY <2>2 DEF Reopen, Inv, PartyTypeOK, BegunInv
    <3> QED
      BY <1>1, <3>1, CallbackStep DEF Inv, Shapes
  <2>3. CASE Stray(t)
    <3>1. /\ tab[t] \in {"idle", "away"} /\ NoFlow <= begun /\ Callback(t, NoFlow, "code")
      BY <2>3, FlowAssumption DEF Stray, NoFlow, Inv, PartyTypeOK
    <3> QED
      BY <1>1, <3>1, CallbackStep DEF Inv, Shapes
  <2>4. CASE Redirected(t) \/ Land(t)
    BY <1>1, <2>4, JarStep DEF Inv
  <2>5. CASE CloseTab(t)
    BY <1>1, <2>5, HandlerStep DEF Inv
  <2> QED
    BY <1>3, <2>1, <2>2, <2>3, <2>4, <2>5 DEF Browse
<1>4. ASSUME NEW t \in Tabs, NEW shape \in Shapes, Return(t, shape) PROVE Inv'
  <2>1. /\ tab[t] \in {"idle", "away"} /\ flow[t] \in Flows \cup {NoFlow} /\ flow[t] <= begun
        /\ Callback(t, flow[t], shape)
    BY <1>4 DEF Return, Inv, PartyTypeOK, BegunInv
  <2> QED
    BY <1>1, <2>1, CallbackStep DEF Inv
<1>5. ASSUME NEW t \in Tabs,
             \/ CheckKeys(t) \/ ExchangeFails(t)
             \/ \E n \in Flows \cup {NoFlow} : Exchanged(t, n)
      PROVE  Inv'
  BY <1>1, <1>5, HandlerStep DEF Inv
<1>6. CASE UNCHANGED partyVars
  BY <1>6 DEF partyVars, Inv, PartyTypeOK, BegunInv, JarInv, HandlerInv, Fits, Whole
<1> QED
  BY <1>2, <1>3, <1>4, <1>5, <1>6 DEF PartyNext

\* The invariant holds of every behaviour.
LEMMA Invariance == PartySpec => []Inv
<1> QED
  BY InvInit, InvStep, PTL DEF PartySpec

------------------------------------------------------------------------------
(* What the invariant gives.                                                *)

\* Every variable keeps its type, whatever the browser and the provider do.
THEOREM PartyTypeCorrect == PartySpec => []PartyTypeOK
<1>1. Inv => PartyTypeOK
  BY DEF Inv
<1> QED
  BY <1>1, Invariance, PTL

\* completeAuthorization succeeds only with the verifier, the nonce and the id
\* token of the flow in its address, however many tabs share the jar.
THEOREM NonceBindsSession == PartySpec => []SignInIsOfOneFlow
<1>1. Inv => SignInIsOfOneFlow
  BY DEF Inv, HandlerInv, Fits, Whole, SignInIsOfOneFlow
<1> QED
  BY <1>1, Invariance, PTL

\* A sign-in begun with a payload completes with that payload or not at all.
THEOREM PayloadReturns == PartySpec => []PayloadComesBack
<1>1. Inv => PayloadComesBack
  BY DEF Inv, HandlerInv, Fits, Whole, PayloadComesBack
<1> QED
  BY <1>1, Invariance, PTL

------------------------------------------------------------------------------
(* The relying party and the provider.                                      *)

\* The exchange of tab t has taken its code and may yet lead to a sign-in.
Paying(t) ==
    \/ tab[t] \in {"keys", "refresh"}
    \/ awaited[t] /\ (at[t] \in {"digest", "issue"} \/ answer[t].status = "ok")

SignInTypeOK ==
    /\ clock \in Nat
    /\ minted \in 0..MaxCodes
    /\ codes \in [P!Codes -> P!Grant \cup {P!Absent}]
    /\ authorized \in [P!Codes -> P!Grant \cup {P!Absent}]
    /\ at \in [Tabs -> {"idle", "digest", "issue", "done"}]
    /\ held \in [Tabs -> P!Grant \cup P!Chain \cup {P!Absent}]
    /\ \A t \in Tabs : at[t] = "digest" => held[t] \in P!Grant
    /\ proof \in [Tabs -> Flows \cup {NoFlow, P!NoProof}]
    /\ DOMAIN answer = Tabs
    /\ code \in [Tabs -> {NoCode} \cup 1..minted]
    /\ awaited \in [Tabs -> BOOLEAN]
    /\ signedIn \in [P!Codes -> {0, 1}]

\* What a tab is doing, and what it has for it.
TabInv ==
    \A t \in Tabs :
        /\ awaited[t] => tab[t] = "exchange"
        /\ at[t] # "done" => answer[t].status = "none"
        /\ tab[t] \in {"idle", "leaving"} => code[t] = NoCode
        /\ tab[t] \notin {"idle", "leaving", "away"} => code[t] # NoCode
        /\ tab[t] \in {"leaving", "away"} => flow[t] # NoFlow
        /\ tab[t] \notin {"answered", "home"} => result[t] = "pending"

\* A code is stored as it was authorized, and is of the flow it was minted for.
CodeInv ==
    /\ \A c \in 1..minted :
          /\ codes[c] \in {P!Absent, authorized[c]}
          /\ \E f \in Flows, e \in Nat :
                authorized[c] = [code |-> c, client |-> Client, redirect |-> Callbacks,
                                 challenge |-> f, scope |-> {"openid"}, nonce |-> f,
                                 expires |-> e]
    /\ \A t \in Tabs : code[t] # NoCode => authorized[code[t]].challenge = flow[t]

\* A code is in the store, or with one exchange, or has been used.
CreditInv ==
    /\ \A c \in P!Codes : codes[c] # P!Absent \/ c > minted => signedIn[c] = 0
    /\ \A t \in Tabs : Paying(t) => codes[code[t]] = P!Absent /\ signedIn[code[t]] = 0
    /\ \A t, u \in Tabs : Paying(t) /\ Paying(u) /\ code[t] = code[u] => t = u

\* What the provider does for an exchange that is awaited is about its flow.
ExchangeInv ==
    \A t \in Tabs :
        /\ awaited[t] =>
              /\ at[t] = "digest" => held[t] = authorized[code[t]] /\ proof[t] = flow[t]
              /\ at[t] = "issue" => held[t] = P!ChainOf(authorized[code[t]])
              /\ answer[t].status = "ok" =>
                    \A token \in answer[t].tokens : token.aud = {Client} => token.nonce = flow[t]
              /\ answer[t].status \in P!Errors => flow[t] \in excused
        /\ tab[t] \in {"keys", "refresh"} => idToken[t] = flow[t]

\* The jar is of the flow that is away, or that flow has lost its cookies; and
\* no other tab knows a flow before its callback.
AwayInv ==
    \A t \in Tabs :
        /\ tab[t] = "away" => flow[t] \in displaced \/ jar.state = flow[t]
        /\ tab[t] \in {"leaving", "away"} => \A u \in Tabs \ {t} : flow[u] # flow[t]

\* Two tabs have the same code only when an address was opened again; a tab
\* that finds its code taken is one of those.
SharedInv ==
    \A t \in Tabs : code[t] # NoCode =>
        /\ (\E u \in Tabs \ {t} : code[u] = code[t]) => flow[t] \in excused
        /\ tab[t] \in {"away", "exchange"} /\ ~awaited[t] /\ codes[code[t]] = P!Absent
              => flow[t] \in excused

SignInInv ==
    /\ Inv
    /\ SignInTypeOK /\ TabInv /\ CodeInv /\ CreditInv /\ ExchangeInv /\ AwayInv /\ SharedInv
    /\ NoUnexplainedFailure

------------------------------------------------------------------------------
(* The parts as they are composed.                                          *)

\* The codes are numbers, and none of them is NoCode.
LEMMA CodesAre ==
    /\ P!Codes \subseteq Int /\ NoCode \in Int /\ NoCode \notin P!Codes
    /\ \A m \in 0..MaxCodes : 1..m \subseteq P!Codes
    /\ MaxCodes \in Nat
  BY SignInAssumption DEF P!Codes, NoCode

\* Of a sign-in's tokens the one for the party is the id token.
LEMMA IdTokenTells ==
    ASSUME NEW chain, chain.client = Client, NEW token \in P!UserTokens(chain),
           token.aud = {Client}
    PROVE  token.nonce = chain.nonce
<1>1. Client # P!Api
  BY DEF Client, P!Api
<1>2. P!IssueAccessToken(P!ProviderKey, P!Issuer, P!User, P!Api, chain.client, chain.scope,
                         clock + 0).aud = {P!Api}
  BY DEF P!IssueAccessToken, P!Sign
<1>3. P!IssueIdToken(P!ProviderKey, P!Issuer, P!User, chain.client, chain.nonce,
                     clock + 0).nonce = chain.nonce
  BY DEF P!IssueIdToken, P!Sign
<1> QED
  BY <1>1, <1>2, <1>3 DEF P!UserTokens

\* Every step of the composition is one of the relying party, or none.
LEMMA PartyStep ==
    ASSUME SignInInv, [SignInNext]_signInVars PROVE [PartyNext]_partyVars
<1>1. CASE ProviderStep
  BY <1>1 DEF ProviderStep
<1>2. CASE BrowserStep
  BY <1>2 DEF BrowserStep, PartyNext, Browse
<1>3. ASSUME NEW t \in Tabs, ReturnWithCode(t) PROVE PartyNext
  BY <1>3 DEF ReturnWithCode, PartyNext, Shapes
<1>4. ASSUME NEW t \in Tabs, NEW u \in Tabs, ReopenWithCode(t, u) PROVE PartyNext
  BY <1>4 DEF ReopenWithCode, PartyNext, Browse
<1>5. ASSUME NEW t \in Tabs, Consent(t) \/ Exchange(t) PROVE UNCHANGED partyVars
  BY <1>5 DEF Consent, Exchange
<1>6. ASSUME NEW t \in Tabs, TokensArrive(t) PROVE PartyNext
  <2>1. PICK token \in answer[t].tokens : token.aud = {Client} /\ Exchanged(t, token.nonce)
    BY <1>6 DEF TokensArrive
  <2>2. token.nonce = flow[t] /\ flow[t] \in Flows \cup {NoFlow}
    BY <1>6, <2>1 DEF TokensArrive, SignInInv, ExchangeInv, Inv, PartyTypeOK
  <2> QED
    BY <2>1, <2>2 DEF PartyNext
<1>7. ASSUME NEW t \in Tabs, ExchangeIsRefused(t) \/ ExchangeIsLost(t) PROVE PartyNext
  BY <1>7 DEF ExchangeIsRefused, ExchangeIsLost, PartyNext
<1>8. ASSUME NEW t \in Tabs, Complete(t) PROVE PartyNext
  BY <1>8 DEF Complete, PartyNext, CheckKeys
<1>9. ASSUME NEW t \in Tabs, Reset(t) PROVE PartyNext
  BY <1>9 DEF Reset, PartyNext, Browse
<1>10. CASE UNCHANGED signInVars
  BY <1>10 DEF signInVars
<1> QED
  BY <1>1, <1>2, <1>3, <1>4, <1>5, <1>6, <1>7, <1>8, <1>9, <1>10 DEF SignInNext

\* The initial state satisfies the invariant.
LEMMA SignInStarts == ASSUME SignInInit PROVE SignInInv
<1> USE DEF SignInInit, PartyInit, P!ProviderInit
<1>1. Inv
  BY InvInit
<1>2. SignInTypeOK
  BY CodesAre DEF SignInTypeOK, NoCode
<1>3. TabInv
  BY DEF TabInv, InHandler, NoCode, P!NoAnswer
<1>4. CodeInv
  <2>1. 1..minted = {}
    OBVIOUS
  <2> QED
    BY <2>1 DEF CodeInv
<1>5. CreditInv
  BY DEF CreditInv, Paying
<1>6. ExchangeInv
  BY DEF ExchangeInv
<1>7. AwayInv
  BY DEF AwayInv
<1>8. SharedInv
  BY DEF SharedInv
<1>9. NoUnexplainedFailure
  BY DEF NoUnexplainedFailure
<1> QED
  BY <1>1, <1>2, <1>3, <1>4, <1>5, <1>6, <1>7, <1>8, <1>9 DEF SignInInv

------------------------------------------------------------------------------
(* Steps of the provider.                                                   *)

\* What a step of the provider leaves alone.
ProviderKeeps ==
    UNCHANGED <<partyVars, joinVars, codes, minted, authorized>>

\* The request of tab t goes on, and is still about the flow of its exchange.
LEMMA FiberStep ==
    ASSUME SignInInv, ProviderKeeps, Inv', NEW t \in Tabs,
           clock' \in Nat,
           NEW place \in {"idle", "issue", "done"}, at' = [at EXCEPT ![t] = place],
           NEW grant \in P!Grant \cup P!Chain \cup {P!Absent}, held' = [held EXCEPT ![t] = grant],
           NEW a, answer'[t] = a, DOMAIN answer' = Tabs,
           \A u \in Tabs \ {t} : answer'[u] = answer[u],
           place # "done" => a.status = "none",
           proof' \in [Tabs -> Flows \cup {NoFlow, P!NoProof}],
           \A u \in Tabs : awaited[u] => proof'[u] = proof[u],
           excused \subseteq excused', displaced' = displaced,
           awaited[t] =>
              /\ place = "issue" => grant = P!ChainOf(authorized[code[t]])
              /\ a.status = "ok" =>
                    \A token \in a.tokens : token.aud = {Client} => token.nonce = flow[t]
              /\ a.status \in P!Errors => flow[t] \in excused'
              /\ place = "issue" \/ a.status = "ok" => at[t] \in {"digest", "issue"}
    PROVE  SignInInv'
<1> USE DEF ProviderKeeps, partyVars, joinVars
<1>1. SignInTypeOK'
  BY DEF SignInInv, SignInTypeOK
<1>2. \A u \in Tabs \ {t} : at'[u] = at[u] /\ held'[u] = held[u] /\ answer'[u] = answer[u]
  BY DEF SignInInv, SignInTypeOK
<1>3. at'[t] = place /\ held'[t] = grant /\ answer'[t] = a
  BY DEF SignInInv, SignInTypeOK
<1>4. TabInv'
  BY <1>2, <1>3 DEF SignInInv, TabInv
<1>5. CodeInv'
  BY DEF SignInInv, CodeInv
<1>6. \A u \in Tabs : Paying(u)' => Paying(u)
  BY <1>2, <1>3 DEF Paying, SignInInv, TabInv
<1>7. CreditInv'
  BY <1>6 DEF SignInInv, CreditInv
<1>8. ExchangeInv'
  BY <1>2, <1>3 DEF SignInInv, ExchangeInv
<1>9. AwayInv'
  BY DEF SignInInv, AwayInv
<1>10. SharedInv'
  BY DEF SignInInv, SharedInv
<1>11. NoUnexplainedFailure'
  BY DEF SignInInv, NoUnexplainedFailure
<1> QED
  BY <1>1, <1>4, <1>5, <1>7, <1>8, <1>9, <1>10, <1>11 DEF SignInInv

\* The clock moves, or nothing does.
LEMMA ClockStep ==
    ASSUME SignInInv, Inv', ProviderKeeps,
           UNCHANGED <<at, held, proof, answer, lossVars>>, clock' \in Nat
    PROVE  SignInInv'
<1> USE DEF ProviderKeeps, partyVars, joinVars, lossVars
<1>1. SignInTypeOK'
  BY DEF SignInInv, SignInTypeOK
<1>2. TabInv' /\ CodeInv'
  BY DEF SignInInv, TabInv, CodeInv
<1>3. CreditInv' /\ ExchangeInv'
  BY DEF SignInInv, CreditInv, ExchangeInv, Paying
<1>4. AwayInv' /\ SharedInv' /\ NoUnexplainedFailure'
  BY DEF SignInInv, AwayInv, SharedInv, NoUnexplainedFailure
<1> QED
  BY <1>1, <1>2, <1>3, <1>4 DEF SignInInv

\* The challenge of a code is its flow's, as are its client and its nonce.
LEMMA CodeIs ==
    ASSUME SignInInv, NEW t \in Tabs, code[t] # NoCode
    PROVE  /\ code[t] \in P!Codes /\ code[t] \in 1..minted
           /\ flow[t] \in Flows
           /\ \E e \in Nat :
                 authorized[code[t]] =
                    [code |-> code[t], client |-> Client, redirect |-> Callbacks,
                     challenge |-> flow[t], scope |-> {"openid"}, nonce |-> flow[t],
                     expires |-> e]
           /\ codes[code[t]] \in {P!Absent, authorized[code[t]]}
<1>1. code[t] \in 1..minted /\ code[t] \in P!Codes
  BY CodesAre DEF SignInInv, SignInTypeOK
<1>2. authorized[code[t]].challenge = flow[t] /\ codes[code[t]] \in {P!Absent, authorized[code[t]]}
  BY <1>1 DEF SignInInv, CodeInv
<1>3. PICK f \in Flows, e \in Nat :
         authorized[code[t]] =
            [code |-> code[t], client |-> Client, redirect |-> Callbacks, challenge |-> f,
             scope |-> {"openid"}, nonce |-> f, expires |-> e]
  BY <1>1 DEF SignInInv, CodeInv
<1>4. f = flow[t]
  BY <1>2, <1>3
<1> QED
  BY <1>1, <1>2, <1>3, <1>4

\* Whatever the provider does of its own accord, for an exchange that is
\* awaited or one that is not any more.
LEMMA ProviderStepKeeps == ASSUME SignInInv, Inv', ProviderStep PROVE SignInInv'
<1>0. ASSUME NEW t \in Tabs, code[t] # NoCode
      PROVE  authorized[code[t]].client = Client /\ authorized[code[t]].nonce = flow[t]
  <2>1. PICK e \in Nat :
           authorized[code[t]] =
              [code |-> code[t], client |-> Client, redirect |-> Callbacks,
               challenge |-> flow[t], scope |-> {"openid"}, nonce |-> flow[t], expires |-> e]
    BY <1>0, CodeIs
  <2> QED
    BY <2>1
<1> USE DEF SignInInv, SignInTypeOK, P!storeVars, lossVars, joinVars, ProviderKeeps
<1>1. CASE P!Pass /\ UNCHANGED lossVars
  BY <1>1, ClockStep DEF ProviderStep, P!Pass, P!tokenVars
<1>2. ASSUME NEW t \in Tabs, P!Digest(t), UNCHANGED lossVars PROVE SignInInv'
  <2>1. at[t] = "digest" /\ held[t] \in P!Grant
    BY <1>2 DEF P!Digest
  <2>2. awaited[t] => code[t] # NoCode /\ held[t] = authorized[code[t]] /\ proof[t] = flow[t]
    BY <2>1 DEF ExchangeInv, TabInv, InHandler
  <2>3. awaited[t] => held[t].challenge = flow[t]
    BY <2>2 DEF CodeInv
  <2>4. P!ChainOf(held[t]) \in P!Chain
    BY <2>1 DEF P!ChainOf, P!Chain, P!Grant
  <2>5. CASE proof[t] = held[t].challenge
    <3>1. at' = [at EXCEPT ![t] = "issue"] /\ held' = [held EXCEPT ![t] = P!ChainOf(held[t])]
      BY <1>2, <2>5 DEF P!Digest, P!Hold
    <3>2. answer' = answer /\ answer[t].status = "none"
      BY <1>2, <2>1, <2>5 DEF P!Digest, P!Hold, TabInv
    <3>3. /\ UNCHANGED <<clock, codes, minted, authorized, proof>>
          /\ ProviderKeeps /\ excused' = excused /\ displaced' = displaced
      BY <1>2, <2>5 DEF P!Digest, P!Hold, ProviderStep
    <3>4. /\ clock' \in Nat /\ proof' \in [Tabs -> Flows \cup {NoFlow, P!NoProof}]
          /\ DOMAIN answer' = Tabs /\ "none" \notin P!Errors \cup {"ok"}
      BY <3>2, <3>3 DEF P!Errors
    <3> HIDE DEF SignInInv, SignInTypeOK, ProviderKeeps
    <3> QED
      BY <2>1, <2>2, <2>4, <3>1, <3>2, <3>3, <3>4, FiberStep
  <2>6. CASE proof[t] # held[t].challenge
    <3>1. ~awaited[t]
      BY <2>2, <2>3, <2>6
    <3> QED
      BY <1>2, <2>6, <3>1, FiberStep DEF P!Digest, P!End, ProviderStep
  <2> QED
    BY <2>5, <2>6
<1>3. ASSUME NEW t \in Tabs, P!Issue(t), UNCHANGED lossVars PROVE SignInInv'
  <2> DEFINE a == [P!Granted(P!UserTokens(held[t])) EXCEPT !.refresh = issued', !.code = held[t].code]
  <2>1. a.status = "ok" /\ a.tokens = P!UserTokens(held[t])
    BY DEF P!Granted, P!NoAnswer
  <2>2. at[t] = "issue" /\ at' = [at EXCEPT ![t] = "done"] /\ held' = [held EXCEPT ![t] = P!Absent]
        /\ answer' = [answer EXCEPT ![t] = a] /\ UNCHANGED <<clock, codes, minted, authorized, proof>>
    BY <1>3 DEF P!Issue, P!End
  <2>3. ASSUME awaited[t], NEW token \in a.tokens, token.aud = {Client}
        PROVE  token.nonce = flow[t]
    <3>1. code[t] # NoCode /\ held[t] = P!ChainOf(authorized[code[t]])
      BY <2>2, <2>3 DEF ExchangeInv, TabInv, InHandler
    <3>2. authorized[code[t]].client = Client /\ authorized[code[t]].nonce = flow[t]
      BY <3>1, <1>0
    <3>3. held[t].client = Client /\ held[t].nonce = flow[t]
      BY <3>1, <3>2 DEF P!ChainOf
    <3> QED
      BY <2>1, <2>3, <3>3, IdTokenTells
  <2> HIDE DEF a
  <2>4. /\ answer'[t] = a /\ DOMAIN answer' = Tabs
        /\ \A u \in Tabs \ {t} : answer'[u] = answer[u]
    BY <2>2
  <2>5. clock' \in Nat /\ proof' \in [Tabs -> Flows \cup {NoFlow, P!NoProof}] /\ proof' = proof
    BY <2>2
  <2>6. ProviderKeeps /\ excused' = excused /\ displaced' = displaced
    BY <1>3, <2>2 DEF ProviderStep
  <2>7. a.status \notin P!Errors
    BY <2>1 DEF P!Errors
  <2> HIDE DEF SignInInv, SignInTypeOK, ProviderKeeps
  <2> QED
    BY <2>1, <2>2, <2>3, <2>4, <2>5, <2>6, <2>7, FiberStep
<1>4. ASSUME NEW t \in Tabs, ~awaited[t], P!Close(t), UNCHANGED lossVars PROVE SignInInv'
  <2>1. /\ at' = [at EXCEPT ![t] = "idle"] /\ held' = [held EXCEPT ![t] = held[t]]
        /\ answer' = [answer EXCEPT ![t] = P!NoAnswer] /\ P!NoAnswer.status = "none"
        /\ proof' = [proof EXCEPT ![t] = P!NoProof]
        /\ UNCHANGED <<clock, codes, minted, authorized>>
    BY <1>4 DEF P!Close, P!NoAnswer
  <2>2. /\ held[t] \in P!Grant \cup P!Chain \cup {P!Absent}
        /\ answer'[t] = P!NoAnswer /\ DOMAIN answer' = Tabs
        /\ \A u \in Tabs \ {t} : answer'[u] = answer[u]
        /\ proof' \in [Tabs -> Flows \cup {NoFlow, P!NoProof}]
        /\ \A u \in Tabs : awaited[u] => proof'[u] = proof[u]
    BY <1>4, <2>1
  <2> QED
    BY <1>4, <2>1, <2>2, FiberStep DEF ProviderStep
<1>5. ASSUME NEW t \in Tabs, NEW f, P!Abort(t), Excuse(f) PROVE SignInInv'
  <2>1. P!Nobody.status = "nobody"
    BY DEF P!Nobody, P!NoAnswer
  <2>2. /\ at' = [at EXCEPT ![t] = "done"] /\ held' = [held EXCEPT ![t] = P!Absent]
        /\ answer' = [answer EXCEPT ![t] = P!Nobody]
        /\ UNCHANGED <<clock, codes, minted, authorized, proof>>
        /\ excused \subseteq excused' /\ displaced' = displaced
    BY <1>5 DEF P!Abort, P!End, Excuse
  <2> QED
    BY <1>5, <2>1, <2>2, FiberStep DEF ProviderStep, P!Errors
<1> QED
  BY <1>1, <1>2, <1>3, <1>4, <1>5 DEF ProviderStep

------------------------------------------------------------------------------
(* Steps of the browser.                                                    *)

\* What a step of the browser alone does to the rest: a tab that has a code
\* keeps its flow, and none gets into a handler or out of one.
LEMMA JoinKeeps ==
    ASSUME SignInInv, UNCHANGED <<endpointVars, joinVars>>,
           excused' = excused,
           \A t \in Tabs :
              /\ code[t] # NoCode \/ tab[t] \in InHandler => flow'[t] = flow[t]
              /\ tab'[t] # tab[t] =>
                    tab[t] \notin InHandler /\ tab'[t] \notin InHandler
                        /\ (tab'[t] = "away" => code[t] = NoCode)
              /\ idToken'[t] = idToken[t]
    PROVE  /\ SignInTypeOK' /\ CodeInv' /\ CreditInv' /\ ExchangeInv' /\ SharedInv'
           /\ \A t \in Tabs : awaited'[t] => tab'[t] = "exchange"
           /\ \A t \in Tabs : at'[t] # "done" => answer'[t].status = "none"
<1> USE DEF endpointVars, grantVars, joinVars
<1>1. SignInTypeOK'
  BY DEF SignInInv, SignInTypeOK
<1>2. CodeInv'
  BY DEF SignInInv, CodeInv
<1>3. \A t \in Tabs : (awaited'[t] => tab'[t] = "exchange")
                     /\ (at'[t] # "done" => answer'[t].status = "none")
  BY DEF SignInInv, TabInv, InHandler
<1>4. \A t \in Tabs : tab'[t] \in {"keys", "refresh"} <=> tab[t] \in {"keys", "refresh"}
  BY DEF InHandler
<1>5. CreditInv'
  BY <1>4 DEF SignInInv, CreditInv, Paying
<1>6. ExchangeInv'
  BY <1>4 DEF SignInInv, ExchangeInv, TabInv, InHandler
<1>7. SharedInv'
  BY DEF SignInInv, SharedInv, InHandler
<1> QED
  BY <1>1, <1>2, <1>3, <1>5, <1>6, <1>7

\* A sign-in that is begun, cookies that are set, expire or die of age.
LEMMA BrowserStepKeeps == ASSUME SignInInv, Inv', BrowserStep PROVE SignInInv'
<1>0. /\ jar \in Jars /\ jar.state \in Int /\ begun \in Int
      /\ \A t \in Tabs : flow[t] \in Int /\ flow[t] <= begun
      /\ tab = [t \in Tabs |-> tab[t]] /\ flow = [t \in Tabs |-> flow[t]]
  BY FlowsAre DEF SignInInv, Inv, PartyTypeOK, BegunInv, Jars
<1>1. CASE Forget /\ Displace(IF jar'.state = jar.state THEN NoFlow ELSE jar.state)
  <2>1. UNCHANGED <<tab, flow, idToken, result, excused, endpointVars, joinVars>>
    BY <1>1 DEF BrowserStep, Forget, Displace
  <2>2. /\ SignInTypeOK' /\ CodeInv' /\ CreditInv' /\ ExchangeInv' /\ SharedInv'
    BY <2>1, JoinKeeps
  <2>3. displaced \subseteq displaced'
        /\ (jar'.state # jar.state => jar.state = NoFlow \/ jar.state \in displaced')
    BY <1>1 DEF Displace
  <2>4. TabInv'
    BY <2>1 DEF SignInInv, TabInv, endpointVars, grantVars, joinVars
  <2>5. AwayInv'
    BY <2>1, <2>3 DEF SignInInv, AwayInv, TabInv
  <2>6. NoUnexplainedFailure'
    BY <2>1, <2>3 DEF SignInInv, NoUnexplainedFailure
  <2> QED
    BY <2>2, <2>4, <2>5, <2>6 DEF SignInInv
<1>2. ASSUME NEW t \in Tabs, NEW withPayload \in BOOLEAN, Begin(t, withPayload), UNCHANGED lossVars
      PROVE  SignInInv'
  <2>1. /\ UNCHANGED <<jar, idToken, result, lossVars, endpointVars, joinVars>>
        /\ tab[t] = "idle" /\ tab'[t] = "leaving" /\ flow'[t] = begun + 1
        /\ \A u \in Tabs \ {t} : tab'[u] = tab[u] /\ flow'[u] = flow[u]
    BY <1>0, <1>2 DEF BrowserStep, Begin
  <2>2. code[t] = NoCode /\ result[t] = "pending"
    BY <2>1 DEF SignInInv, TabInv
  <2>3. /\ SignInTypeOK' /\ CodeInv' /\ CreditInv' /\ ExchangeInv' /\ SharedInv'
    BY <2>1, <2>2, JoinKeeps DEF lossVars, InHandler
  <2>4. begun + 1 # NoFlow /\ \A u \in Tabs : flow[u] # begun + 1
    BY <1>0 DEF SignInInv, Inv, PartyTypeOK, NoFlow
  <2>5. TabInv'
    BY <2>1, <2>2, <2>4 DEF SignInInv, TabInv, endpointVars, grantVars, joinVars, InHandler
  <2>6. AwayInv'
    BY <2>1, <2>4 DEF SignInInv, AwayInv, lossVars
  <2>7. NoUnexplainedFailure'
    BY <2>1, <2>2 DEF SignInInv, NoUnexplainedFailure, lossVars
  <2> QED
    BY <1>2, <2>3, <2>5, <2>6, <2>7 DEF SignInInv
<1>3. ASSUME NEW t \in Tabs, Redirected(t), Displace(jar.state) PROVE SignInInv'
  <2>1. /\ UNCHANGED <<flow, idToken, result, excused, endpointVars, joinVars>>
        /\ jar'.state = flow[t] /\ tab[t] = "leaving" /\ tab'[t] = "away"
        /\ \A u \in Tabs \ {t} : tab'[u] = tab[u]
        /\ displaced \subseteq displaced' /\ (jar.state = NoFlow \/ jar.state \in displaced')
    BY <1>0, <1>3 DEF BrowserStep, Redirected, SetCookies, Displace
  <2>2. code[t] = NoCode
    BY <2>1 DEF SignInInv, TabInv
  <2>3. /\ SignInTypeOK' /\ CodeInv' /\ CreditInv' /\ ExchangeInv' /\ SharedInv'
    BY <2>1, <2>2, JoinKeeps DEF InHandler
  <2>4. TabInv'
    BY <2>1 DEF SignInInv, TabInv, endpointVars, grantVars, joinVars, InHandler
  <2>5. AwayInv'
    BY <2>1 DEF SignInInv, AwayInv, TabInv
  <2>6. NoUnexplainedFailure'
    BY <2>1 DEF SignInInv, NoUnexplainedFailure
  <2> QED
    BY <2>3, <2>4, <2>5, <2>6 DEF SignInInv
<1>4. ASSUME NEW t \in Tabs, Land(t),
             Displace(IF jar.state = flow[t] THEN NoFlow ELSE jar.state)
      PROVE  SignInInv'
  <2>1. /\ UNCHANGED <<flow, idToken, result, excused, endpointVars, joinVars>>
        /\ tab[t] = "answered" /\ tab'[t] = "home"
        /\ \A u \in Tabs \ {t} : tab'[u] = tab[u]
        /\ displaced \subseteq displaced'
        /\ jar.state \in {NoFlow, flow[t]} \/ jar.state \in displaced'
    BY <1>0, <1>4 DEF BrowserStep, Land, Displace
  <2>2. /\ SignInTypeOK' /\ CodeInv' /\ CreditInv' /\ ExchangeInv' /\ SharedInv'
    BY <2>1, JoinKeeps DEF InHandler
  <2>3. TabInv'
    BY <2>1 DEF SignInInv, TabInv, endpointVars, grantVars, joinVars, InHandler
  <2>4. AwayInv'
    BY <2>1 DEF SignInInv, AwayInv, TabInv
  <2>5. NoUnexplainedFailure'
    BY <2>1 DEF SignInInv, NoUnexplainedFailure
  <2> QED
    BY <2>2, <2>3, <2>4, <2>5 DEF SignInInv
<1> QED
  BY <1>1, <1>2, <1>3, <1>4 DEF BrowserStep

------------------------------------------------------------------------------
(* Codes: minted, carried back, opened again, forgotten.                    *)

\* The new code is in the store, at one tab, and of its flow.
LEMMA ConsentKeeps ==
    ASSUME SignInInv, Inv', NEW t \in Tabs, Consent(t) PROVE SignInInv'
<1> DEFINE n == minted + 1
           grant == P!Pend(n, AskFor(flow[t]))
<1>1. /\ n \in P!Codes /\ n \in 1..n /\ n # NoCode /\ minted \in Nat /\ n \in 0..MaxCodes
      /\ 1..n = 1..minted \cup {n} /\ n \notin 1..minted
  BY CodesAre DEF Consent, P!Authorize, SignInInv, SignInTypeOK, P!Codes, NoCode
<1>2. tab[t] = "away" /\ flow[t] \in Flows
  BY FlowsAre DEF Consent, SignInInv, TabInv, Inv, PartyTypeOK
<1>3. grant = [code |-> n, client |-> Client, redirect |-> Callbacks, challenge |-> flow[t],
               scope |-> {"openid"}, nonce |-> flow[t], expires |-> clock + CodeTtl]
  BY DEF P!Pend, AskFor
<1>4. clock + CodeTtl \in Nat
  BY SignInAssumption DEF SignInInv, SignInTypeOK
<1>5. grant \in P!Grant /\ grant # P!Absent
  BY <1>1, <1>2, <1>3, <1>4 DEF P!Grant, P!Absent
<1> HIDE DEF n, grant
<1>6. /\ minted' = n /\ codes' = [codes EXCEPT ![n] = grant]
      /\ authorized' = [authorized EXCEPT ![n] = grant]
      /\ code' = [code EXCEPT ![t] = n]
      /\ UNCHANGED <<partyVars, clock, at, held, proof, answer, awaited, signedIn, lossVars>>
  BY DEF Consent, P!Authorize, P!tokenVars, n, grant
<1>7. /\ codes'[n] = grant /\ authorized'[n] = grant
      /\ \A c \in P!Codes \ {n} : codes'[c] = codes[c] /\ authorized'[c] = authorized[c]
      /\ code'[t] = n /\ \A u \in Tabs \ {t} : code'[u] = code[u]
  BY <1>1, <1>6 DEF SignInInv, SignInTypeOK
<1>8. /\ \A u \in Tabs : code[u] = NoCode \/ code[u] \in 1..minted
      /\ \A u \in Tabs : code[u] # n
      /\ 1..minted \subseteq P!Codes \ {n}
  BY <1>1, CodesAre DEF SignInInv, SignInTypeOK
<1>9. ~Paying(t) /\ ~awaited[t]
  BY <1>2 DEF Paying, SignInInv, TabInv
<1>10. SignInTypeOK'
  BY <1>1, <1>5, <1>6 DEF SignInInv, SignInTypeOK
<1>11. TabInv'
  BY <1>1, <1>2, <1>6, <1>7 DEF SignInInv, TabInv, partyVars, InHandler
<1>12. CodeInv'
  <2>1. \A c \in 1..minted : authorized'[c] = authorized[c] /\ codes'[c] = codes[c]
    BY <1>7, <1>8
  <2>2. ASSUME NEW c \in 1..n
        PROVE  /\ codes'[c] \in {P!Absent, authorized'[c]}
               /\ \E f \in Flows, e \in Nat :
                     authorized'[c] = [code |-> c, client |-> Client, redirect |-> Callbacks,
                                       challenge |-> f, scope |-> {"openid"}, nonce |-> f,
                                       expires |-> e]
    <3>1. CASE c = n
      BY <1>2, <1>3, <1>4, <1>7, <3>1
    <3>2. CASE c \in 1..minted
      BY <2>1, <3>2 DEF SignInInv, CodeInv
    <3> QED
      BY <1>1, <3>1, <3>2
  <2>3. ASSUME NEW u \in Tabs, code'[u] # NoCode PROVE authorized'[code'[u]].challenge = flow'[u]
    <3>1. CASE u = t
      BY <1>3, <1>6, <1>7, <3>1 DEF partyVars
    <3>2. CASE u # t
      BY <1>6, <1>7, <1>8, <2>1, <2>3, <3>2 DEF SignInInv, CodeInv, partyVars
    <3> QED
      BY <3>1, <3>2
  <2> QED
    BY <1>6, <2>2, <2>3 DEF CodeInv
<1>13. \A u \in Tabs : Paying(u)' <=> Paying(u)
  BY <1>6 DEF Paying, partyVars
<1>14. \A u \in Tabs : Paying(u) => u # t /\ code[u] \in 1..minted
  BY <1>8, <1>9 DEF Paying, SignInInv, TabInv, InHandler
<1>15. CreditInv'
  <2>1. ASSUME NEW c \in P!Codes, codes'[c] # P!Absent \/ c > minted' PROVE signedIn'[c] = 0
    <3>1. codes[c] # P!Absent \/ c > minted
      BY <1>1, <1>6, <1>7, <2>1, CodesAre DEF n
    <3> QED
      BY <1>6, <3>1 DEF SignInInv, CreditInv
  <2>2. \A u \in Tabs : Paying(u)' => codes'[code'[u]] = P!Absent /\ signedIn'[code'[u]] = 0
    BY <1>6, <1>7, <1>8, <1>13, <1>14 DEF SignInInv, CreditInv
  <2>3. \A u, v \in Tabs : Paying(u)' /\ Paying(v)' /\ code'[u] = code'[v] => u = v
    BY <1>7, <1>13, <1>14 DEF SignInInv, CreditInv
  <2> QED
    BY <2>1, <2>2, <2>3 DEF CreditInv
<1>16. ExchangeInv'
  <2>1. ASSUME NEW u \in Tabs, awaited[u]
        PROVE  code'[u] = code[u] /\ authorized'[code'[u]] = authorized[code[u]]
    BY <1>7, <1>8, <1>9, <2>1 DEF SignInInv, TabInv, InHandler
  <2> QED
    BY <1>6, <2>1 DEF SignInInv, ExchangeInv, partyVars, lossVars
<1>17. AwayInv'
  BY <1>6 DEF SignInInv, AwayInv, partyVars, lossVars
<1>18. SharedInv'
  BY <1>5, <1>6, <1>7, <1>8 DEF SignInInv, SharedInv, partyVars, lossVars
<1>19. NoUnexplainedFailure'
  BY <1>6 DEF SignInInv, NoUnexplainedFailure, partyVars, lossVars
<1> QED
  BY <1>10, <1>11, <1>12, <1>15, <1>16, <1>17, <1>18, <1>19 DEF SignInInv

\* A callback is refused for its state only when its cookies were lost.
LEMMA ReturnKeeps ==
    ASSUME SignInInv, Inv', NEW t \in Tabs, ReturnWithCode(t) PROVE SignInInv'
<1> USE DEF endpointVars, grantVars, joinVars, lossVars
<1>1. /\ UNCHANGED <<jar, idToken, endpointVars, joinVars, lossVars>>
      /\ tab[t] = "away" /\ code[t] # NoCode
      /\ flow' = [flow EXCEPT ![t] = flow[t]]
      /\ \/ /\ ~CookiesMatch(flow[t])
            /\ tab' = [tab EXCEPT ![t] = "answered"]
            /\ result' = [result EXCEPT ![t] = "StateMismatch"]
         \/ /\ tab' = [tab EXCEPT ![t] = "exchange"] /\ result' = result
  BY DEF ReturnWithCode, Return, Callback, Answered
<1>2. /\ flow' = flow /\ tab'[t] \in {"answered", "exchange"}
      /\ \A u \in Tabs \ {t} : tab'[u] = tab[u] /\ result'[u] = result[u]
      /\ result[t] = "pending" /\ flow[t] # NoFlow
      /\ \/ ~CookiesMatch(flow[t]) /\ result'[t] = "StateMismatch" /\ tab'[t] = "answered"
         \/ result'[t] = "pending" /\ tab'[t] = "exchange"
  BY <1>1 DEF SignInInv, Inv, PartyTypeOK, TabInv
<1>3. flow[t] \in displaced \/ CookiesMatch(flow[t])
  BY <1>1, <1>2 DEF SignInInv, AwayInv, Inv, JarInv, Whole, CookiesMatch
<1>4. ~awaited[t]
  BY <1>1 DEF SignInInv, TabInv
<1>5. SignInTypeOK' /\ CodeInv'
  <2>1. SignInTypeOK'
    BY <1>1 DEF SignInInv, SignInTypeOK
  <2>2. CodeInv'
    BY <1>1, <1>2 DEF SignInInv, CodeInv
  <2> QED
    BY <2>1, <2>2
<1>6. TabInv'
  BY <1>1, <1>2, <1>4 DEF SignInInv, TabInv
<1>7. \A u \in Tabs : Paying(u)' => Paying(u)
  BY <1>1, <1>2, <1>4 DEF Paying
<1>8. CreditInv'
  BY <1>1, <1>7 DEF SignInInv, CreditInv
<1>9. ExchangeInv'
  BY <1>1, <1>2, <1>4 DEF SignInInv, ExchangeInv
<1>10. AwayInv'
  BY <1>1, <1>2 DEF SignInInv, AwayInv
<1>11. SharedInv'
  BY <1>1, <1>2 DEF SignInInv, SharedInv
<1>12. NoUnexplainedFailure'
  BY <1>1, <1>2, <1>3 DEF SignInInv, NoUnexplainedFailure
<1> QED
  BY <1>5, <1>6, <1>8, <1>9, <1>10, <1>11, <1>12 DEF SignInInv

\* An address that is opened again shares its code, and its sign-in is excused.
LEMMA ReopenKeeps ==
    ASSUME SignInInv, Inv', NEW t \in Tabs, NEW u \in Tabs, ReopenWithCode(t, u)
    PROVE  SignInInv'
<1> USE DEF endpointVars, grantVars, lossVars
<1>1. /\ UNCHANGED <<jar, idToken, endpointVars, awaited, signedIn>>
      /\ tab[t] = "idle" /\ tab[u] \in InHandler \cup {"answered", "home"}
      /\ flow' = [flow EXCEPT ![t] = flow[u]]
      /\ code' = [code EXCEPT ![t] = code[u]]
      /\ displaced' = displaced \cup {flow[u]} /\ excused' = excused \cup {flow[u]}
      /\ \/ /\ tab' = [tab EXCEPT ![t] = "answered"]
            /\ result' = [result EXCEPT ![t] = "StateMismatch"]
         \/ /\ tab' = [tab EXCEPT ![t] = "exchange"] /\ result' = result
  BY DEF ReopenWithCode, Reopen, Callback, Answered
<1>2. /\ t # u /\ ~awaited[t] /\ result[t] = "pending" /\ code[u] # NoCode /\ code[t] = NoCode
  BY <1>1 DEF SignInInv, TabInv, InHandler
<1>3. /\ flow'[t] = flow[u] /\ code'[t] = code[u] /\ tab'[t] \in {"answered", "exchange"}
      /\ \A v \in Tabs \ {t} : /\ tab'[v] = tab[v] /\ result'[v] = result[v]
                              /\ flow'[v] = flow[v] /\ code'[v] = code[v]
      /\ \/ result'[t] = "StateMismatch" /\ tab'[t] = "answered"
         \/ result'[t] = "pending" /\ tab'[t] = "exchange"
  BY <1>1, <1>2 DEF SignInInv, SignInTypeOK, Inv, PartyTypeOK
<1>4. SignInTypeOK'
  BY <1>1 DEF SignInInv, SignInTypeOK
<1>5. CodeInv'
  <2>1. ASSUME NEW v \in Tabs, code'[v] # NoCode
        PROVE  \E w \in Tabs : code[w] # NoCode /\ code'[v] = code[w] /\ flow'[v] = flow[w]
    BY <1>2, <1>3, <2>1
  <2>2. \A v \in Tabs : code'[v] # NoCode => authorized[code'[v]].challenge = flow'[v]
    BY <2>1 DEF SignInInv, CodeInv
  <2> QED
    BY <1>1, <2>2 DEF SignInInv, CodeInv
<1>6. TabInv'
  BY <1>1, <1>2, <1>3 DEF SignInInv, TabInv
<1>7. \A v \in Tabs : Paying(v)' => Paying(v) /\ v # t
  BY <1>1, <1>2, <1>3 DEF Paying
<1>8. CreditInv'
  BY <1>1, <1>3, <1>7 DEF SignInInv, CreditInv
<1>9. ExchangeInv'
  BY <1>1, <1>2, <1>3 DEF SignInInv, ExchangeInv
<1>10. AwayInv'
  BY <1>1, <1>3 DEF SignInInv, AwayInv, InHandler
<1>11. SharedInv'
  <2>1. ASSUME NEW v \in Tabs, code'[v] = code[u] PROVE flow'[v] = flow[u]
    BY <1>2, <1>3, <2>1 DEF SignInInv, CodeInv
  <2>2. ASSUME NEW v \in Tabs, code'[v] # NoCode, flow'[v] \notin excused'
        PROVE  v # t /\ code[v] = code'[v] /\ code[v] # code[u] /\ flow[v] \notin excused
    BY <1>1, <1>3, <2>1, <2>2
  <2> QED
    BY <1>1, <1>3, <2>2 DEF SignInInv, SharedInv
<1>12. NoUnexplainedFailure'
  BY <1>1, <1>3 DEF SignInInv, NoUnexplainedFailure
<1> QED
  BY <1>4, <1>5, <1>6, <1>8, <1>9, <1>10, <1>11, <1>12 DEF SignInInv

\* A tab that is closed forgets its flow and its code.
LEMMA ResetKeeps == ASSUME SignInInv, Inv', NEW t \in Tabs, Reset(t) PROVE SignInInv'
<1> USE DEF endpointVars, grantVars, lossVars
<1>1. /\ UNCHANGED <<jar, endpointVars, awaited, signedIn, lossVars>>
      /\ tab[t] = "home" /\ tab'[t] = "idle" /\ flow'[t] = NoFlow /\ code'[t] = NoCode
      /\ result'[t] = "pending" /\ code' = [code EXCEPT ![t] = NoCode]
      /\ \A v \in Tabs \ {t} : /\ tab'[v] = tab[v] /\ result'[v] = result[v]
                              /\ flow'[v] = flow[v] /\ code'[v] = code[v]
                              /\ idToken'[v] = idToken[v]
  BY DEF Reset, CloseTab, SignInInv, SignInTypeOK, Inv, PartyTypeOK
<1>2. ~awaited[t]
  BY <1>1 DEF SignInInv, TabInv
<1>3. SignInTypeOK'
  BY <1>1 DEF SignInInv, SignInTypeOK
<1>4. CodeInv'
  BY <1>1 DEF SignInInv, CodeInv
<1>5. TabInv'
  BY <1>1, <1>2 DEF SignInInv, TabInv, InHandler
<1>6. \A v \in Tabs : Paying(v)' => Paying(v) /\ v # t
  BY <1>1, <1>2 DEF Paying
<1>7. CreditInv'
  BY <1>1, <1>6 DEF SignInInv, CreditInv
<1>8. ExchangeInv'
  BY <1>1, <1>2 DEF SignInInv, ExchangeInv
<1>9. AwayInv'
  BY <1>1 DEF SignInInv, AwayInv, TabInv
<1>10. SharedInv'
  BY <1>1 DEF SignInInv, SharedInv
<1>11. NoUnexplainedFailure'
  BY <1>1 DEF SignInInv, NoUnexplainedFailure
<1> QED
  BY <1>3, <1>4, <1>5, <1>7, <1>8, <1>9, <1>10, <1>11 DEF SignInInv

------------------------------------------------------------------------------
(* Exchanges and the ends of callbacks.                                     *)

\* An exchange takes its code, unless it was taken already or has expired,
\* which is an excuse.
LEMMA ExchangeKeeps ==
    ASSUME SignInInv, Inv', NEW t \in Tabs, Exchange(t) PROVE SignInInv'
<1> DEFINE c == code[t]
           lives == codes[c] # P!Absent /\ clock <= authorized[c].expires
<1>1. /\ tab[t] = "exchange" /\ ~awaited[t] /\ at[t] = "idle" /\ c # NoCode
      /\ answer[t].status = "none" /\ flow[t] \in Flows /\ sent[t].verifier = flow[t]
  BY DEF Exchange, P!CodeGrant, SignInInv, TabInv, Inv, PartyTypeOK, HandlerInv, InHandler,
         Fits, Whole, Inv
<1>2. /\ c \in P!Codes /\ c \in 1..minted
      /\ codes[c] \in {P!Absent, authorized[c]}
  BY <1>1, CodeIs
<1>3. PICK e \in Nat :
         authorized[c] = [code |-> c, client |-> Client, redirect |-> Callbacks,
                          challenge |-> flow[t], scope |-> {"openid"}, nonce |-> flow[t],
                          expires |-> e]
  BY <1>1, CodeIs
<1>4. P!Redeemable(codes[c], Client, Callbacks) <=> lives
  BY <1>2, <1>3 DEF P!Redeemable
<1> USE DEF endpointVars, grantVars
<1>5. /\ UNCHANGED <<partyVars, code, signedIn, clock, minted, authorized, displaced>>
      /\ codes' = [codes EXCEPT ![c] = P!Absent]
      /\ proof' = [proof EXCEPT ![t] = flow[t]]
      /\ awaited' = [awaited EXCEPT ![t] = TRUE]
      /\ excused \subseteq excused'
      /\ clock > authorized[c].expires => flow[t] \in excused'
  BY <1>1, FlowsAre DEF Exchange, P!CodeGrant, Excuse
<1>6. \/ /\ lives /\ at' = [at EXCEPT ![t] = "digest"]
         /\ held' = [held EXCEPT ![t] = codes[c]] /\ answer' = answer
      \/ /\ ~lives /\ at' = [at EXCEPT ![t] = "done"]
         /\ held' = [held EXCEPT ![t] = P!Absent]
         /\ answer' = [answer EXCEPT ![t] = P!Refused("invalid_grant")]
  BY <1>4 DEF Exchange, P!CodeGrant, P!Hold, P!End
<1>7. P!Refused("invalid_grant").status = "invalid_grant" /\ "invalid_grant" \in P!Errors
  BY DEF P!Refused, P!NoAnswer, P!Errors
<1>8. /\ proof'[t] = flow[t] /\ awaited'[t] /\ codes'[c] = P!Absent
      /\ \A d \in P!Codes \ {c} : codes'[d] = codes[d]
      /\ \A u \in Tabs \ {t} : /\ proof'[u] = proof[u] /\ awaited'[u] = awaited[u]
                              /\ at'[u] = at[u] /\ held'[u] = held[u] /\ answer'[u] = answer[u]
  BY <1>2, <1>5, <1>6 DEF SignInInv, SignInTypeOK
<1>9. \/ lives /\ at'[t] = "digest" /\ held'[t] = authorized[c] /\ answer'[t].status = "none"
      \/ ~lives /\ at'[t] = "done" /\ answer'[t].status = "invalid_grant"
  BY <1>1, <1>2, <1>6, <1>7 DEF SignInInv, SignInTypeOK
<1>10. SignInTypeOK'
  <2>1. lives => codes[c] \in P!Grant
    BY <1>2 DEF SignInInv, SignInTypeOK
  <2> QED
    BY <1>1, <1>5, <1>6, <2>1 DEF SignInInv, SignInTypeOK
<1>11. TabInv'
  BY <1>1, <1>5, <1>8, <1>9 DEF SignInInv, TabInv, partyVars
<1>12. CodeInv'
  <2>1. \A d \in 1..minted : d \in P!Codes /\ codes'[d] \in {P!Absent, codes[d]}
    BY <1>8, CodesAre DEF SignInInv, SignInTypeOK
  <2>2. \A d \in 1..minted : codes'[d] \in {P!Absent, authorized[d]}
    BY <2>1 DEF SignInInv, CodeInv
  <2> QED
    BY <1>5, <2>2 DEF SignInInv, CodeInv, partyVars
<1>13. /\ \A u \in Tabs \ {t} : Paying(u)' <=> Paying(u)
       /\ Paying(t)' <=> lives
  BY <1>1, <1>5, <1>8, <1>9 DEF Paying, partyVars
<1>14. \A u \in Tabs : Paying(u) => code[u] \in P!Codes /\ codes[code[u]] = P!Absent
  BY CodesAre DEF SignInInv, CreditInv, Paying, TabInv, SignInTypeOK
<1>15. CreditInv'
  <2>1. lives => \A u \in Tabs \ {t} : Paying(u) => code[u] # c
    BY <1>14
  <2>2. lives => signedIn[c] = 0
    BY <1>2 DEF SignInInv, CreditInv
  <2>3. \A d \in P!Codes : codes'[d] # P!Absent => codes[d] # P!Absent
    BY <1>8
  <2>4. \A u \in Tabs : Paying(u)' => codes'[code[u]] = P!Absent /\ signedIn[code[u]] = 0
    BY <1>8, <1>13, <1>14, <2>2 DEF SignInInv, CreditInv
  <2>5. \A u, v \in Tabs : Paying(u)' /\ Paying(v)' /\ code[u] = code[v] => u = v
    BY <1>13, <2>1 DEF SignInInv, CreditInv
  <2> QED
    BY <1>5, <2>3, <2>4, <2>5 DEF SignInInv, CreditInv
<1>16. ExchangeInv'
  <2>1. ~lives => flow[t] \in excused'
    <3>1. codes[c] = P!Absent => flow[t] \in excused
      BY <1>1 DEF SignInInv, SharedInv
    <3>2. clock \in Nat /\ authorized[c].expires \in Nat
      BY <1>3 DEF SignInInv, SignInTypeOK
    <3> QED
      BY <1>5, <3>1, <3>2
  <2> QED
    BY <1>1, <1>5, <1>7, <1>8, <1>9, <2>1 DEF SignInInv, ExchangeInv, partyVars, P!Errors
<1>17. AwayInv'
  BY <1>5 DEF SignInInv, AwayInv, partyVars
<1>18. SharedInv'
  <2>1. ASSUME NEW u \in Tabs \ {t}, code[u] # NoCode, codes'[code[u]] = P!Absent,
               codes[code[u]] # P!Absent
        PROVE  flow[u] \in excused
    <3>1. code[u] = c
      BY <1>8, <2>1, CodesAre DEF SignInInv, SignInTypeOK
    <3> QED
      BY <2>1, <3>1 DEF SignInInv, SharedInv
  <2> QED
    BY <1>5, <1>8, <2>1 DEF SignInInv, SharedInv, partyVars
<1>19. NoUnexplainedFailure'
  BY <1>5 DEF SignInInv, NoUnexplainedFailure, partyVars
<1> QED
  BY <1>10, <1>11, <1>12, <1>15, <1>16, <1>17, <1>18, <1>19 DEF SignInInv

\* The end of an exchange or of a callback that the store has no part in: tab t
\* moves on, its request at the provider is closed or goes on unawaited.
LEMMA AnswerKeeps ==
    ASSUME SignInInv, Inv', NEW t \in Tabs, tab[t] \in InHandler,
           UNCHANGED <<jar, flow, code, clock, codes, minted, authorized>>,
           NEW place \in InHandler \cup {"answered"}, tab' = [tab EXCEPT ![t] = place],
           place # "exchange",
           awaited' = [awaited EXCEPT ![t] = FALSE],
           \A u \in Tabs \ {t} : result'[u] = result[u] /\ idToken'[u] = idToken[u],
           place # "answered" =>
              /\ Paying(t) /\ result'[t] = "pending" /\ idToken'[t] = flow[t]
              /\ signedIn' = signedIn,
           result'[t] # "StateMismatch",
           result'[t] \in {"ExchangeFailed", "InvalidIdToken"} => flow[t] \in excused',
           excused \subseteq excused', displaced' = displaced,
           held' = held, DOMAIN answer' = Tabs,
           \/ at' = at /\ proof' = proof /\ answer' = answer
           \/ /\ at' = [at EXCEPT ![t] = "idle"] /\ proof' = [proof EXCEPT ![t] = P!NoProof]
              /\ answer'[t].status = "none"
              /\ \A u \in Tabs \ {t} : answer'[u] = answer[u],
           \/ signedIn' = signedIn
           \/ /\ Paying(t)
              /\ signedIn' = [signedIn EXCEPT ![code[t]] = 1]
    PROVE  SignInInv'
<1>1. /\ tab'[t] = place /\ ~awaited'[t] /\ code[t] # NoCode
      /\ \A u \in Tabs \ {t} : tab'[u] = tab[u] /\ awaited'[u] = awaited[u]
      /\ \A u \in Tabs \ {t} : at'[u] = at[u] /\ proof'[u] = proof[u] /\ answer'[u] = answer[u]
      /\ at'[t] # "done" => answer'[t].status = "none"
  <2>1. tab'[t] = place /\ ~awaited'[t] /\ code[t] # NoCode
    BY DEF SignInInv, SignInTypeOK, TabInv, Inv, PartyTypeOK, InHandler
  <2>2. \A u \in Tabs \ {t} : tab'[u] = tab[u] /\ awaited'[u] = awaited[u]
    BY DEF SignInInv, SignInTypeOK, Inv, PartyTypeOK
  <2>3. \A u \in Tabs \ {t} : at'[u] = at[u] /\ proof'[u] = proof[u] /\ answer'[u] = answer[u]
    BY DEF SignInInv, SignInTypeOK
  <2>4. at'[t] # "done" => answer'[t].status = "none"
    BY DEF SignInInv, TabInv
  <2> QED
    BY <2>1, <2>2, <2>3, <2>4
<1>2. /\ code[t] \in P!Codes /\ code[t] \in 1..minted
      /\ \A u \in Tabs : code[u] # NoCode => code[u] \in 1..minted
      /\ \A d \in 1..minted : d \in P!Codes /\ ~(d > minted)
  BY <1>1, CodesAre DEF SignInInv, SignInTypeOK
<1>3. SignInTypeOK'
  BY <1>2 DEF SignInInv, SignInTypeOK
<1>4. TabInv'
  BY <1>1 DEF SignInInv, TabInv, InHandler
<1>5. CodeInv'
  BY DEF SignInInv, CodeInv
<1>6. /\ \A u \in Tabs \ {t} : Paying(u)' <=> Paying(u)
      /\ Paying(t)' => place # "answered" /\ Paying(t)
  BY <1>1 DEF Paying
<1>7. \A u \in Tabs : Paying(u) => code[u] # NoCode
  BY DEF SignInInv, Paying, TabInv
<1>8. CreditInv'
  <2>1. CASE signedIn' = signedIn
    BY <1>6, <2>1 DEF SignInInv, CreditInv
  <2>2. CASE Paying(t) /\ signedIn' = [signedIn EXCEPT ![code[t]] = 1] /\ place = "answered"
    <3>1. codes[code[t]] = P!Absent /\ \A u \in Tabs \ {t} : Paying(u) => code[u] # code[t]
      BY <2>2 DEF SignInInv, CreditInv
    <3>2. \A d \in P!Codes \ {code[t]} : signedIn'[d] = signedIn[d]
      BY <2>2 DEF SignInInv, SignInTypeOK
    <3>3. \A d \in P!Codes : codes'[d] # P!Absent \/ d > minted' => signedIn'[d] = 0
      BY <1>2, <3>1, <3>2 DEF SignInInv, CreditInv
    <3>4. \A u \in Tabs : Paying(u)' => u # t /\ Paying(u) /\ code[u] # code[t] /\ code[u] \in P!Codes
      BY <1>2, <1>6, <1>7, <2>2, <3>1
    <3>5. \A u \in Tabs : Paying(u)' => codes'[code'[u]] = P!Absent /\ signedIn'[code'[u]] = 0
      BY <3>2, <3>4 DEF SignInInv, CreditInv
    <3>6. \A u, v \in Tabs : Paying(u)' /\ Paying(v)' /\ code'[u] = code'[v] => u = v
      BY <3>4 DEF SignInInv, CreditInv
    <3> QED
      BY <3>3, <3>5, <3>6 DEF CreditInv
  <2> QED
    BY <2>1, <2>2
<1>9. ExchangeInv'
  BY <1>1 DEF SignInInv, ExchangeInv, InHandler
<1>10. AwayInv'
  BY <1>1 DEF SignInInv, AwayInv, InHandler
<1>11. SharedInv'
  BY <1>1 DEF SignInInv, SharedInv, InHandler
<1>12. NoUnexplainedFailure'
  BY <1>1 DEF SignInInv, NoUnexplainedFailure
<1> QED
  BY <1>3, <1>4, <1>5, <1>8, <1>9, <1>10, <1>11, <1>12 DEF SignInInv

\* Tokens with the nonce of the flow, a refusal that has an excuse, or a loss.
LEMMA ExchangeEndsKeeps ==
    ASSUME SignInInv, Inv', NEW t \in Tabs,
           TokensArrive(t) \/ ExchangeIsRefused(t) \/ ExchangeIsLost(t)
    PROVE  SignInInv'
<1>1. P!NoAnswer.status = "none"
  BY DEF P!NoAnswer
<1>2. ASSUME P!Close(t)
      PROVE  /\ UNCHANGED <<clock, codes, minted, authorized, held>>
             /\ at' = [at EXCEPT ![t] = "idle"] /\ proof' = [proof EXCEPT ![t] = P!NoProof]
             /\ answer'[t].status = "none" /\ DOMAIN answer' = Tabs
             /\ \A u \in Tabs \ {t} : answer'[u] = answer[u]
  BY <1>1, <1>2 DEF P!Close, P!storeVars, SignInInv, SignInTypeOK
<1>3. CASE TokensArrive(t)
  <2>1. PICK token \in answer[t].tokens : token.aud = {Client} /\ Exchanged(t, token.nonce)
    BY <1>3 DEF TokensArrive
  <2>2. token.nonce = flow[t] /\ Paying(t)
    BY <1>3, <2>1 DEF TokensArrive, SignInInv, ExchangeInv, Paying
  <2>3. /\ tab[t] = "exchange" /\ tab' = [tab EXCEPT ![t] = "keys"]
        /\ UNCHANGED <<jar, flow, result>> /\ idToken' = [idToken EXCEPT ![t] = flow[t]]
    BY <2>1, <2>2 DEF Exchanged
  <2>4. /\ result'[t] = "pending" /\ idToken'[t] = flow[t]
        /\ \A u \in Tabs \ {t} : result'[u] = result[u] /\ idToken'[u] = idToken[u]
    BY <2>3 DEF SignInInv, TabInv, Inv, PartyTypeOK
  <2> QED
    BY <1>2, <1>3, <2>2, <2>3, <2>4, AnswerKeeps DEF TokensArrive, InHandler, lossVars
<1>4. ASSUME ExchangeFails(t)
      PROVE  /\ tab[t] = "exchange" /\ tab' = [tab EXCEPT ![t] = "answered"]
             /\ UNCHANGED <<jar, flow>> /\ result'[t] = "ExchangeFailed"
             /\ \A u \in Tabs \ {t} : result'[u] = result[u] /\ idToken'[u] = idToken[u]
  BY <1>4 DEF ExchangeFails, Answered, SignInInv, Inv, PartyTypeOK
<1>5. CASE ExchangeIsRefused(t)
  <2>1. flow[t] \in excused
    BY <1>5 DEF ExchangeIsRefused, SignInInv, ExchangeInv
  <2> QED
    BY <1>2, <1>4, <1>5, <2>1, AnswerKeeps DEF ExchangeIsRefused, InHandler, lossVars
<1>6. CASE ExchangeIsLost(t)
  <2>1. flow[t] # NoFlow
    BY <1>6 DEF ExchangeIsLost, ExchangeFails, SignInInv, Inv, HandlerInv, InHandler, Fits
  <2>2. flow[t] \in excused' /\ excused \subseteq excused' /\ displaced' = displaced
    BY <1>6, <2>1 DEF ExchangeIsLost, Excuse
  <2>3. DOMAIN answer' = Tabs /\ UNCHANGED <<clock, codes, minted, authorized, at, held, proof, answer, code, signedIn>>
    BY <1>6 DEF ExchangeIsLost, endpointVars, grantVars, SignInInv, SignInTypeOK
  <2> QED
    BY <1>4, <1>6, <2>2, <2>3, AnswerKeeps DEF ExchangeIsLost, InHandler
<1> QED
  BY <1>3, <1>5, <1>6

\* The id token is of the flow and its nonce that of the cookies: only keys
\* that could not be had are left to fail it.
LEMMA CompleteKeeps ==
    ASSUME SignInInv, Inv', NEW t \in Tabs, Complete(t) PROVE SignInInv'
<1>1. /\ tab[t] \in {"keys", "refresh"} /\ Paying(t) /\ ~awaited[t]
      /\ idToken[t] = flow[t] /\ sent[t].nonce = flow[t] /\ flow[t] # NoFlow
  BY DEF Complete, NotVerified, KeyUnknown, Verified, Paying, SignInInv, ExchangeInv, TabInv,
         Inv, HandlerInv, InHandler, Fits, Whole
<1>2. /\ UNCHANGED <<jar, flow, idToken, clock, codes, minted, authorized, code, awaited,
                     at, held, proof, answer>>
      /\ awaited' = [awaited EXCEPT ![t] = FALSE] /\ DOMAIN answer' = Tabs
  BY <1>1 DEF Complete, NotVerified, KeyUnknown, Verified, endpointVars, grantVars,
              SignInInv, SignInTypeOK
<1>3. /\ code[t] \in P!Codes /\ signedIn[code[t]] = 0
  BY <1>1, CodesAre DEF SignInInv, CreditInv, TabInv, SignInTypeOK
<1>4. signedIn' = IF result'[t] = "Ok" THEN [signedIn EXCEPT ![code[t]] = 1] ELSE signedIn
  <2>1. signedIn = [c \in P!Codes |-> signedIn[c]]
    BY DEF SignInInv, SignInTypeOK
  <2>2. signedIn' = [c \in P!Codes |-> IF c = code[t] /\ result'[t] = "Ok"
                                       THEN signedIn[c] + 1 ELSE signedIn[c]]
    BY DEF Complete
  <2>3. CASE result'[t] = "Ok"
    <3>1. signedIn' = [c \in P!Codes |-> IF c = code[t] THEN 1 ELSE signedIn[c]]
      BY <1>3, <2>2, <2>3
    <3> QED
      BY <2>1, <2>3, <3>1
  <2>4. CASE result'[t] # "Ok"
    BY <2>1, <2>2, <2>4
  <2> QED
    BY <2>3, <2>4
<1>5. CASE KeyUnknown(t) /\ UNCHANGED lossVars
  <2>1. result' = result /\ result[t] = "pending" /\ tab' = [tab EXCEPT ![t] = "refresh"]
    BY <1>1, <1>5 DEF KeyUnknown, SignInInv, TabInv
  <2> QED
    BY <1>1, <1>2, <1>4, <1>5, <2>1, AnswerKeeps DEF InHandler, lossVars
<1>6. ASSUME NEW why \in {"Ok", "InvalidIdToken"}, Answered(t, why),
             excused \subseteq excused', displaced' = displaced,
             why = "InvalidIdToken" => flow[t] \in excused'
      PROVE  SignInInv'
  <2>1. /\ result'[t] = why /\ tab' = [tab EXCEPT ![t] = "answered"]
        /\ \A u \in Tabs \ {t} : result'[u] = result[u]
    BY <1>6 DEF Answered, SignInInv, Inv, PartyTypeOK
  <2> QED
    BY <1>1, <1>2, <1>4, <1>6, <2>1, AnswerKeeps DEF InHandler
<1>7. CASE NotVerified(t) /\ Excuse(flow[t])
  BY <1>1, <1>6, <1>7 DEF NotVerified, Excuse
<1>8. CASE Verified(t) /\ UNCHANGED lossVars
  BY <1>1, <1>6, <1>8 DEF Verified, lossVars
<1> QED
  BY <1>5, <1>7, <1>8 DEF Complete

------------------------------------------------------------------------------
(* The invariant.                                                           *)

\* Every step keeps it.
LEMMA SignInStep == ASSUME SignInInv, [SignInNext]_signInVars PROVE SignInInv'
<1>1. Inv'
  BY PartyStep, InvStep DEF SignInInv
<1>2. CASE SignInNext
  BY <1>1, <1>2, ProviderStepKeeps, BrowserStepKeeps, ConsentKeeps, ReturnKeeps, ReopenKeeps,
     ResetKeeps, ExchangeKeeps, ExchangeEndsKeeps, CompleteKeeps
     DEF SignInNext
<1>3. CASE UNCHANGED signInVars
  BY <1>1, <1>3, ClockStep
     DEF signInVars, endpointVars, grantVars, ProviderKeeps, SignInInv, SignInTypeOK
<1> QED
  BY <1>2, <1>3

\* It holds always.
LEMMA SignInInvariance == SignInSpec => []SignInInv
<1> QED
  BY SignInStarts, SignInStep, PTL DEF SignInSpec

------------------------------------------------------------------------------
(* What the invariant gives.                                                *)

\* The composition is a relying party whose environment is the provider: all
\* that holds of RelyingParty with any environment holds of it.
THEOREM PartyIsKept == SignInSpec => PartySpec
<1>1. SignInInit => PartyInit
  BY DEF SignInInit
<1>2. SignInInv /\ [SignInNext]_signInVars => [PartyNext]_partyVars
  BY PartyStep
<1> QED
  BY <1>1, <1>2, SignInInvariance, PTL DEF SignInSpec, PartySpec

\* And it is a provider, of which the browser is a client like any other: what
\* is proved of Provider holds of it too.
THEOREM ProviderIsKept == SignInSpec => P!ProviderSpec
<1> USE DEF P!ProviderNext
<1>1. SignInInit => P!ProviderInit
  BY DEF SignInInit
<1>2. ASSUME SignInInv, [SignInNext]_signInVars PROVE [P!ProviderNext]_P!providerVars
  <2>1. CASE UNCHANGED endpointVars
    BY <2>1 DEF endpointVars, grantVars, P!providerVars, P!storeVars, P!tokenVars
  <2>2. CASE ProviderStep
    BY <2>2 DEF ProviderStep
  <2>3. ASSUME NEW t \in Tabs, Consent(t) PROVE P!ProviderNext
    <3>1. flow[t] \in Flows
      BY <1>2, <2>3, FlowsAre DEF Consent, SignInInv, TabInv, Inv, PartyTypeOK
    <3> QED
      BY <2>3, <3>1 DEF Consent
  <2>4. ASSUME NEW t \in Tabs, Exchange(t) PROVE P!ProviderNext
    <3>1. code[t] \in P!Codes
      BY <1>2, <2>4, CodeIs DEF Exchange, SignInInv, TabInv
    <3>2. sent[t].verifier \in Flows \cup {NoFlow}
      BY <1>2 DEF SignInInv, Inv, PartyTypeOK, Jars
    <3> QED
      BY <2>4, <3>1, <3>2 DEF Exchange
  <2>5. ASSUME NEW t \in Tabs, TokensArrive(t) \/ ExchangeIsRefused(t) PROVE P!ProviderNext
    BY <2>5 DEF TokensArrive, ExchangeIsRefused
  <2>6. CASE \/ BrowserStep \/ UNCHANGED signInVars
             \/ \E t \in Tabs : \/ ReturnWithCode(t) \/ ExchangeIsLost(t) \/ Complete(t)
                               \/ Reset(t) \/ \E u \in Tabs : ReopenWithCode(t, u)
    BY <2>1, <2>6 DEF BrowserStep, signInVars, ReturnWithCode, ExchangeIsLost, Complete, Reset,
                      ReopenWithCode
  <2> QED
    BY <1>2, <2>2, <2>3, <2>4, <2>5, <2>6 DEF SignInNext
<1> QED
  BY <1>1, <1>2, SignInInvariance, PTL DEF SignInSpec, P!ProviderSpec

\* One code leads to one sign-in at most, however often its callback is opened
\* or retried and whatever answers are lost.
THEOREM OneSignInForACode == SignInSpec => []OneSignInPerCode
<1>1. SignInInv => OneSignInPerCode
  BY DEF SignInInv, SignInTypeOK, OneSignInPerCode
<1> QED
  BY <1>1, SignInInvariance, PTL

\* A sign-in fails only when something happened to its cookies, its exchange or
\* the keys: tabs that overlap never send it with another's verifier.
THEOREM FailuresAreExplained == SignInSpec => []NoUnexplainedFailure
<1>1. SignInInv => NoUnexplainedFailure
  BY DEF SignInInv
<1> QED
  BY <1>1, SignInInvariance, PTL

------------------------------------------------------------------------------
(* What the parts promise, in the whole.                                    *)

\* What is proved of a relying party with any environment holds with a provider
\* as its environment.
THEOREM PartyKeepsItsPromises == SignInSpec => []SignInIsOfOneFlow /\ []PayloadComesBack
  BY PartyIsKept, NonceBindsSession, PayloadReturns

\* Provider once more, as SignIn instantiates it, with what is proved of it.
Endpoint == INSTANCE ProviderProofs WITH
    Requests <- Tabs, Clients <- {Client}, Redirects <- {Callbacks},
    Registered <- {<<Client, Callbacks>>}, Verifiers <- Flows \cup {NoFlow},
    Scopes <- {"openid"}, Nonces <- Flows, Asks <- {AskFor(f) : f \in Flows},
    Texts <- {}, Messages <- {}, Service <- [name |-> "service", id |-> <<>>, secret |-> <<>>,
                                            scopes |-> {}],
    Skew <- 0, TokenTtl <- 0, KeyTtl <- 0

\* What Provider assumes of its constants holds of a sign-in's.
LEMMA EndpointAssumptions ==
    /\ {<<Client, Callbacks>>} \subseteq {Client} \X {Callbacks}
    /\ {AskFor(f) : f \in Flows}
         \subseteq [client : {Client}, redirect : {Callbacks}, challenge : Flows \cup {NoFlow},
                    scope : SUBSET {"openid"}, nonce : Flows \cup {Endpoint!NoNonce}]
    /\ CodeTtl \in Nat /\ 0 \in Nat
    /\ MaxTime \in Nat /\ MaxCodes \in Nat /\ MaxHandles \in Nat
    /\ Endpoint!NoProof \notin Flows \cup {NoFlow} /\ Endpoint!Api \notin {Client}
    /\ Endpoint!None \notin {Client, "service"} /\ Endpoint!NoNonce \notin Flows
  BY SignInAssumption, FlowAssumption
     DEF Flows, NoFlow, AskFor, Client, Callbacks, Endpoint!NoNonce, Endpoint!NoProof,
         Endpoint!Api, Endpoint!None

\* Both instances of Provider start alike and take the same steps.
LEMMA SameInit ==
    P!ProviderInit <=> Endpoint!ProviderInit
  BY DEF P!ProviderInit, Endpoint!ProviderInit, P!Codes, Endpoint!Codes, P!Handles,
         Endpoint!Handles, P!Absent, Endpoint!Absent, P!NoProof,
         Endpoint!NoProof, P!NoAnswer, Endpoint!NoAnswer

LEMMA SamePass ==
    P!Pass <=> Endpoint!Pass
  BY DEF P!Pass, Endpoint!Pass, P!storeVars, Endpoint!storeVars, P!tokenVars,
         Endpoint!tokenVars

LEMMA SameAuthorize ==
    ASSUME NEW ask PROVE P!Authorize(ask) <=> Endpoint!Authorize(ask)
  BY DEF P!Authorize, Endpoint!Authorize, P!Pend, Endpoint!Pend, P!tokenVars,
         Endpoint!tokenVars

LEMMA SameCodeGrant ==
    ASSUME NEW r, NEW c, NEW client, NEW redirect, NEW v
    PROVE  P!CodeGrant(r, c, client, redirect, v) <=> Endpoint!CodeGrant(r, c, client, redirect, v)
  BY DEF P!CodeGrant, Endpoint!CodeGrant, P!Absent, Endpoint!Absent, P!Redeemable,
         Endpoint!Redeemable, P!CodePresented, Endpoint!CodePresented, P!Hold, Endpoint!Hold,
         P!End, Endpoint!End, P!Refused,
         Endpoint!Refused, P!NoAnswer, Endpoint!NoAnswer

LEMMA SameRefresh ==
    ASSUME NEW r, NEW h, NEW client
    PROVE  P!RefreshGrant(r, h, client) <=> Endpoint!RefreshGrant(r, h, client)
  BY DEF P!RefreshGrant, Endpoint!RefreshGrant, P!TokenPresented, Endpoint!TokenPresented,
         P!Absent, Endpoint!Absent, P!Hold,
         Endpoint!Hold, P!End, Endpoint!End, P!Refused, Endpoint!Refused, P!NoAnswer,
         Endpoint!NoAnswer

LEMMA SameDigest ==
    ASSUME NEW r PROVE P!Digest(r) <=> Endpoint!Digest(r)
  BY DEF P!Digest, Endpoint!Digest, P!Hold, Endpoint!Hold, P!ChainOf, Endpoint!ChainOf,
         P!End, Endpoint!End, P!Absent, Endpoint!Absent, P!Refused, Endpoint!Refused,
         P!NoAnswer, Endpoint!NoAnswer, P!storeVars, Endpoint!storeVars

LEMMA SameIssue ==
    ASSUME NEW r PROVE P!Issue(r) <=> Endpoint!Issue(r)
  BY DEF P!Issue, Endpoint!Issue, P!Renewal, Endpoint!Renewal, P!NoNonce, Endpoint!NoNonce,
         P!End, Endpoint!End, P!Absent, Endpoint!Absent, P!Granted, Endpoint!Granted,
         P!NoAnswer, Endpoint!NoAnswer, P!UserTokens, Endpoint!UserTokens,
         P!IssueAccessToken, Endpoint!IssueAccessToken, P!Sign, Endpoint!Sign, P!None,
         Endpoint!None, P!ProviderKey, Endpoint!ProviderKey, P!SigningKey,
         Endpoint!SigningKey, P!Key, Endpoint!Key, P!Issuer, Endpoint!Issuer, P!User,
         Endpoint!User, P!Api, Endpoint!Api, P!IssueIdToken, Endpoint!IssueIdToken

LEMMA SameAbort ==
    ASSUME NEW r PROVE P!Abort(r) <=> Endpoint!Abort(r)
  BY DEF P!Abort, Endpoint!Abort, P!End, Endpoint!End, P!Absent, Endpoint!Absent, P!Nobody,
         Endpoint!Nobody, P!NoAnswer, Endpoint!NoAnswer, P!storeVars, Endpoint!storeVars

LEMMA SameClose ==
    ASSUME NEW r PROVE P!Close(r) <=> Endpoint!Close(r)
  BY DEF P!Close, Endpoint!Close, P!NoAnswer, Endpoint!NoAnswer, P!NoProof,
         Endpoint!NoProof, P!Absent, Endpoint!Absent, P!storeVars, Endpoint!storeVars

LEMMA SameMalformed ==
    ASSUME NEW r PROVE P!Malformed(r) <=> Endpoint!Malformed(r)
  BY DEF P!Malformed, Endpoint!Malformed, P!End, Endpoint!End, P!Absent, Endpoint!Absent,
         P!Refused, Endpoint!Refused, P!NoAnswer, Endpoint!NoAnswer, P!storeVars,
         Endpoint!storeVars

LEMMA SameApiKey ==
    ASSUME NEW r PROVE P!ApiKey(r) <=> Endpoint!ApiKey(r)
  BY DEF P!ApiKey, Endpoint!ApiKey, P!End, Endpoint!End, P!Absent, Endpoint!Absent,
         P!Granted, Endpoint!Granted, P!NoAnswer, Endpoint!NoAnswer, P!OwnTokens,
         Endpoint!OwnTokens, P!IssueAccessToken, Endpoint!IssueAccessToken, P!Sign,
         Endpoint!Sign, P!None, Endpoint!None, P!NoNonce, Endpoint!NoNonce, P!ProviderKey,
         Endpoint!ProviderKey, P!SigningKey, Endpoint!SigningKey, P!Key, Endpoint!Key,
         P!Issuer, Endpoint!Issuer, P!Api, Endpoint!Api, P!storeVars, Endpoint!storeVars

LEMMA SameNext == P!ProviderNext <=> Endpoint!ProviderNext
<1>1. P!Codes = Endpoint!Codes /\ P!Handles = Endpoint!Handles
  BY DEF P!Codes, Endpoint!Codes, P!Handles, Endpoint!Handles
<1> QED
  BY <1>1, SamePass, SameAuthorize, SameCodeGrant, SameRefresh, SameDigest, SameIssue, SameAbort,
     SameClose, SameMalformed, SameApiKey DEF P!ProviderNext, Endpoint!ProviderNext

\* With a real browser and a real relying party in the place of any clients, the
\* token endpoint keeps every promise it is proved to make to any: one live
\* credential, paid to its prover, tokens that tell the grant and have one kind
\* of reader, and the life of a grant.
THEOREM EndpointIsKept ==
    SignInSpec => /\ []Endpoint!OneLiveCredential
                  /\ []Endpoint!OnlyTheProverIsPaid
                  /\ []Endpoint!TokensTellTheGrant
                  /\ []Endpoint!EveryTokenHasItsReader
                  /\ Endpoint!ImplementsGrantLife
<1>1. Endpoint!ProviderSpec => []Endpoint!OneLiveCredential
  BY EndpointAssumptions, Endpoint!OneCredentialPerSignIn
<1>2. Endpoint!ProviderSpec => []Endpoint!OnlyTheProverIsPaid
  BY EndpointAssumptions, Endpoint!OnlyProversArePaid
<1>3. Endpoint!ProviderSpec => []Endpoint!TokensTellTheGrant
  BY EndpointAssumptions, Endpoint!TokensSayWhatWasGranted
<1>4. Endpoint!ProviderSpec => []Endpoint!EveryTokenHasItsReader
  BY EndpointAssumptions, Endpoint!TokensHaveOneKindOfReader
<1>5. Endpoint!ProviderSpec => Endpoint!ImplementsGrantLife
  BY EndpointAssumptions, Endpoint!GrantLifeIsImplemented
<1>6. P!ProviderSpec => Endpoint!ProviderSpec
  <2>1. P!ProviderInit => Endpoint!ProviderInit
    BY SameInit
  <2>2. [P!ProviderNext]_P!providerVars => [Endpoint!ProviderNext]_Endpoint!providerVars
    BY SameNext DEF P!providerVars, P!storeVars, P!tokenVars, Endpoint!providerVars,
                    Endpoint!storeVars, Endpoint!tokenVars
  <2> QED
    BY <2>1, <2>2, PTL DEF P!ProviderSpec, Endpoint!ProviderSpec
<1> QED
  BY <1>1, <1>2, <1>3, <1>4, <1>5, <1>6, ProviderIsKept
==============================================================================

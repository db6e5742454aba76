------------------------------- MODULE SignIn --------------------------------
(***************************************************************************)
(* A browser signing in at a relying party with the provider: RelyingParty *)
(* with the authorization and token endpoints of Provider in the place of  *)
(* its environment.  The relying party is the one client; the challenge    *)
(* and the nonce of a flow are named by the flow, and the code grant of a  *)
(* callback runs in a fiber of the provider named by the tab.  The other   *)
(* grants of the endpoint are out of the browser's reach.                  *)
(***************************************************************************)
EXTENDS RelyingParty

CONSTANTS CodeTtl, MaxTime, MaxCodes, MaxHandles

ASSUME SignInAssumption ==
    CodeTtl \in Nat /\ MaxTime \in Nat /\ MaxCodes \in Nat /\ MaxHandles \in Nat

VARIABLES
    clock, codes, refreshTokens, minted, issued, at, held, proof, asked, answer,
    authorized,
    code,       \* the code in each tab's address
    awaited,    \* the relying party awaits the provider's answer to a tab's exchange
    signedIn,   \* history: the sign-ins each code has led to
    displaced,  \* history: the flows whose cookies were lost
    excused     \* history: the flows whose exchange or keys were

Client == "party"
Callbacks == "callback"

AskFor(f) ==
    [client |-> Client, redirect |-> Callbacks, challenge |-> f, scope |-> {"openid"}, nonce |-> f]

P == INSTANCE Provider WITH
    Requests <- Tabs, Clients <- {Client}, Redirects <- {Callbacks},
    Registered <- {<<Client, Callbacks>>}, Verifiers <- Flows \cup {NoFlow},
    Scopes <- {"openid"}, Nonces <- Flows, Asks <- {AskFor(f) : f \in Flows},
    Texts <- {}, Messages <- {}, Service <- [name |-> "service", id |-> <<>>, secret |-> <<>>,
                                            scopes |-> {}],
    Skew <- 0, TokenTtl <- 0, KeyTtl <- 0

grantVars == <<clock, codes, refreshTokens, minted, issued, authorized>>
endpointVars == <<grantVars, at, held, proof, asked, answer>>
joinVars == <<code, awaited, signedIn>>
lossVars == <<displaced, excused>>
signInVars == <<partyVars, endpointVars, joinVars, lossVars>>
NoCode == 0

SignInInit ==
    /\ PartyInit
    /\ P!ProviderInit
    /\ code = [t \in Tabs |-> NoCode]
    /\ awaited = [t \in Tabs |-> FALSE]
    /\ signedIn = [c \in P!Codes |-> 0]
    /\ displaced = {}
    /\ excused = {}

\* Something happens to flow f that the parties can do nothing about.
Excuse(f) == excused' = excused \cup ({f} \ {NoFlow}) /\ UNCHANGED displaced
Displace(f) == displaced' = displaced \cup ({f} \ {NoFlow}) /\ UNCHANGED excused

\* Steps of the provider alone; an answer nobody awaits is dropped.
ProviderStep ==
    /\ \/ /\ \/ P!Pass
             \/ \E t \in Tabs : P!Digest(t) \/ P!Issue(t)
             \/ \E t \in Tabs : ~awaited[t] /\ P!Close(t)
          /\ UNCHANGED lossVars
       \/ \E t \in Tabs : P!Abort(t) /\ Excuse(authorized[held[t].code].challenge)
    /\ UNCHANGED <<partyVars, joinVars>>

\* Steps of the browser alone.  When it loses cookies that are not of the flow
\* whose answer it gets, it can be a newer or an older sign-in of another tab.
BrowserStep ==
    /\ \/ Forget /\ Displace(IF jar'.state = jar.state THEN NoFlow ELSE jar.state)
       \/ \E t \in Tabs, withPayload \in BOOLEAN : Begin(t, withPayload) /\ UNCHANGED lossVars
       \/ \E t \in Tabs : Redirected(t) /\ Displace(jar.state)
       \/ \E t \in Tabs : Land(t) /\ Displace(IF jar.state = flow[t] THEN NoFlow ELSE jar.state)
    /\ UNCHANGED <<endpointVars, joinVars>>

\* The user is at the provider, which mints a code and sends the browser back
\* with it; a user may do so twice before the browser leaves.
Consent(t) ==
    /\ tab[t] = "away"
    /\ P!Authorize(AskFor(flow[t]))
    /\ code' = [code EXCEPT ![t] = minted']
    /\ UNCHANGED <<partyVars, awaited, signedIn, lossVars>>

ReturnWithCode(t) ==
    /\ code[t] # NoCode
    /\ Return(t, "code")
    /\ UNCHANGED <<endpointVars, joinVars, lossVars>>

\* The address that is opened again holds the same code.
ReopenWithCode(t, u) ==
    /\ Reopen(t, u)
    /\ displaced' = displaced \cup {flow[u]}
    /\ excused' = excused \cup {flow[u]}
    /\ code' = [code EXCEPT ![t] = code[u]]
    /\ UNCHANGED <<endpointVars, awaited, signedIn>>

\* exchangeAuthorizationCode reaches the token endpoint, with the verifier of
\* the callback's cookies.
Exchange(t) ==
    /\ tab[t] = "exchange"
    /\ ~awaited[t]
    /\ P!CodeGrant(t, code[t], Client, Callbacks, sent[t].verifier)
    /\ awaited' = [awaited EXCEPT ![t] = TRUE]
    /\ Excuse(IF clock > authorized[code[t]].expires THEN flow[t] ELSE NoFlow)
    /\ UNCHANGED <<partyVars, code, signedIn>>

\* Its answer arrives: tokens, with the id token's nonce, or a refusal.
TokensArrive(t) ==
    /\ awaited[t]
    /\ answer[t].status = "ok"
    /\ \E token \in answer[t].tokens : token.aud = {Client} /\ Exchanged(t, token.nonce)
    /\ P!Close(t)
    /\ awaited' = [awaited EXCEPT ![t] = FALSE]
    /\ UNCHANGED <<code, signedIn, lossVars>>

ExchangeIsRefused(t) ==
    /\ awaited[t]
    /\ answer[t].status \in P!Errors
    /\ ExchangeFails(t)
    /\ P!Close(t)
    /\ awaited' = [awaited EXCEPT ![t] = FALSE]
    /\ UNCHANGED <<code, signedIn, lossVars>>

\* The request or its answer is lost; the provider may be at work on it still.
ExchangeIsLost(t) ==
    /\ ExchangeFails(t)
    /\ awaited' = [awaited EXCEPT ![t] = FALSE]
    /\ Excuse(flow[t])
    /\ UNCHANGED <<endpointVars, code, signedIn>>

Complete(t) ==
    /\ \/ NotVerified(t) /\ Excuse(flow[t])
       \/ (KeyUnknown(t) \/ Verified(t)) /\ UNCHANGED lossVars
    /\ signedIn' = [c \in P!Codes |->
           IF c = code[t] /\ result'[t] = "Ok" THEN signedIn[c] + 1 ELSE signedIn[c]]
    /\ UNCHANGED <<endpointVars, code, awaited>>

Reset(t) ==
    /\ CloseTab(t)
    /\ code' = [code EXCEPT ![t] = NoCode]
    /\ UNCHANGED <<endpointVars, awaited, signedIn, lossVars>>

SignInNext ==
    \/ ProviderStep
    \/ BrowserStep
    \/ \E t \in Tabs :
          \/ Consent(t) \/ ReturnWithCode(t) \/ Exchange(t) \/ TokensArrive(t)
          \/ ExchangeIsRefused(t) \/ ExchangeIsLost(t) \/ Complete(t) \/ Reset(t)
          \/ \E u \in Tabs : ReopenWithCode(t, u)

SignInSpec == SignInInit /\ [][SignInNext]_signInVars

------------------------------------------------------------------------------
(* Properties.                                                              *)

\* However often a callback is opened, reloaded or retried, and whatever gets
\* lost, one code leads to one sign-in at most.
OneSignInPerCode ==
    \A c \in P!Codes : signedIn[c] <= 1

\* A sign-in fails for a reason only, whichever tabs overlapped: it is refused
\* for its state because its cookies were replaced by a newer sign-in, expired
\* with the answer to another tab's callback, or died of age; and its code or
\* its id token is refused because the exchange was lost, the code came late
\* or no key was to be had.  A callback that was opened twice may fail for
\* either.  So no sign-in is sent to the provider with another's verifier.
NoUnexplainedFailure ==
    \A t \in Tabs :
        /\ result[t] = "StateMismatch" => flow[t] \in displaced
        /\ result[t] \in {"ExchangeFailed", "InvalidIdToken"} => flow[t] \in excused
==============================================================================

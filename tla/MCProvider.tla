----------------------------- MODULE MCProvider ------------------------------
\* A TLC instance of Provider: two clients that present each other's codes, and
\* a service whose id and secret are full of characters that need escapes.
EXTENDS Provider, TLC

CONSTANTS r1, r2

TwoRequests == {r1, r2}
Symmetry == Permutations(Requests)
TwoClients == {"web", "cli"}
TwoRedirects == {"callback", "other"}
Registrations == {<<"web", "callback">>, <<"web", "other">>, <<"cli", "callback">>}
TwoVerifiers == {1, 2}
TwoScopes == {"openid", "notes"}
TwoNonces == {1, 2}

Ask(client, redirect, challenge, scope, nonce) ==
    [client |-> client, redirect |-> redirect, challenge |-> challenge, scope |-> scope,
     nonce |-> nonce]
\* The two of "web" are told apart by their nonce only, that of "cli" is no
\* OpenID request.
SomeAsks == {Ask("web", "callback", 1, TwoScopes, 1), Ask("web", "callback", 2, TwoScopes, 2),
             Ask("cli", "callback", 1, {"notes"}, NoNonce)}

SomeTexts == {<<"a">>, <<"a", ":">>, <<"%", "3A">>}
OneService == [name |-> "service", id |-> <<"a", ":">>, secret |-> <<"%", "3A">>,
               scopes |-> {"notes"}]

\* What the library sends for the service and for two others; a secret in the
\* body, alone and with a header; and a header with half an escape.
Posted == Request(<<>>, <<OneService.id>>, <<OneService.secret>>, <<{"openid"}>>)
SomeMessages ==
    {ExchangeClientCredentials(OneService.id, secret, <<>>) : secret \in SomeTexts}
    \cup {ExchangeClientCredentials(<<"a">>, OneService.secret, <<{}>>), Posted,
          [Posted EXCEPT !.header = Basic(<<"a", "%", "3A", ":", "%", "25", "3A">>)],
          Request(Basic(<<"a", "%", ":", "3A">>), <<>>, <<>>, <<>>)}
==============================================================================

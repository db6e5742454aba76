------------------------------ MODULE MCBearer -------------------------------
\* TLC instances of Bearer: the tokens a resource server meets.
EXTENDS Bearer, TLC

CONSTANTS c1, c2

TwoCallers == {c1, c2}
Symmetry == Permutations(Callers)

Forever == 100

\* An access token signed by key k that names kid.
Token(k, kid) ==
    [kid |-> kid, signer |-> k, readable |-> TRUE, strict |-> TRUE, claims |-> TRUE,
     alg |-> "ES256", typ |-> "at+jwt", exp |-> Forever, nbf |-> 0,
     iss |-> "issuer", aud |-> {"api"}]

Notes == [own |-> <<{"notes"}>>, group |-> <<>>, derived |-> {"notes:list", "notes"}, needs |-> {}]
Purge == [Notes EXCEPT !.needs = {"notes", "admin"}]

Request(token) ==
    [empty |-> FALSE, token |-> token, typed |-> TRUE, scopes |-> {"notes"},
     endpoint |-> Notes, revocation |-> "clear"]

Defaults ==
    [issuer |-> "issuer", audience |-> "api", algorithms |-> {"ES256"},
     types |-> {"at+jwt"}]

\* A token of the key the issuer is about to publish.
NextKeyRequests == {Request(Token(2, 2))}

\* One request of each kind: with a token of each generation of keys, of a key
\* it does not name, forged, expiring, not valid yet, not an access token (by its
\* type, by its claims), of another issuer, for another api, or with none; and of
\* those that verify, one that is revoked, one the denylist has no answer for,
\* one without the scope, one without a scope the handler requires.
AllRequests ==
    LET plain == Request(Token(1, 1))
    IN {plain, Request(Token(9, 1)),
        [Request(Token(2, 2)) EXCEPT !.revocation = "fails", !.scopes = {"files"}],
        [Request(Token(2, NoKid)) EXCEPT !.revocation = "revoked", !.scopes = {"files"}],
        [plain EXCEPT !.token.exp = 2, !.scopes = {"files"}],
        [plain EXCEPT !.token.nbf = 4, !.endpoint = Purge],
        [plain EXCEPT !.token.typ = "JWT"],
        [plain EXCEPT !.typed = FALSE],
        [plain EXCEPT !.token.iss = "other"],
        [plain EXCEPT !.token.aud = {"other"}],
        [empty |-> TRUE]}
==============================================================================

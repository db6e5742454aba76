------------------------ MODULE MCClientRegistration -------------------------
\* TLC instances of ClientRegistration.
EXTENDS ClientRegistration, TLC

CONSTANTS s1, s2

TwoServices == {s1, s2}
Symmetry == Permutations(Services)

Home == Url("https", "id")
App == Url("https", "app")
LocalApp == Url("http", "localhost")

AllDocuments ==
    {[issuer |-> Home, endpoints |-> {Home}, registration |-> <<Home>>],
     [issuer |-> Home, endpoints |-> {Home}, registration |-> <<>>],
     [issuer |-> Home, endpoints |-> {Home}, registration |-> <<Url("https", "elsewhere")>>],
     [issuer |-> Home, endpoints |-> {Home}, registration |-> <<Url("http", "id")>>],
     [issuer |-> Home, endpoints |-> {Home, NotAUrl}, registration |-> <<Home>>],
     [issuer |-> Url("https", "elsewhere"), endpoints |-> {Home}, registration |-> <<Home>>]}

Plain ==
    [requireSoftwareId |-> FALSE, methods |-> <<>>, grants |-> <<>>, responses |-> <<>>,
     defaultScope |-> <<>>, supportedScopes |-> {"openid", "notes"},
     allowLoopbackHttp |-> <<>>]
Keyed == [Plain EXCEPT !.requireSoftwareId = TRUE]
Narrow ==
    [Keyed EXCEPT !.methods = <<{"client_secret_basic"}>>, !.grants = <<{"client_credentials"}>>,
                  !.defaultScope = <<{"notes"}>>, !.allowLoopbackHttp = <<FALSE>>]
AllPolicies == {Plain, Keyed, Narrow}

\* A public client of the code flow, and what may differ from it.
Demo ==
    [redirects |-> {App}, method |-> "none", grants |-> <<>>, responses |-> <<>>,
     scopes |-> <<{"openid"}>>, software |-> <<"demo">>]
AllRequests ==
    {Demo,
     [Demo EXCEPT !.method = "client_secret_post", !.scopes = <<>>],
     [Demo EXCEPT !.method = "client_secret_basic", !.grants = <<{"client_credentials"}>>,
                  !.responses = <<{}>>],
     [Demo EXCEPT !.redirects = {App, LocalApp}, !.software = <<Blank>>],
     [Demo EXCEPT !.redirects = {[App EXCEPT !.fragment = "some"]}, !.software = <<>>]}

\* Bodies that leave out what the library's client always sends.
AllBodies ==
    {[redirects |-> <<{App}>>, method |-> <<>>, grants |-> <<>>, responses |-> <<{}>>,
      scope |-> <<>>, software |-> <<"other">>],
     [redirects |-> <<{App}>>, method |-> <<>>, grants |-> <<{"client_credentials"}>>,
      responses |-> <<>>, scope |-> <<>>, software |-> <<"other">>],
     [redirects |-> <<{App}>>, method |-> <<>>, grants |-> <<>>, responses |-> <<>>,
      scope |-> <<{"notes"}>>, software |-> <<"other">>],
     [redirects |-> <<{App}>>, method |-> <<"none">>, grants |-> <<{"authorization_code", "password"}>>,
      responses |-> <<>>, scope |-> <<>>, software |-> <<"other">>],
     [redirects |-> <<>>, method |-> <<>>, grants |-> <<>>, responses |-> <<>>,
      scope |-> <<>>, software |-> <<>>]}

\* A client that means to refresh, and no other grant.
OnlyRefresh ==
    {[redirects |-> <<{App}>>, method |-> <<"none">>, grants |-> <<{"refresh_token"}>>,
      responses |-> <<{}>>, scope |-> <<>>, software |-> <<"other">>]}
==============================================================================

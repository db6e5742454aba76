------------------------------ MODULE GrantLife ------------------------------
(***************************************************************************)
(* What the token endpoint promises of a sign-in, without its stores and   *)
(* its requests: what is left of it is one credential, which is a code,    *)
(* then in the hands of a request, then a refresh token, and so on; it is  *)
(* always the same client's, for the same scope; it may be lost at any     *)
(* request, and what is lost does not come back.                           *)
(***************************************************************************)
CONSTANTS SignIns, Clients, Scopes

VARIABLES
    authorized,   \* the sign-ins there have been
    left          \* what can still be exchanged for tokens of each

lifeVars == <<authorized, left>>

\* How a credential goes on, and where it may be lost: a failed attempt burns a
\* code, a lost response or a failing signature what a request holds.  Nothing
\* takes a refresh token away but its use.
Passes == {<<"code", "redeeming">>, <<"redeeming", "refreshable">>,
           <<"refreshable", "refreshing">>, <<"refreshing", "refreshable">>}
Losses == {"code", "redeeming", "refreshing"}

Init ==
    /\ authorized = {}
    /\ left = [s \in SignIns |-> {}]

Authorize(s, client, scope) ==
    /\ s \notin authorized
    /\ authorized' = authorized \cup {s}
    /\ left' = [left EXCEPT ![s] = {[stage |-> "code", client |-> client, scope |-> scope]}]

GoOn(s, credential, to) ==
    /\ left[s] = {credential}
    /\ <<credential.stage, to>> \in Passes
    /\ UNCHANGED authorized
    /\ left' = [left EXCEPT ![s] = {[credential EXCEPT !.stage = to]}]

Lose(s, credential) ==
    /\ left[s] = {credential}
    /\ credential.stage \in Losses
    /\ UNCHANGED authorized
    /\ left' = [left EXCEPT ![s] = {}]

Next ==
    \E s \in SignIns :
        \/ \E client \in Clients, scope \in SUBSET Scopes : Authorize(s, client, scope)
        \/ \E credential \in left[s] :
              \/ \E to \in {"redeeming", "refreshing", "refreshable"} : GoOn(s, credential, to)
              \/ Lose(s, credential)

Spec == Init /\ [][Next]_lifeVars
==============================================================================

------------------------------- MODULE KeyView -------------------------------
(***************************************************************************)
(* What the JWKS cache promises, without the cache: there is one `view` of *)
(* the issuer's key document, it only moves forward towards what the       *)
(* issuer publishes, and every answer to a caller is the view of the       *)
(* moment the answer is given.  A failure is an answer too: it is the view *)
(* of a cache that has learned nothing yet (NoDoc), so no caller can fail  *)
(* once anybody has succeeded.                                             *)
(***************************************************************************)
EXTENDS Integers

CONSTANTS Callers, MaxVersion

NoDoc == 0
Pending == -1

VARIABLES
    published,  \* version of the document the issuer serves
    view,       \* the newest version ever fetched, NoDoc before the first
    reply       \* what each caller holds: Pending, a version, or NoDoc (an error)

TypeOK ==
    /\ published \in 1..MaxVersion
    /\ view \in NoDoc..MaxVersion
    /\ reply \in [Callers -> Pending..MaxVersion]

Init ==
    /\ published = 1
    /\ view = NoDoc
    /\ reply = [c \in Callers |-> Pending]

\* The issuer publishes its next document.
Rotate ==
    /\ published < MaxVersion
    /\ published' = published + 1
    /\ UNCHANGED <<view, reply>>

\* A caller lets go of its answer and asks again.
Ask(c) ==
    /\ reply' = [reply EXCEPT ![c] = Pending]
    /\ UNCHANGED <<published, view>>

\* The view may advance, and some of the callers that wait get it.
Answer(S) ==
    /\ \A c \in S : reply[c] = Pending
    /\ view' \in {view} \cup (1..published)
    /\ view' >= view
    /\ reply' = [c \in Callers |-> IF c \in S THEN view' ELSE reply[c]]
    /\ UNCHANGED published

Next ==
    \/ Rotate
    \/ \E c \in Callers : Ask(c)
    \/ \E S \in SUBSET Callers : Answer(S)

vars == <<published, view, reply>>

Spec == Init /\ [][Next]_vars
==============================================================================

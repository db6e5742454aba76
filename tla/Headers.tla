------------------------------- MODULE Headers -------------------------------
(***************************************************************************)
(* JOSE headers: a header is a function from the parameters it has to      *)
(* their values, and <<>> the empty one.                                   *)
(***************************************************************************)

CONSTANT IllTyped  \* a value of another type than its parameter's schema has

\* Two headers as one, as by spreading both into an object: where both have a
\* parameter the first one's value counts.
Over(first, second) ==
    [x \in DOMAIN first \cup DOMAIN second |-> IF x \in DOMAIN first THEN first[x] ELSE second[x]]

\* What a header says of some names.
Part(header, names) == [x \in DOMAIN header \cap names |-> header[x]]

\* The schema's optional parameters have values of their types; it takes any
\* value for a parameter it does not know.
WellTyped(header, names) == \A x \in DOMAIN header \cap names : header[x] # IllTyped
==============================================================================

-------------------------- MODULE TokenVerifyProofs ---------------------------
(***************************************************************************)
(* What a verdict says of the token and the keys: lemmas about the checks  *)
(* of TokenVerify, for the proofs of the modules that decide by it.        *)
(***************************************************************************)
EXTENDS TokenVerify, WellFoundedInduction, TLAPS

\* Every set of positions has a first one.
LEMMA FirstOf ==
    ASSUME NEW S \in SUBSET Nat, S # {}
    PROVE  \E i \in S : \A j \in S : i <= j
<1>1. PICK i \in S : \A j \in S : ~(<<j, i>> \in OpToRel(<, Nat))
  BY WFMin, NatLessThanWellFounded
<1>2. \A j \in S : <<j, i>> \in Nat \X Nat
  OBVIOUS
<1>3. \A j \in S : ~(j < i)
  BY <1>1, <1>2 DEF OpToRel
<1> QED
  BY <1>3

\* A verdict is Ok and every check passes, or it names the first that fails.
LEMMA VerdictReason ==
    ASSUME NEW token, NEW jwks, NEW options, NEW t
    PROVE  LET checks == Checks(token, jwks, options, t)
               verdictOf == Verdict(token, jwks, options, t)
           IN \/ verdictOf = "Ok" /\ \A i \in 1..11 : checks[i].ok
              \/ \E i \in 1..11 :
                    /\ verdictOf = checks[i].reason /\ ~checks[i].ok
                    /\ \A j \in 1..11 : j < i => checks[j].ok
<1> DEFINE checks == Checks(token, jwks, options, t)
<1> DEFINE failed == {i \in DOMAIN checks : ~checks[i].ok}
<1>1. DOMAIN checks = 1..11
  BY DEF Checks
<1>2. Verdict(token, jwks, options, t) =
        IF failed = {} THEN "Ok"
        ELSE checks[CHOOSE i \in failed : \A j \in failed : i <= j].reason
  BY DEF Verdict
<1> HIDE DEF checks
<1>3. CASE failed = {}
  BY <1>1, <1>2, <1>3 DEF checks
<1>4. CASE failed # {}
  <2>1. \E i \in failed : \A j \in failed : i <= j
    BY <1>1, <1>4, FirstOf
  <2>2. PICK i \in failed :
          /\ \A j \in failed : i <= j
          /\ Verdict(token, jwks, options, t) = checks[i].reason
    BY <1>2, <1>4, <2>1
  <2>3. \A j \in 1..11 : j < i => checks[j].ok
    BY <1>1, <2>2
  <2> QED
    BY <1>1, <2>2, <2>3 DEF checks
<1> QED
  BY <1>3, <1>4

\* Every verdict is a known one.
LEMMA VerdictType ==
    ASSUME NEW token, NEW jwks, NEW options, NEW t
    PROVE  Verdict(token, jwks, options, t) \in Verdicts
<1> DEFINE checks == Checks(token, jwks, options, t)
<1>1. \A i \in 1..11 : checks[i].reason \in Verdicts
  BY DEF Checks, Verdicts
<1>2. "Ok" \in Verdicts
  BY DEF Verdicts
<1> HIDE DEF checks
<1> QED
  BY <1>1, <1>2, VerdictReason DEF checks

\* A token is verified just when every check passes, in whatever order.
THEOREM VerdictIsOk ==
    ASSUME NEW token, NEW jwks, NEW options, NEW t
    PROVE  Verdict(token, jwks, options, t) = "Ok" <=>
             LET usable == {key \in Candidates(token, jwks) : key.imports}
             IN /\ token.readable /\ token.strict /\ token.claims
                /\ options.algorithms = {} \/ token.alg \in options.algorithms
                /\ options.types = {} \/ token.typ \in options.types
                /\ \E key \in usable : key.id = token.signer
                /\ t <= token.exp + Skew /\ token.nbf - Skew <= t
                /\ options.issuer \in {None, token.iss}
                /\ options.audience = None \/ options.audience \in token.aud
<1> DEFINE checks == Checks(token, jwks, options, t)
           usable == {key \in Candidates(token, jwks) : key.imports}
<1>1. \A i \in 1..11 : checks[i].reason # "Ok"
  BY DEF Checks
<1>2. /\ checks[1].ok <=> token.readable
      /\ checks[2].ok <=> (options.algorithms = {} \/ token.alg \in options.algorithms)
      /\ checks[3].ok <=> (options.types = {} \/ token.typ \in options.types)
      /\ checks[4].ok <=> (Candidates(token, jwks) # {} /\ usable # {})
      /\ checks[5].ok <=> token.strict
      /\ checks[6].ok <=> (\E key \in usable : key.id = token.signer)
      /\ checks[7].ok <=> token.claims
      /\ checks[8].ok <=> (t <= token.exp + Skew)
      /\ checks[9].ok <=> (token.nbf - Skew <= t)
      /\ checks[10].ok <=> (options.issuer \in {None, token.iss})
      /\ checks[11].ok <=> (options.audience = None \/ options.audience \in token.aud)
  BY DEF Checks
<1>3. (\E key \in usable : key.id = token.signer) => Candidates(token, jwks) # {} /\ usable # {}
  OBVIOUS
<1> HIDE DEF checks, usable
<1>4. Verdict(token, jwks, options, t) = "Ok" <=> \A i \in 1..11 : checks[i].ok
  BY <1>1, VerdictReason DEF checks
<1>5. (\A i \in 1..11 : checks[i].ok) <=>
        /\ checks[1].ok /\ checks[2].ok /\ checks[3].ok /\ checks[4].ok /\ checks[5].ok
        /\ checks[6].ok /\ checks[7].ok /\ checks[8].ok /\ checks[9].ok /\ checks[10].ok
        /\ checks[11].ok
  <2>1. 1..11 = {1, 2, 3, 4, 5, 6, 7, 8, 9, 10, 11}
    OBVIOUS
  <2> QED
    BY <2>1
<1> QED
  BY <1>2, <1>3, <1>4, <1>5 DEF usable

\* What passes is of an asked-for type, and signed by a key of the set.
LEMMA VerdictOk ==
    ASSUME NEW token, NEW jwks, NEW options, NEW t,
           Verdict(token, jwks, options, t) = "Ok"
    PROVE  /\ options.types = {} \/ token.typ \in options.types
           /\ \E key \in jwks : key.id = token.signer
  BY VerdictIsOk DEF Candidates

\* An unknown key: no key of the set is for such a token.
LEMMA VerdictUnknownKey ==
    ASSUME NEW token, NEW jwks, NEW options, NEW t,
           Verdict(token, jwks, options, t) = "UnknownKey"
    PROVE  ~ \E key \in Candidates(token, jwks) : key.imports
<1> DEFINE checks == Checks(token, jwks, options, t)
<1>1. \A i \in 1..11 : checks[i].reason = "UnknownKey" => i = 4
  BY DEF Checks
<1>2. checks[4].ok <=>
        /\ Candidates(token, jwks) # {}
        /\ {k \in Candidates(token, jwks) : k.imports} # {}
  BY DEF Checks
<1> HIDE DEF checks
<1>3. ~checks[4].ok
  BY <1>1, VerdictReason DEF checks
<1> QED
  BY <1>2, <1>3

\* A bad signature: some keys are for such a token, none of them signed it.
LEMMA VerdictBadSignature ==
    ASSUME NEW token, NEW jwks, NEW options, NEW t,
           Verdict(token, jwks, options, t) = "BadSignature"
    PROVE  /\ \E key \in Candidates(token, jwks) : key.imports
           /\ \A key \in Candidates(token, jwks) : key.imports => key.id # token.signer
<1> DEFINE checks == Checks(token, jwks, options, t)
<1>1. \A i \in 1..11 : checks[i].reason = "BadSignature" => i = 6
  BY DEF Checks
<1>2. /\ checks[4].ok <=>
            /\ Candidates(token, jwks) # {}
            /\ {k \in Candidates(token, jwks) : k.imports} # {}
      /\ checks[6].ok <=>
            \E key \in {k \in Candidates(token, jwks) : k.imports} : key.id = token.signer
  BY DEF Checks
<1>3. 4 \in 1..11 /\ 4 < 6
  OBVIOUS
<1> HIDE DEF checks
<1>4. checks[4].ok /\ ~checks[6].ok
  BY <1>1, <1>3, VerdictReason DEF checks
<1> QED
  BY <1>2, <1>4
==============================================================================

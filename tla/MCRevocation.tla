---------------------------- MODULE MCRevocation -----------------------------
\* TLC instances of Revocation: a token that expires during the run and one
\* without a jti.
EXTENDS Revocation

CONSTANTS short, anonymous, f1, f2

AllTokens == {short, anonymous}
JtiTokens == {short}
Expiry == [t \in AllTokens |-> IF t = short THEN 5 ELSE 100]

OneFiber == {f1}
TwoFibers == {f1, f2}
==============================================================================

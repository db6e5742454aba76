------------------------------ MODULE MCSignIn -------------------------------
\* TLC instances of SignIn.
EXTENDS SignIn, TLC

CONSTANTS t1, t2

TwoTabs == {t1, t2}
Symmetry == Permutations(Tabs)
==============================================================================

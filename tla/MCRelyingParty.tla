--------------------------- MODULE MCRelyingParty ----------------------------
\* A TLC instance of RelyingParty.
EXTENDS RelyingParty, TLC

CONSTANTS t1, t2, t3

AllTabs == {t1, t2, t3}
Symmetry == Permutations(Tabs)
==============================================================================

\* A sign-in without a payload after an abandoned one with a payload.
CONSTANTS
    t1 = t1
    t2 = t2
    t3 = t3
    Tabs <- AllTabs
    MaxFlows = 2
SPECIFICATION PartySpec
SYMMETRY Symmetry
INVARIANTS
    PayloadIsOfThisFlow

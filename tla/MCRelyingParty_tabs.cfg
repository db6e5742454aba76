\* Three tabs of one browser and two sign-ins.
CONSTANTS
    t1 = t1
    t2 = t2
    t3 = t3
    Tabs <- AllTabs
    MaxFlows = 2
SPECIFICATION PartySpec
SYMMETRY Symmetry
INVARIANTS
    SignInIsOfOneFlow
    PayloadComesBack
